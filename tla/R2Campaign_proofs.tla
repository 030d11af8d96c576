--------------------------- MODULE R2Campaign_proofs ---------------------------
(***************************************************************************)
(* The campaign properties hold for any number of invocations and any      *)
(* positive numbers of rows per stage.  The argument: an invocation past   *)
(* its checks has every earlier stage completed, and a stage in progress   *)
(* is started and not completed; two stages of that kind are the same      *)
(* stage, and its exclusive marker admits one invocation.  Its meter, its  *)
(* answers and its rows then account for the whole journal of the stage.   *)
(* At the end, the episodes that a campaign runs, for any totals.          *)
(***************************************************************************)
EXTENDS R2Campaign, Episode, FiniteSetTheorems, TLAPS

Places == {"idle", "checking", "cleared", "entered", "working", "waiting",
           "sealed", "raised", "reporting", "composed", "publishing"}
Admitted == {"checking", "cleared"} \cup InTry
Publisher == {"reporting", "composed", "publishing"}

CompletedStarted == completed \subseteq started

PreviousSealed ==
  \A p \in Invocations : at[p] \in Admitted => Before(stage[p]) \subseteq completed

StageOwned ==
  \A p \in Invocations : at[p] \in InTry => stage[p] \in started \ completed

Untouched ==
  \A s \in Stages \ started :
    begun[s] = 0 /\ answered[s] = 0 /\ failed[s] = 0 /\ rows[s] = 0

\* The locals of the invocation in progress against the files of its stage.
AccountedFor(p, s) ==
  /\ meter[p] = begun[s] /\ failed[s] = 0
  /\ answered[s] = rows[s] * CallsPerRow(s) + fresh[p]
  /\ fresh[p] <= CallsPerRow(s)
  /\ begun[s] = answered[s] + (IF at[p] = "waiting" THEN 1 ELSE 0)
  /\ at[p] = "waiting" => fresh[p] < CallsPerRow(s)
Accounted == \A p \in Invocations : at[p] \in InTry => AccountedFor(p, stage[p])

PublisherLast ==
  \A p \in Invocations :
    /\ at[p] \in Publisher => completed = Stages
    /\ at[p] = "publishing" => report > 0 /\ p \in authors
    /\ at[p] \in {"reporting", "composed"} => p \notin authors

Order == /\ TypeOK
         /\ CompletedStarted /\ PreviousSealed /\ StageOwned /\ OneInFlight

Books == /\ Untouched /\ Accounted
         /\ BudgetsFinite /\ AtMostOneStepLost /\ CompletedIsWhole

IInv == /\ Order /\ Books
        /\ TestExposedLast /\ PublisherLast /\ PublishedOnce

-----------------------------------------------------------------------------
LEMMA StageFacts ==
  /\ Stages = {1, 2, 3, 4}
  /\ \A s \in Stages : CallsPerRow(s) \in {1, 2} /\ Rows[s] \in Nat \ {0}
  /\ \A s, t \in Stages : s < t => s \in Before(t)
  /\ \A s \in Stages : Before(s) \subseteq Stages
BY RowsAssumption DEF Stages, CallsPerRow, Before, Propose

LEMMA InitOrder == Init => Order
<1> SUFFICES ASSUME Init PROVE Order OBVIOUS
<1>1. TypeOK
  <2>1. started \in Receipts /\ completed \in Receipts /\ aborted \in Receipts
        /\ partial \in Receipts /\ corpus \subseteq Phases
    BY DEF Init, Receipts
  <2>2. /\ begun \in [Stages -> Nat] /\ answered \in [Stages -> Nat]
        /\ failed \in [Stages -> Nat] /\ rows \in [Stages -> Nat]
    BY DEF Init
  <2>4. selection \in BOOLEAN /\ report \in 0..ReportFiles
    <3>1. selection = FALSE /\ report = 0
      BY Zenon DEF Init
    <3>2. selection \in BOOLEAN
      BY <3>1, Zenon
    <3>3. report \in 0..ReportFiles
      BY <3>1 DEF ReportFiles
    <3> QED BY <3>2, <3>3
  <2>3. /\ at \in [Invocations -> Places] /\ stage \in [Invocations -> Stages]
        /\ meter \in [Invocations -> Nat] /\ fresh \in [Invocations -> Nat]
    BY DEF Init, Places, Stages, Train
  <2>5. authors \subseteq Invocations /\ publications \in Nat
    BY DEF Init
  <2> QED BY <2>1, <2>2, <2>3, <2>4, <2>5 DEF TypeOK, Places
<1>2. CompletedStarted /\ PreviousSealed /\ StageOwned /\ OneInFlight
  BY DEF Init, CompletedStarted, PreviousSealed, StageOwned, OneInFlight, InTry, Admitted
<1> QED BY <1>1, <1>2 DEF Order

LEMMA InitBooks == Init => Books
<1>1. ASSUME NEW s \in Stages PROVE ExpectedCalls(s) >= 0 /\ CallsPerRow(s) >= 0
  BY StageFacts DEF ExpectedCalls
<1>2. SUFFICES ASSUME Init PROVE Books OBVIOUS
<1>3. Untouched /\ Accounted /\ BudgetsFinite
  BY <1>1, <1>2 DEF Init, Untouched, Accounted, BudgetsFinite, InTry
<1>4. AtMostOneStepLost
  BY StageFacts, <1>2 DEF Init, AtMostOneStepLost
<1>5. CompletedIsWhole
  BY <1>2 DEF Init, CompletedIsWhole
<1> QED BY <1>3, <1>4, <1>5 DEF Books

-----------------------------------------------------------------------------
(* Types *)

LEMMA TypeStep == TypeOK /\ [Next]_vars => TypeOK'
<1> SUFFICES ASSUME TypeOK, [Next]_vars PROVE TypeOK' OBVIOUS
<1> USE DEF TypeOK, directory, journal, history
<1>1. ASSUME NEW p \in Invocations, NEW s \in Stages, RunStage(p, s) PROVE TypeOK'
  BY <1>1 DEF RunStage, Go, Look
<1>2. ASSUME NEW p \in Invocations, Checked(p) PROVE TypeOK'
  BY <1>2 DEF Checked, Go, Forget
<1>3. ASSUME NEW p \in Invocations, Start(p) PROVE TypeOK'
  BY <1>3 DEF Start, Go, Receipts
<1>4. ASSUME NEW p \in Invocations, Expose(p) PROVE TypeOK'
  BY <1>4 DEF Expose, Go, PhaseDirectory
<1>5. ASSUME NEW p \in Invocations, Ask(p) PROVE TypeOK'
  BY <1>5 DEF Ask, Go
<1>6. ASSUME NEW p \in Invocations, Answered(p) PROVE TypeOK'
  BY <1>6 DEF Answered, Go
<1>7. ASSUME NEW p \in Invocations, WriteRow(p) PROVE TypeOK'
  BY <1>7 DEF WriteRow, Go
<1>8. ASSUME NEW p \in Invocations, Select(p) PROVE TypeOK'
  BY <1>8 DEF Select, Go
<1>9. ASSUME NEW p \in Invocations, Seal(p) PROVE TypeOK'
  BY <1>9 DEF Seal, Go, Receipts
<1>10. ASSUME NEW p \in Invocations, Leave(p) PROVE TypeOK'
  BY <1>10 DEF Leave, Go
<1>11. ASSUME NEW p \in Invocations, Raise(p) PROVE TypeOK'
  <2>1. failed' \in [Stages -> Nat] /\ partial' \in Receipts
    BY <1>11 DEF Raise, Receipts
  <2>2. at' \in [Invocations -> Places]
    BY <1>11 DEF Raise, Go, Places
  <2> QED BY <1>11, <2>1, <2>2 DEF Raise, Places
<1>12. ASSUME NEW p \in Invocations, Abort(p) PROVE TypeOK'
  BY <1>12 DEF Abort, Go, Receipts
<1>13. ASSUME NEW p \in Invocations, Report(p) PROVE TypeOK'
  BY <1>13 DEF Report, Go, Look
<1>14. ASSUME NEW p \in Invocations, Recompute(p) PROVE TypeOK'
  BY <1>14 DEF Recompute, Go, Forget
<1>15. ASSUME NEW p \in Invocations, Publish(p) PROVE TypeOK'
  BY <1>15 DEF Publish, Author, Go, ReportFiles
<1>16. ASSUME NEW p \in Invocations, PublishFile(p) PROVE TypeOK'
  BY <1>16 DEF PublishFile, Author, Go, ReportFiles
<1>17. ASSUME NEW p \in Invocations, Kill(p) PROVE TypeOK'
  BY <1>17 DEF Kill, Forget
<1>18. ASSUME UNCHANGED vars PROVE TypeOK'
  BY <1>18 DEF vars
<1> QED
  BY <1>1, <1>2, <1>3, <1>4, <1>5, <1>6, <1>7, <1>8, <1>9, <1>10, <1>11, <1>12,
     <1>13, <1>14, <1>15, <1>16, <1>17, <1>18 DEF Next, Run

-----------------------------------------------------------------------------
(* One stage at a time *)

\* Two stages that are started, not completed, and preceded by completed
\* stages only, are the same stage.
LEMMA OneOpenStage ==
  ASSUME NEW s \in Stages, NEW t \in Stages, s \notin completed, t \notin completed,
         Before(s) \subseteq completed, Before(t) \subseteq completed
  PROVE  s = t
<1>1. ~(s < t) /\ ~(t < s) BY StageFacts
<1> QED BY <1>1 DEF Stages

LEMMA OrderStep == Order /\ [Next]_vars => Order'
<1> SUFFICES ASSUME Order, [Next]_vars PROVE Order' OBVIOUS
<1>0. TypeOK' /\ TypeOK BY TypeStep DEF Order
<1> USE DEF Order, CompletedStarted, PreviousSealed, StageOwned, OneInFlight, InTry, Admitted,
            directory, journal
\* Leaving the try block, or moving outside it, admits nobody.
<1>1. ASSUME NEW p \in Invocations, NEW to \in Places \ Admitted,
             at' = [at EXCEPT ![p] = to], UNCHANGED stage,
             completed \subseteq completed', completed' \subseteq started',
             started \subseteq started',
             \A q \in Invocations : at[q] \in InTry /\ q # p => stage[q] \notin completed'
      PROVE  Order'
  BY <1>0, <1>1 DEF TypeOK, Places
\* Moving inside the try block changes no receipt.
<1>2. ASSUME NEW p \in Invocations, NEW to \in InTry, at[p] \in InTry,
             at' = [at EXCEPT ![p] = to] \/ UNCHANGED at,
             UNCHANGED <<stage, completed, started>>
      PROVE  Order'
  BY <1>0, <1>2 DEF TypeOK, Places
<1>3. ASSUME NEW p \in Invocations, NEW s \in Stages, RunStage(p, s) PROVE Order'
  BY <1>0, <1>3 DEF RunStage, Go, PreviousCompleted, TypeOK
<1>4. ASSUME NEW p \in Invocations, Checked(p) PROVE Order'
  BY <1>0, <1>4 DEF Checked, Go, TypeOK
<1>5. ASSUME NEW p \in Invocations, Start(p) PROVE Order'
  <2>1. CASE stage[p] \in started
    BY <1>0, <1>1, <1>5, <2>1 DEF Start, Go, MarkerFree, TypeOK, Places
  <2>2. CASE stage[p] \notin started
    <3>1. ASSUME NEW q \in Invocations PROVE at[q] \notin InTry
      <4>1. SUFFICES ASSUME at[q] \in InTry PROVE FALSE OBVIOUS
      <4>2. stage[q] = stage[p]
        BY <1>0, <1>5, <2>2, <4>1, OneOpenStage DEF Start, Go, TypeOK
      <4> QED BY <2>2, <4>1, <4>2
    <3> QED BY <1>0, <1>5, <2>2, <3>1 DEF Start, Go, MarkerFree, TypeOK
  <2> QED BY <2>1, <2>2
<1>6. ASSUME NEW p \in Invocations, Expose(p) PROVE Order'
  BY <1>0, <1>1, <1>2, <1>6 DEF Expose, Go, TypeOK, Places
<1>7. ASSUME NEW p \in Invocations, Ask(p) \/ Answered(p) \/ WriteRow(p) \/ Select(p)
      PROVE  Order'
  BY <1>2, <1>7 DEF Ask, Answered, WriteRow, Select, Go
<1>8. ASSUME NEW p \in Invocations, Seal(p) PROVE Order'
  BY <1>0, <1>1, <1>8 DEF Seal, Go, Places
<1>9. ASSUME NEW p \in Invocations, Leave(p) \/ Raise(p) \/ Abort(p) \/ Kill(p) PROVE Order'
  BY <1>0, <1>1, <1>9 DEF Leave, Raise, Abort, Kill, Go, Places
<1>10. ASSUME NEW p \in Invocations,
              Report(p) \/ Recompute(p) \/ Publish(p) \/ PublishFile(p) PROVE Order'
  BY <1>0, <1>1, <1>10 DEF Report, Recompute, Publish, PublishFile, Go, Places
<1>11. ASSUME UNCHANGED vars PROVE Order'
  BY <1>0, <1>11 DEF vars
<1> QED
  BY <1>3, <1>4, <1>5, <1>6, <1>7, <1>8, <1>9, <1>10, <1>11 DEF Next, Run

-----------------------------------------------------------------------------
(* The journal, the meter and the rows *)

LEMMA OneMoreRow ==
  ASSUME NEW r \in Nat, NEW c \in {1, 2}
  PROVE  (r + 1) * c = r * c + c /\ r * c \in Nat
<1>1. CASE c = 1 BY <1>1
<1>2. CASE c = 2 BY <1>2
<1> QED BY <1>1, <1>2

LEMMA SameRows ==
  ASSUME NEW r \in Nat, NEW q \in Nat, NEW c \in {1, 2}, r * c = q * c
  PROVE  r = q
<1>1. CASE c = 1 BY <1>1
<1>2. CASE c = 2 BY <1>2
<1> QED BY <1>1, <1>2

\* What the properties say of one stage, and what they need of its owner.
StageSound(s) ==
  /\ begun[s] <= ExpectedCalls(s)
  /\ rows[s] * CallsPerRow(s) <= answered[s]
  /\ begun[s] <= (rows[s] + 1) * CallsPerRow(s)
  /\ answered[s] + failed[s] <= begun[s]
  /\ begun[s] <= answered[s] + failed[s] + 1

LEMMA StageSoundness ==
  (\A s \in Stages : StageSound(s)) <=> BudgetsFinite /\ AtMostOneStepLost
BY DEF StageSound, BudgetsFinite, AtMostOneStepLost

\* Steps that leave the journal, the rows and the meters alone, and admit
\* nobody to the try block.
LEMMA QuietBooks ==
  ASSUME TypeOK, Books, UNCHANGED <<journal, rows, meter, fresh, completed, selection>>,
         started \subseteq started',
         \A q \in Invocations : at'[q] \in InTry =>
           /\ at[q] \in InTry /\ stage'[q] = stage[q]
           /\ (at'[q] = "waiting") = (at[q] = "waiting")
  PROVE  Books'
<1> USE DEF Books, journal
<1>1. Untouched' BY DEF Untouched
<1>2. Accounted' BY DEF Accounted, AccountedFor
<1>3. BudgetsFinite' /\ AtMostOneStepLost' BY DEF BudgetsFinite, AtMostOneStepLost
<1>4. CompletedIsWhole' BY DEF CompletedIsWhole, Reconciles
<1> QED BY <1>1, <1>2, <1>3, <1>4

\* A step of the only invocation in progress, within its own stage.
LEMMA OwnBooks ==
  ASSUME TypeOK, TypeOK', Order, Books, NEW p \in Invocations, at[p] \in InTry,
         UNCHANGED <<started, completed, stage>>, selection => selection',
         \A q \in Invocations : q # p => at'[q] = at[q],
         \A s \in Stages \ {stage[p]} :
           /\ begun'[s] = begun[s] /\ answered'[s] = answered[s]
           /\ failed'[s] = failed[s] /\ rows'[s] = rows[s],
         StageSound(stage[p])', at'[p] \in InTry => AccountedFor(p, stage[p])'
  PROVE  Books'
<1>0. stage[p] \in started \ completed /\ stage[p] \in Stages
  BY DEF Order, StageOwned, TypeOK
<1>1. Untouched' BY <1>0 DEF Books, Untouched
<1>2. Accounted'
  <2>1. \A q \in Invocations : q # p => at'[q] \notin InTry
    BY DEF Order, OneInFlight
  <2> QED BY <2>1 DEF Accounted, AccountedFor
<1>3. BudgetsFinite' /\ AtMostOneStepLost'
  <2>1. ASSUME NEW s \in Stages PROVE StageSound(s)'
    <3>1. CASE s = stage[p] BY <3>1
    <3>2. CASE s # stage[p]
      BY <3>2, StageSoundness DEF Books, StageSound, ExpectedCalls
    <3> QED BY <3>1, <3>2
  <2> QED BY <2>1 DEF StageSound, BudgetsFinite, AtMostOneStepLost
<1>4. CompletedIsWhole'
  BY <1>0 DEF Books, CompletedIsWhole, Reconciles, Order, TypeOK, Receipts
<1> QED BY <1>1, <1>2, <1>3, <1>4 DEF Books

\* An invocation in progress, with its stage accounted for.
LEMMA Owner ==
  ASSUME Order, Books, NEW p \in Invocations, at[p] \in InTry
  PROVE  /\ stage[p] \in Stages /\ AccountedFor(p, stage[p]) /\ StageSound(stage[p])
         /\ begun[stage[p]] \in Nat /\ answered[stage[p]] \in Nat
         /\ failed[stage[p]] \in Nat /\ rows[stage[p]] \in Nat
         /\ fresh[p] \in Nat /\ meter[p] \in Nat
         /\ CallsPerRow(stage[p]) \in {1, 2} /\ Rows[stage[p]] \in Nat
         /\ ExpectedCalls(stage[p]) = Rows[stage[p]] * CallsPerRow(stage[p])
<1>1. stage[p] \in Stages BY DEF Order, TypeOK
<1>2. AccountedFor(p, stage[p]) BY DEF Books, Accounted
<1>3. StageSound(stage[p]) BY <1>1, StageSoundness DEF Books
<1> QED BY <1>1, <1>2, <1>3, StageFacts DEF Order, TypeOK, ExpectedCalls

LEMMA BooksStep == Order /\ Books /\ [Next]_vars => Books'
<1> SUFFICES ASSUME Order, Books, [Next]_vars PROVE Books' OBVIOUS
<1>0. TypeOK /\ TypeOK' BY TypeStep DEF Order
<1> USE DEF directory, journal
<1>1. ASSUME NEW p \in Invocations, NEW s \in Stages, RunStage(p, s) PROVE Books'
  BY <1>0, <1>1, QuietBooks DEF RunStage, Go, TypeOK, InTry
<1>2. ASSUME NEW p \in Invocations, Checked(p) PROVE Books'
  BY <1>0, <1>2, QuietBooks DEF Checked, Go, TypeOK, InTry
<1>3. ASSUME NEW p \in Invocations, Start(p) PROVE Books'
  <2>1. CASE stage[p] \in started
    <3>1. Untouched' BY <1>3, <2>1 DEF Start, MarkerFree, Books, Untouched
    <3>2. Accounted'
      BY <1>0, <1>3, <2>1 DEF Start, MarkerFree, Go, Books, Accounted, AccountedFor, TypeOK, InTry
    <3>3. BudgetsFinite' /\ AtMostOneStepLost' /\ CompletedIsWhole'
      BY <1>3 DEF Start, Books, BudgetsFinite, AtMostOneStepLost, CompletedIsWhole, Reconciles
    <3> QED BY <3>1, <3>2, <3>3 DEF Books
  <2>2. CASE stage[p] \notin started
    <3>0. stage[p] \in Stages BY <1>0 DEF TypeOK
    <3>1. Untouched' BY <1>3, <2>2 DEF Start, MarkerFree, Books, Untouched
    <3>2. AccountedFor(p, stage[p])'
      <4>1. /\ begun'[stage[p]] = 0 /\ answered'[stage[p]] = 0
            /\ failed'[stage[p]] = 0 /\ rows'[stage[p]] = 0
        BY <1>3, <2>2, <3>0 DEF Start, Books, Untouched
      <4>2. meter'[p] = 0 /\ fresh'[p] = 0 /\ at'[p] = "entered" /\ stage'[p] = stage[p]
        BY <1>0, <1>3, <2>2 DEF Start, MarkerFree, Go, TypeOK
      <4> QED BY <3>0, <4>1, <4>2, StageFacts DEF AccountedFor
    <3>3. Accounted'
      <4>1. ASSUME NEW q \in Invocations, q # p, at'[q] \in InTry
            PROVE  AccountedFor(q, stage[q])'
        BY <1>0, <1>3, <4>1 DEF Start, Go, Books, Accounted, AccountedFor, TypeOK
      <4> QED BY <3>2, <4>1, <1>3 DEF Accounted, Start
    <3>4. BudgetsFinite' /\ AtMostOneStepLost' /\ CompletedIsWhole'
      BY <1>3 DEF Start, Books, BudgetsFinite, AtMostOneStepLost, CompletedIsWhole, Reconciles
    <3> QED BY <3>1, <3>3, <3>4 DEF Books
  <2> QED BY <2>1, <2>2
<1>4. ASSUME NEW p \in Invocations, Expose(p) PROVE Books'
  BY <1>0, <1>4, QuietBooks DEF Expose, Go, TypeOK, InTry
<1>5. ASSUME NEW p \in Invocations, Ask(p) PROVE Books'
  <2> DEFINE s == stage[p]
  <2>0. at[p] \in InTry BY <1>5 DEF Ask, Go, InTry
  <2>1. /\ begun'[s] = begun[s] + 1 /\ meter'[p] = meter[p] + 1 /\ at'[p] = "waiting"
        /\ answered'[s] = answered[s] /\ failed'[s] = failed[s] /\ rows'[s] = rows[s]
        /\ fresh'[p] = fresh[p] /\ at[p] = "working" /\ stage'[p] = s
        /\ meter[p] < ExpectedCalls(s) /\ fresh[p] < CallsPerRow(s)
    BY <1>0, <1>5 DEF Ask, Go, TypeOK
  <2>2. AccountedFor(p, s)' BY <2>0, <2>1, Owner DEF AccountedFor
  <2>3. ExpectedCalls(s) \in Nat BY <2>0, Owner, OneMoreRow
  <2>4. StageSound(s)'
    <3>1. /\ begun[s] \in Nat /\ fresh[p] \in Nat /\ rows[s] \in Nat
          /\ begun[s] = meter[p] /\ answered[s] = begun[s] /\ failed[s] = 0
          /\ answered[s] = rows[s] * CallsPerRow(s) + fresh[p]
          /\ CallsPerRow(s) \in {1, 2}
      BY <2>0, <2>1, Owner DEF AccountedFor
    <3>2. rows[s] * CallsPerRow(s) \in Nat
          /\ (rows[s] + 1) * CallsPerRow(s) = rows[s] * CallsPerRow(s) + CallsPerRow(s)
      BY <3>1, OneMoreRow
    <3>3. ExpectedCalls(s)' = ExpectedCalls(s) /\ CallsPerRow(s)' = CallsPerRow(s)
      BY <2>1 DEF ExpectedCalls, CallsPerRow
    <3>4. begun[s] + 1 <= ExpectedCalls(s)
      BY <2>1, <2>3, <3>1
    <3>5. /\ rows[s] * CallsPerRow(s) <= answered[s]
          /\ begun[s] + 1 <= (rows[s] + 1) * CallsPerRow(s)
      BY <2>1, <3>1, <3>2
    <3> QED BY <2>1, <3>1, <3>3, <3>4, <3>5 DEF StageSound
  <2> QED BY <1>0, <1>5, <2>0, <2>2, <2>4, OwnBooks DEF Ask, Go, TypeOK
<1>6. ASSUME NEW p \in Invocations, Answered(p) PROVE Books'
  <2> DEFINE s == stage[p]
  <2>0. at[p] \in InTry BY <1>6 DEF Answered, Go, InTry
  <2>1. /\ answered'[s] = answered[s] + 1 /\ fresh'[p] = fresh[p] + 1
        /\ at'[p] = "working" /\ at[p] = "waiting" /\ stage'[p] = s
        /\ begun'[s] = begun[s] /\ failed'[s] = failed[s] /\ rows'[s] = rows[s]
        /\ meter'[p] = meter[p]
    BY <1>0, <1>6 DEF Answered, Go, TypeOK
  <2>2. AccountedFor(p, s)' BY <2>0, <2>1, Owner, OneMoreRow DEF AccountedFor
  <2>4. StageSound(s)'
    BY <2>0, <2>1, Owner, OneMoreRow DEF StageSound, AccountedFor, ExpectedCalls
  <2> QED BY <1>0, <1>6, <2>0, <2>2, <2>4, OwnBooks DEF Answered, Go, TypeOK
<1>7. ASSUME NEW p \in Invocations, WriteRow(p) PROVE Books'
  <2> DEFINE s == stage[p]
  <2>0. at[p] \in InTry BY <1>7 DEF WriteRow, InTry
  <2>1. /\ rows'[s] = rows[s] + 1 /\ fresh'[p] = 0 /\ fresh[p] = CallsPerRow(s)
        /\ at'[p] = "working" /\ at[p] = "working" /\ stage'[p] = s
        /\ begun'[s] = begun[s] /\ failed'[s] = failed[s] /\ answered'[s] = answered[s]
        /\ meter'[p] = meter[p]
    BY <1>0, <1>7 DEF WriteRow, RowReady, TypeOK
  <2>2. AccountedFor(p, s)' BY <2>0, <2>1, Owner, OneMoreRow DEF AccountedFor
  <2>3. (rows[s] + 1) + 1 = rows[s] + 2 /\ rows[s] + 1 \in Nat BY <2>0, Owner
  <2>4. StageSound(s)'
    BY <2>0, <2>1, <2>3, Owner, OneMoreRow DEF StageSound, AccountedFor, ExpectedCalls
  <2> QED BY <1>0, <1>7, <2>0, <2>2, <2>4, OwnBooks DEF WriteRow, TypeOK
<1>8. ASSUME NEW p \in Invocations, Select(p) PROVE Books'
  <2>0. at[p] \in InTry BY <1>8 DEF Select, InTry
  <2>1. AccountedFor(p, stage[p])' /\ StageSound(stage[p])'
    BY <1>8, <2>0, Owner DEF Select, AccountedFor, StageSound, ExpectedCalls
  <2> QED BY <1>0, <1>8, <2>0, <2>1, OwnBooks DEF Select
<1>9. ASSUME NEW p \in Invocations, Seal(p) PROVE Books'
  <2> DEFINE s == stage[p]
  <2>0. at[p] \in InTry BY <1>9 DEF Seal, Go, InTry
  <2>1. Reconciles(s)
    <3>1. /\ answered[s] = rows[s] * CallsPerRow(s) /\ begun[s] = answered[s]
          /\ failed[s] = 0 /\ begun[s] = ExpectedCalls(s)
      BY <1>9, <2>0, Owner, OneMoreRow DEF Seal, Go, BudgetSpent, AccountedFor
    <3>2. rows[s] = Rows[s]
      BY <2>0, <3>1, Owner, SameRows
    <3> QED BY <3>1, <3>2 DEF Reconciles
  <2>2. CompletedIsWhole'
    BY <1>0, <1>9, <2>1 DEF Seal, Books, CompletedIsWhole, Reconciles
  <2>3. Untouched' /\ BudgetsFinite' /\ AtMostOneStepLost'
    BY <1>9 DEF Seal, Books, Untouched, BudgetsFinite, AtMostOneStepLost
  <2>4. Accounted'
    BY <1>0, <1>9 DEF Seal, Go, Books, Accounted, AccountedFor, TypeOK, InTry
  <2> QED BY <2>2, <2>3, <2>4 DEF Books
<1>10. ASSUME NEW p \in Invocations, Leave(p) \/ Abort(p) \/ Kill(p) PROVE Books'
  BY <1>0, <1>10, QuietBooks DEF Leave, Abort, Kill, Go, TypeOK, InTry
<1>11. ASSUME NEW p \in Invocations, Raise(p) PROVE Books'
  <2>1. CASE UNCHANGED failed
    BY <1>0, <1>11, <2>1, QuietBooks DEF Raise, Go, TypeOK, InTry
  <2>2. CASE ~UNCHANGED failed
    <3> DEFINE s == stage[p]
    <3>1. at[p] = "waiting" /\ failed' = [failed EXCEPT ![s] = @ + 1]
      BY <1>11, <2>2 DEF Raise
    <3>2. at[p] \in InTry BY <3>1 DEF InTry
    <3>3. at'[p] = "raised" /\ \A q \in Invocations : q # p => at'[q] = at[q]
      BY <1>0, <1>11 DEF Raise, Go, TypeOK
    <3>4. StageSound(s)'
      BY <1>0, <1>11, <3>1, <3>2, Owner, OneMoreRow
         DEF Raise, StageSound, AccountedFor, ExpectedCalls, TypeOK
    <3> QED BY <1>0, <1>11, <3>1, <3>2, <3>3, <3>4, OwnBooks DEF Raise, InTry, TypeOK
  <2> QED BY <2>1, <2>2
<1>12. ASSUME NEW p \in Invocations,
              Report(p) \/ Recompute(p) \/ Publish(p) \/ PublishFile(p) PROVE Books'
  BY <1>0, <1>12, QuietBooks DEF Report, Recompute, Publish, PublishFile, Go, TypeOK, InTry
<1>13. ASSUME UNCHANGED vars PROVE Books'
  BY <1>0, <1>13, QuietBooks DEF vars
<1> QED
  BY <1>1, <1>2, <1>3, <1>4, <1>5, <1>6, <1>7, <1>8, <1>9, <1>10, <1>11, <1>12, <1>13
     DEF Next, Run

-----------------------------------------------------------------------------
(* Receipts are only added, and the files of a completed stage are final *)

Added == started \subseteq started' /\ completed \subseteq completed'

\* Nothing of the evidence of stage s changes.
Still(s) ==
  /\ (s \in corpus') = (s \in corpus)
  /\ begun'[s] = begun[s] /\ answered'[s] = answered[s]
  /\ failed'[s] = failed[s] /\ rows'[s] = rows[s]

LEMMA SealedStep ==
  Order /\ [Next]_vars =>
    Added /\ (selection => selection') /\ \A s \in completed : Still(s)
<1> DEFINE Goal == Added /\ (selection => selection') /\ \A s \in completed : Still(s)
<1> SUFFICES ASSUME Order, [Next]_vars PROVE Goal OBVIOUS
<1>0. TypeOK /\ completed \subseteq Stages BY DEF Order, TypeOK, Receipts
<1> USE DEF directory, journal, Added
\* An invocation in progress owns a stage that is not completed.
<1>1. ASSUME NEW p \in Invocations, at[p] \in InTry
      PROVE  stage[p] \in Stages /\ stage[p] \notin completed
  BY <1>0, <1>1 DEF Order, StageOwned, TypeOK
<1>2. ASSUME UNCHANGED <<corpus, journal, rows, selection>>, Added PROVE Goal
  BY <1>2 DEF Still
<1>3. ASSUME NEW p \in Invocations, Expose(p) PROVE Goal
  BY <1>0, <1>1, <1>3 DEF Expose, Go, InTry, PhaseDirectory, Still
<1>4. ASSUME NEW p \in Invocations, Ask(p) \/ Answered(p) PROVE Goal
  BY <1>0, <1>1, <1>4 DEF Ask, Answered, Go, InTry, Still, TypeOK
<1>5. ASSUME NEW p \in Invocations, WriteRow(p) PROVE Goal
  BY <1>0, <1>1, <1>5 DEF WriteRow, InTry, Still, TypeOK
<1>6. ASSUME NEW p \in Invocations, Select(p) PROVE Goal
  BY <1>6 DEF Select, Still
<1>7. ASSUME NEW p \in Invocations, Raise(p) PROVE Goal
  <2>1. UNCHANGED <<started, completed, corpus, begun, answered, rows, selection>>
    BY <1>7 DEF Raise
  <2>2. \A s \in completed : failed'[s] = failed[s]
    <3>1. CASE UNCHANGED failed BY <3>1
    <3>2. CASE ~UNCHANGED failed
      <4>1. at[p] = "waiting" /\ failed' = [failed EXCEPT ![stage[p]] = @ + 1]
        BY <1>7, <3>2 DEF Raise
      <4> QED BY <1>0, <1>1, <4>1 DEF TypeOK, InTry
    <3> QED BY <3>1, <3>2
  <2> QED BY <2>1, <2>2 DEF Still
<1>8. ASSUME NEW p \in Invocations, NEW s \in Stages,
             \/ RunStage(p, s) \/ Checked(p) \/ Start(p) \/ Seal(p) \/ Leave(p)
             \/ Abort(p) \/ Report(p) \/ Recompute(p) \/ Publish(p) \/ PublishFile(p)
             \/ Kill(p)
      PROVE  Goal
  BY <1>2, <1>8 DEF RunStage, Checked, Start, Seal, Leave, Abort, Report, Recompute,
                    Publish, PublishFile, Kill
<1>9. ASSUME UNCHANGED vars PROVE Goal
  BY <1>2, <1>9 DEF vars
<1>10. Train \in Stages BY DEF Train, Stages
<1> QED BY <1>3, <1>4, <1>5, <1>6, <1>7, <1>8, <1>9, <1>10 DEF Next, Run

-----------------------------------------------------------------------------
(* What is exposed or published last *)

LEMMA ExposedStep ==
  Order /\ Books /\ TestExposedLast /\ [Next]_vars => TestExposedLast'
<1> SUFFICES ASSUME Order, Books, TestExposedLast, [Next]_vars PROVE TestExposedLast'
  OBVIOUS
<1>1. Added /\ (selection => selection') /\ \A s \in completed : Still(s)
  BY SealedStep
<1>2. ASSUME corpus' \subseteq corpus PROVE TestExposedLast'
  BY <1>1, <1>2 DEF TestExposedLast, Added, Still
<1>3. ASSUME NEW p \in Invocations, Expose(p), stage[p] \notin corpus
      PROVE  TestExposedLast'
  <2>1. Before(stage[p]) \subseteq completed /\ stage[p] \in Stages
    BY <1>3 DEF Order, PreviousSealed, Expose, Go, Admitted, InTry, TypeOK
  <2>2. corpus' = corpus \cup PhaseDirectory(stage[p])
    BY <1>3 DEF Expose
  <2>3. CASE stage[p] = Test
    <3>1. selection
      BY <2>1, <2>3, StageFacts DEF Books, CompletedIsWhole, Validate, Test
    <3> QED BY <1>1, <2>1, <2>2, <2>3, <3>1
            DEF TestExposedLast, Added, Still, PhaseDirectory, Test, Validate
  <2>4. CASE stage[p] = Validate
    <3>1. Propose \in completed /\ rows[Propose] = Rows[Propose]
      BY <2>1, <2>4, StageFacts DEF Books, CompletedIsWhole, Reconciles, Validate, Propose
    <3> QED BY <1>1, <2>1, <2>2, <2>4, <3>1
            DEF TestExposedLast, Added, Still, PhaseDirectory, Test, Validate
  <2>5. CASE stage[p] \notin {Validate, Test}
    <3>1. Test \in corpus' => Test \in corpus
      BY <2>2, <2>5 DEF PhaseDirectory
    <3>2. Validate \in corpus' => Validate \in corpus
      BY <2>2, <2>5 DEF PhaseDirectory
    <3> QED BY <1>1, <3>1, <3>2 DEF TestExposedLast, Added, Still
  <2> QED BY <2>3, <2>4, <2>5
<1>4. ASSUME NEW p \in Invocations, ~Expose(p), ~(corpus' \subseteq corpus),
             NEW s \in Stages,
             \/ RunStage(p, s) \/ Run(p)
             \/ Report(p) \/ Recompute(p) \/ Publish(p) \/ PublishFile(p) \/ Kill(p)
      PROVE  FALSE
  BY <1>4 DEF Run, RunStage, Checked, Start, Ask, Answered, WriteRow, Select, Seal, Leave,
              Raise, Abort, Report, Recompute, Publish, PublishFile, Kill, directory
<1>5. CASE \E p \in Invocations : Expose(p)
  BY <1>2, <1>3, <1>5 DEF Expose
<1>6. CASE ~ \E p \in Invocations : Expose(p)
  <2>1. Train \in Stages BY DEF Train, Stages
  <2> QED BY <1>2, <1>4, <1>6, <2>1 DEF Next, vars, directory
<1> QED BY <1>5, <1>6

LEMMA PublishedStep ==
  Order /\ PublisherLast /\ PublishedOnce /\ [Next]_vars
    => PublisherLast' /\ PublishedOnce'
<1> SUFFICES ASSUME Order, PublisherLast, PublishedOnce, [Next]_vars
             PROVE  PublisherLast' /\ PublishedOnce'
  OBVIOUS
<1>0. /\ TypeOK /\ TypeOK' /\ completed \subseteq started
      /\ completed \subseteq completed' /\ started \subseteq started'
      /\ completed' \subseteq Stages /\ started' \subseteq Stages
  BY TypeStep, SealedStep DEF Order, CompletedStarted, Added, TypeOK, Receipts
<1> USE DEF PublisherLast, PublishedOnce, Publisher
\* Steps that publish nothing and take nobody further in a report.
<1>1. ASSUME report' = report, UNCHANGED history,
             \A q \in Invocations :
               /\ at'[q] = "publishing" => at[q] = "publishing"
               /\ at'[q] \in {"reporting", "composed"} => at[q] \in {"reporting", "composed"}
      PROVE  PublisherLast' /\ PublishedOnce'
  BY <1>0, <1>1 DEF history
<1>2. ASSUME NEW p \in Invocations, NEW s \in Stages,
             \/ RunStage(p, s) \/ Checked(p) \/ Start(p) \/ Expose(p) \/ Ask(p)
             \/ Answered(p) \/ WriteRow(p) \/ Select(p) \/ Seal(p) \/ Leave(p)
             \/ Abort(p) \/ Kill(p) \/ Recompute(p)
      PROVE  PublisherLast' /\ PublishedOnce'
  <2>1. report' = report /\ UNCHANGED history
    BY <1>2 DEF RunStage, Checked, Start, Expose, Ask, Answered, WriteRow, Select, Seal, Leave,
                Abort, Kill, Recompute, directory
  <2>2. \A q \in Invocations :
          /\ at'[q] = "publishing" => at[q] = "publishing"
          /\ at'[q] \in {"reporting", "composed"} => at[q] \in {"reporting", "composed"}
    BY <1>0, <1>2 DEF RunStage, Checked, Start, Expose, Ask, Answered, WriteRow, Select, Seal,
                      Leave, Abort, Kill, Recompute, Go, TypeOK
  <2> QED BY <1>1, <2>1, <2>2
<1>3. ASSUME NEW p \in Invocations, Raise(p) PROVE PublisherLast' /\ PublishedOnce'
  <2>1. /\ report' = report /\ UNCHANGED history
        /\ \A q \in Invocations : at'[q] \in {at[q], "raised"}
    BY <1>0, <1>3 DEF Raise, Go, TypeOK
  <2> QED BY <1>1, <2>1
\* A new report command has written nothing.
<1>4. ASSUME NEW p \in Invocations, Report(p) PROVE PublisherLast' /\ PublishedOnce'
  BY <1>0, <1>4 DEF Report, Go, TypeOK, directory
<1>5. ASSUME NEW p \in Invocations, Publish(p) PROVE PublisherLast' /\ PublishedOnce'
  <2>1. completed' = Stages /\ started' = Stages
    BY <1>0, <1>5 DEF Publish, Go
  <2>2. CASE NothingPublished
    <3>1. /\ report = 0 /\ report' = 1 /\ p \notin authors
          /\ authors' = authors \cup {p} /\ publications' = publications + 1
      BY <1>5, <2>2 DEF Publish, NothingPublished, Author, Go
    <3>2. \A q \in Invocations : /\ q # p => at'[q] = at[q]
                               /\ at'[p] = "publishing"
      BY <1>0, <1>5, <3>1, <2>2 DEF Publish, Go, TypeOK
    <3> QED BY <2>1, <3>1, <3>2
  <2>3. CASE ~NothingPublished
    <3>1. report' = report /\ UNCHANGED history
      BY <1>5, <2>3 DEF Publish
    <3>2. \A q \in Invocations : at'[q] \in {at[q], "idle"}
      BY <1>0, <1>5, <2>3 DEF Publish, Go, TypeOK
    <3> QED BY <1>1, <3>1, <3>2
  <2> QED BY <2>2, <2>3
\* Whoever writes another file wrote the first one, and is counted already.
<1>6. ASSUME NEW p \in Invocations, PublishFile(p) PROVE PublisherLast' /\ PublishedOnce'
  <2>1. completed' = Stages /\ started' = Stages
    BY <1>0, <1>6 DEF PublishFile, Go
  <2>2. /\ at[p] = "publishing" /\ report > 0 /\ report' > 0 /\ p \in authors
        /\ publications' = publications /\ authors' = authors
    BY <1>0, <1>6 DEF PublishFile, Author, Go, TypeOK, ReportFiles, history
  <2>3. \A q \in Invocations : at'[q] \in {at[q], "idle"}
    BY <1>0, <1>6, <2>2 DEF PublishFile, Go, TypeOK
  <2>4. PublisherLast' BY <2>1, <2>2, <2>3
  <2>5. PublishedOnce' BY <2>1, <2>2
  <2> QED BY <2>4, <2>5
<1>7. ASSUME UNCHANGED vars PROVE PublisherLast' /\ PublishedOnce'
  BY <1>1, <1>7 DEF vars, directory
<1>8. Train \in Stages BY DEF Train, Stages
<1> QED BY <1>2, <1>3, <1>4, <1>5, <1>6, <1>7, <1>8 DEF Next, Run

-----------------------------------------------------------------------------
(* The inductive invariant, and the properties it implies *)

\* Nothing is exposed or published, and nobody publishes, at the start.
LEMMA InitLast == Init => TestExposedLast /\ PublisherLast /\ PublishedOnce
<1> SUFFICES ASSUME Init PROVE TestExposedLast /\ PublisherLast /\ PublishedOnce OBVIOUS
<1>1. /\ corpus = {} /\ report = 0 /\ publications = 0
      /\ \A p \in Invocations : at[p] = "idle"
  BY Zenon DEF Init
<1> QED BY <1>1 DEF TestExposedLast, PublisherLast, PublishedOnce, Publisher

LEMMA Inductive == Spec => []IInv
<1>1. Init => IInv BY InitOrder, InitBooks, InitLast DEF IInv
<1>2. IInv /\ [Next]_vars => IInv'
  BY OrderStep, BooksStep, ExposedStep, PublishedStep DEF IInv
<1> QED BY <1>1, <1>2, PTL DEF Spec

\* The campaign's files, and the locals of every invocation, keep their types.
THEOREM CampaignTypeCorrect == Spec => []TypeOK
<1>1. IInv => TypeOK BY DEF IInv, Order
<1> QED BY <1>1, Inductive, PTL

\* At most one invocation is ever between its started marker and its
\* completion or abort, however their checks interleave.
THEOREM CampaignOneInFlight == Spec => []OneInFlight
<1>1. IInv => OneInFlight BY DEF IInv, Order
<1> QED BY <1>1, Inductive, PTL

\* No stage is ever charged more inference calls than its registered plan.
THEOREM CampaignBudgets == Spec => []BudgetsFinite
<1>1. IInv => BudgetsFinite BY DEF IInv, Books
<1> QED BY <1>1, Inductive, PTL

\* Each completion receipt stands for a whole stage, verified or not.
THEOREM CampaignCompletedIsWhole == Spec => []CompletedIsWhole
<1>1. IInv => CompletedIsWhole BY DEF IInv, Books
<1> QED BY <1>1, Inductive, PTL

\* After a kill at any instant, the evidence lacks at most one step.
THEOREM CampaignAtMostOneStepLost == Spec => []AtMostOneStepLost
<1>1. IInv => AtMostOneStepLost BY DEF IInv, Books
<1> QED BY <1>1, Inductive, PTL

\* The test corpus is generated after the proposals and the selection.
THEOREM CampaignTestExposedLast == Spec => []TestExposedLast
<1>1. IInv => TestExposedLast BY DEF IInv
<1> QED BY <1>1, Inductive, PTL

\* Over all report commands ever typed one alone writes report files, from a
\* whole campaign; nobody completes or repeats another's publication.
THEOREM CampaignPublishedOnce == Spec => []PublishedOnce
<1>1. IInv => PublishedOnce BY DEF IInv
<1> QED BY <1>1, Inductive, PTL

\* No step of any invocation changes the evidence of a completed stage.
THEOREM CampaignSealedStays == Spec => SealedStays
<1> DEFINE Final == \A s \in completed :
      /\ s \in completed' /\ (s \in corpus') = (s \in corpus)
      /\ begun'[s] = begun[s] /\ answered'[s] = answered[s]
      /\ failed'[s] = failed[s] /\ rows'[s] = rows[s]
      /\ s = Validate => selection'
<1>1. IInv /\ [Next]_vars => [Final]_vars
  BY SealedStep DEF IInv, Books, CompletedIsWhole, Added, Still
<1> QED BY <1>1, Inductive, PTL DEF Spec, SealedStays

-----------------------------------------------------------------------------
(* Refinement of the one-shot pipeline *)

Status == [s \in Stages |-> StatusOf(s)]

\* A step that changes neither the receipts nor who is in progress stutters.
LEMMA StatusStutters ==
  ASSUME UNCHANGED <<started, completed>>,
         \A q \in Invocations : /\ (at'[q] \in InTry) = (at[q] \in InTry)
                                /\ at[q] \in InTry => stage'[q] = stage[q]
  PROVE  UNCHANGED Status
<1>1. ASSUME NEW s \in Stages PROVE Running(s)' = Running(s)
  BY DEF Running
<1>2. ASSUME NEW s \in Stages PROVE StatusOf(s)' = StatusOf(s)
  BY <1>1 DEF StatusOf
<1> QED BY <1>2 DEF Status

\* Leaving the try block without a completion receipt kills the stage.
LEMMA StatusDies ==
  ASSUME Order, NEW p \in Invocations, at[p] \in InTry, at'[p] \notin InTry,
         UNCHANGED <<started, completed, stage>>,
         \A q \in Invocations : q # p => at'[q] = at[q]
  PROVE  Pipeline!Die(stage[p])
<1> DEFINE s == stage[p]
<1>1. s \in Stages /\ s \in started /\ s \notin completed
  BY DEF Order, StageOwned, TypeOK
<1>2. \A q \in Invocations : at[q] \in InTry => q = p
  BY DEF Order, OneInFlight
<1>3. StatusOf(s) = "running" /\ StatusOf(s)' = "dead"
  BY <1>1, <1>2 DEF StatusOf, Running
<1>4. ASSUME NEW t \in Stages, t # s PROVE StatusOf(t)' = StatusOf(t)
  BY <1>2, <1>4 DEF StatusOf, Running
<1>5. Status[s] = "running" /\ Status' = [Status EXCEPT ![s] = "dead"]
  BY <1>1, <1>3, <1>4 DEF Status
<1> QED BY <1>5 DEF Pipeline!Die, Pipeline!Become, Status

\* Taking the marker enters the stage, after every earlier one is sealed.
LEMMA StatusEnters ==
  ASSUME Order, NEW p \in Invocations, Start(p), stage[p] \notin started
  PROVE  Pipeline!Enter(stage[p])
<1> DEFINE s == stage[p]
<1>1. /\ s \in Stages /\ s \notin started /\ s \notin completed
      /\ Before(s) \subseteq completed /\ at[p] = "cleared" /\ at'[p] = "entered"
      /\ started' = started \cup {s} /\ UNCHANGED <<completed, stage>>
      /\ \A q \in Invocations : q # p => at'[q] = at[q]
  BY DEF Order, CompletedStarted, PreviousSealed, Admitted, Start, MarkerFree, Go, TypeOK
<1>2. StatusOf(s) = "fresh"
  BY <1>1 DEF StatusOf, Running, Order, StageOwned
<1>3. StatusOf(s)' = "running"
  BY <1>1 DEF StatusOf, Running, InTry
<1>4. ASSUME NEW t \in Stages, t # s PROVE StatusOf(t)' = StatusOf(t)
  BY <1>1, <1>4 DEF StatusOf, Running, InTry
<1>5. Status[s] = "fresh" /\ Status' = [Status EXCEPT ![s] = "running"]
  BY <1>1, <1>2, <1>3, <1>4 DEF Status
<1>6. \A t \in 1..(s - 1) : Status[t] = "sealed"
  BY <1>1, StageFacts DEF Before, Status, StatusOf
<1> QED BY <1>5, <1>6 DEF Pipeline!Enter, Pipeline!Become, Status

\* The completion receipt seals the stage.
LEMMA StatusSeals ==
  ASSUME Order, NEW p \in Invocations, Seal(p)
  PROVE  Pipeline!Seal(stage[p])
<1> DEFINE s == stage[p]
<1>1. /\ at[p] = "working" /\ at'[p] = "sealed" /\ s \in Stages
      /\ completed' = completed \cup {s} /\ UNCHANGED <<started, stage>>
      /\ \A q \in Invocations : q # p => at'[q] = at[q]
  BY DEF Order, Seal, Go, TypeOK
<1>2. s \notin completed
  BY <1>1 DEF Order, StageOwned, InTry
<1>3. StatusOf(s) = "running" /\ StatusOf(s)' = "sealed"
  BY <1>1, <1>2 DEF StatusOf, Running, InTry
<1>4. ASSUME NEW t \in Stages, t # s PROVE StatusOf(t)' = StatusOf(t)
  BY <1>1, <1>4 DEF StatusOf, Running, InTry
<1>5. Status[s] = "running" /\ Status' = [Status EXCEPT ![s] = "sealed"]
  BY <1>1, <1>3, <1>4 DEF Status
<1> QED BY <1>5 DEF Pipeline!Seal, Pipeline!Become, Status

LEMMA PipelineStep ==
  Order /\ [Next]_vars => [Pipeline!Next]_Status
<1> DEFINE Goal == [Pipeline!Next]_Status
<1> SUFFICES ASSUME Order, [Next]_vars PROVE Goal OBVIOUS
<1>0. TypeOK BY DEF Order
<1> USE DEF directory
<1>1. ASSUME NEW p \in Invocations,
             Pipeline!Enter(stage[p]) \/ Pipeline!Seal(stage[p]) \/ Pipeline!Die(stage[p])
      PROVE  Goal
  BY <1>0, <1>1 DEF Pipeline!Next, TypeOK, Stages
<1>2. ASSUME NEW p \in Invocations, NEW s \in Stages, RunStage(p, s) PROVE Goal
  BY <1>0, <1>2, StatusStutters DEF RunStage, Go, InTry, TypeOK
<1>3. ASSUME NEW p \in Invocations,
             \/ Checked(p) \/ Ask(p) \/ Answered(p) \/ WriteRow(p) \/ Select(p) \/ Leave(p)
             \/ Abort(p) \/ Report(p) \/ Recompute(p) \/ Publish(p) \/ PublishFile(p)
      PROVE  Goal
  BY <1>0, <1>3, StatusStutters
     DEF Checked, Ask, Answered, WriteRow, Select, Leave, Abort, Report, Recompute,
         Publish, PublishFile, Go, InTry, TypeOK
<1>4. ASSUME NEW p \in Invocations, Start(p) PROVE Goal
  <2>1. CASE stage[p] \notin started BY <1>1, <1>4, <2>1, StatusEnters
  <2>2. CASE stage[p] \in started
    BY <1>0, <1>4, <2>2, StatusStutters DEF Start, MarkerFree, Go, InTry, TypeOK
  <2> QED BY <2>1, <2>2
<1>5. ASSUME NEW p \in Invocations, Seal(p) PROVE Goal
  BY <1>1, <1>5, StatusSeals
<1>6. ASSUME NEW p \in Invocations, Expose(p) \/ Raise(p) \/ Kill(p) PROVE Goal
  <2>1. /\ UNCHANGED <<started, completed, stage>>
        /\ \A q \in Invocations : q # p => at'[q] = at[q]
        /\ at[p] \notin InTry => at'[p] \notin InTry
    BY <1>0, <1>6 DEF Expose, Raise, Kill, Go, InTry, TypeOK
  <2>2. CASE at[p] \in InTry /\ at'[p] \notin InTry
    BY <1>1, <2>1, <2>2, StatusDies
  <2>3. CASE ~(at[p] \in InTry /\ at'[p] \notin InTry)
    BY <2>1, <2>3, StatusStutters
  <2> QED BY <2>2, <2>3
<1>7. ASSUME UNCHANGED vars PROVE Goal
  BY <1>7, StatusStutters DEF vars
<1> QED BY <1>2, <1>3, <1>4, <1>5, <1>6, <1>7 DEF Next, Run

\* The campaign implements the one-shot pipeline: no stage is entered twice,
\* out of order, or after an earlier one died.
THEOREM CampaignIsOneShot == Spec => IsOneShot
<1>1. Init => Pipeline!Init
  BY DEF Init, Pipeline!Init, Stages, StatusOf, Running, InTry
<1>2. IInv /\ [Next]_vars => [Pipeline!Next]_Status
  BY PipelineStep DEF IInv
<1> QED BY <1>1, <1>2, Inductive, PTL DEF Spec, IsOneShot, Pipeline!Spec, Status

-----------------------------------------------------------------------------
(* The episodes a campaign runs: Episode, where the kernel stands beside the  *)
(* simulator, for any totals of the four invoices.                            *)

USE MaxCentsAssumption, NoneAssumption

(* What every generated row has and an arbitrary one need not: an invoice in  *)
(* BRL with all its links and a positive total, an account with its holder.   *)
FixtureInvoice == [account_id: Accounts, merchant_id: Merchants, order_id: Orders,
                   total_cents: 1..MaxCents, currency: {"BRL"}]
FixtureAccount == [status: {"active", "blocked", "revoked"}, holder: Merchants]
FixtureRecords ==
  [read_invoice: [Cases -> FixtureInvoice \cup {None}],
   read_account: [Accounts -> FixtureAccount \cup {None}],
   read_payment: [Cases -> PaymentStatus],
   read_return:  [Orders -> ReturnStatus]]

InvoiceReads == [tool: {"read_invoice"}, id: Cases, row: FixtureInvoice]
AccountReads == [tool: {"read_account"}, id: Accounts, row: FixtureAccount]
PaymentReads == [tool: {"read_payment"}, id: Cases, row: PaymentStatus]
ReturnReads  == [tool: {"read_return"}, id: Orders, row: ReturnStatus]
Reads == InvoiceReads \cup AccountReads \cup PaymentReads \cup ReturnReads

Requests == [observations: Seq(Reads), case: Cases, operation: Operations]

LEMMA FixtureReads ==
  /\ \A c \in 0..3 : Invoice(c) \in Reads /\ Mismatch(c) \in Reads
  /\ \A c \in 0..3, s \in {"active", "blocked", "revoked"} : Account(c, s) \in Reads
  /\ \A c \in 0..3, s \in PaymentStatus : Payment(c, s) \in Reads
  /\ \A c \in 0..3, s \in ReturnStatus : Returned(c, s) \in Reads
<1>1. ASSUME NEW c \in 0..3
      PROVE  Invoice(c) \in InvoiceReads
  BY <1>1, FixtureAssumption DEF Invoice, Row, InvoiceReads, FixtureInvoice
<1>2. ASSUME NEW c \in 0..3
      PROVE  Mismatch(c) \in AccountReads
  <2>1. (c + 1) % 4 \in 0..3
    OBVIOUS
  <2> QED  BY <2>1, FixtureAssumption DEF Mismatch, Row, AccountReads, FixtureAccount
<1>3. ASSUME NEW c \in 0..3, NEW s \in {"active", "blocked", "revoked"}
      PROVE  Account(c, s) \in AccountReads
  BY FixtureAssumption DEF Account, Row, AccountReads, FixtureAccount
<1>4. ASSUME NEW c \in 0..3, NEW s \in PaymentStatus
      PROVE  Payment(c, s) \in PaymentReads
  BY FixtureAssumption DEF Payment, Row, PaymentReads
<1>5. ASSUME NEW c \in 0..3, NEW s \in ReturnStatus
      PROVE  Returned(c, s) \in ReturnReads
  BY FixtureAssumption DEF Returned, Row, ReturnReads
<1> QED  BY <1>1, <1>2, <1>3, <1>4, <1>5 DEF Reads

LEMMA FixtureRequests ==
  ASSUME NEW c \in 0..3, NEW o \in Operations
  PROVE  /\ \A s \in Seq(Reads) : Request(s, c, o) \in Requests
         /\ Request(<<>>, c, o) \in Requests
         /\ \A r \in Reads : Request(<<r>>, c, o) \in Requests
         /\ \A r, q \in Reads : Request(<<r, q>>, c, o) \in Requests
         /\ \A d \in 0..3, pay \in PaymentStatus, acc \in {"active", "blocked", "revoked"} :
              Request(Complete(d, pay, acc), c, o) \in Requests
         /\ \A d \in 0..3, pay \in PaymentStatus, ret \in ReturnStatus :
              Request(CompleteReturned(d, pay, ret), c, o) \in Requests
<1>1. ASSUME NEW s \in Seq(Reads)  PROVE Request(s, c, o) \in Requests
  BY <1>1, FixtureAssumption DEF Request, Requests
<1>2. <<>> \in Seq(Reads) /\ (\A r \in Reads : <<r>> \in Seq(Reads))
      /\ (\A r, q \in Reads : <<r, q>> \in Seq(Reads))
  OBVIOUS
<1>3. ASSUME NEW d \in 0..3, NEW pay \in PaymentStatus,
             NEW acc \in {"active", "blocked", "revoked"}
      PROVE  Complete(d, pay, acc) \in Seq(Reads)
  BY FixtureReads DEF Complete
<1>4. ASSUME NEW d \in 0..3, NEW pay \in PaymentStatus, NEW ret \in ReturnStatus
      PROVE  CompleteReturned(d, pay, ret) \in Seq(Reads)
  <2>1. Complete(d, pay, "active") \in Seq(Reads) /\ Returned(d, ret) \in Reads
    BY <1>3, FixtureReads
  <2> QED  BY <2>1 DEF CompleteReturned
<1> QED  BY <1>1, <1>2, <1>3, <1>4

\* Each of the four schedules is eight requests over generated rows.
LEMMA ScriptTyped ==
  ASSUME family \in DOMAIN Draws, choice \in Draws[family]
  PROVE  Script \in Seq(Requests) /\ Len(Script) = 8
<1> DEFINE Eight(s) == s \in Seq(Requests) /\ Len(s) = 8
<1>0. /\ 0 \in 0..3 /\ 1 \in 0..3 /\ 2 \in 0..3 /\ 3 \in 0..3
      /\ "payout" \in Operations /\ "refund" \in Operations
      /\ {"cleared", "pending", "unknown"} \subseteq PaymentStatus
      /\ {"accepted", "rejected", "unknown"} \subseteq ReturnStatus
  BY DEF Operations, PaymentStatus, ReturnStatus
<1>1. ASSUME NEW a \in Requests, NEW b \in Requests, NEW c \in Requests, NEW d \in Requests,
             NEW e \in Requests, NEW f \in Requests, NEW g \in Requests, NEW h \in Requests
      PROVE  Eight(<<a, b, c, d, e, f, g, h>>)
  OBVIOUS
<1> HIDE DEF Eight
<1>2. ASSUME NEW x \in {"accepted", "rejected"}
      PROVE  Eight(Updated(x))
  BY <1>0, <1>1, FixtureReads, FixtureRequests DEF Updated
<1>3. ASSUME NEW x \in {"accepted", "rejected"}, NEW y \in {"accepted", "unknown"}
      PROVE  Eight(Chain(x, y))
  BY <1>0, <1>1, FixtureReads, FixtureRequests DEF Chain
<1>4. ASSUME NEW x \in {"cleared", "pending"}, NEW y \in {"active", "revoked"}
      PROVE  Eight(Topics(x, y))
  BY <1>0, <1>1, FixtureReads, FixtureRequests DEF Topics
<1>5. ASSUME NEW x \in {"cleared", "pending"}, NEW y \in {"accepted", "rejected"}
      PROVE  Eight(Insufficient(x, y))
  BY <1>0, <1>1, FixtureReads, FixtureRequests DEF Insufficient
<1>6. family \in {"updated", "chain", "topics", "insufficient"}
  BY DEF Draws
<1>7. CASE family = "updated"
  <2>1. choice[1] \in {"accepted", "rejected"}
    BY <1>7 DEF Draws
  <2>2. Script = Updated(choice[1])
    BY <1>7 DEF Script
  <2> QED  BY <1>2, <2>1, <2>2 DEF Eight
<1>8. CASE family = "chain"
  <2>1. choice[1] \in {"accepted", "rejected"} /\ choice[2] \in {"accepted", "unknown"}
    BY <1>8 DEF Draws
  <2>2. Script = Chain(choice[1], choice[2])
    BY <1>8 DEF Script
  <2> QED  BY <1>3, <2>1, <2>2 DEF Eight
<1>9. CASE family = "topics"
  <2>1. choice[1] \in {"cleared", "pending"} /\ choice[2] \in {"active", "revoked"}
    BY <1>9 DEF Draws
  <2>2. Script = Topics(choice[1], choice[2])
    BY <1>9 DEF Script
  <2> QED  BY <1>4, <2>1, <2>2 DEF Eight
<1>10. CASE family = "insufficient"
  <2>1. choice[1] \in {"cleared", "pending"} /\ choice[2] \in {"accepted", "rejected"}
    BY <1>10 DEF Draws
  <2>2. Script = Insufficient(choice[1], choice[2])
    BY <1>10 DEF Script
  <2> QED  BY <1>5, <2>1, <2>2 DEF Eight
<1> QED  BY <1>6, <1>7, <1>8, <1>9, <1>10

-----------------------------------------------------------------------------
(* Folding one step's rows. *)

ReplaceStep(o, recs) == Replace(recs, o.tool, o.id, o.row)
Latest(S) == CHOOSE x \in S : \A y \in S : x >= y
Fed == INSTANCE FoldLemmas WITH op <- ReplaceStep, pick <- Latest

LEMMA ReadKeeps ==
  ASSUME NEW recs \in FixtureRecords, NEW o \in Reads
  PROVE  ReplaceStep(o, recs) \in FixtureRecords
<1>1. CASE o \in InvoiceReads
  BY <1>1 DEF InvoiceReads, FixtureRecords, ReplaceStep, Replace
<1>2. CASE o \in AccountReads
  BY <1>2 DEF AccountReads, FixtureRecords, ReplaceStep, Replace
<1>3. CASE o \in PaymentReads
  BY <1>3 DEF PaymentReads, FixtureRecords, ReplaceStep, Replace
<1>4. CASE o \in ReturnReads
  BY <1>4 DEF ReturnReads, FixtureRecords, ReplaceStep, Replace
<1> QED  BY <1>1, <1>2, <1>3, <1>4 DEF Reads

LEMMA LearnedTyped ==
  ASSUME NEW recs \in FixtureRecords, NEW s \in Seq(Reads)
  PROVE  Learned(recs, s) \in FixtureRecords
<1> DEFINE n == Len(s)
<1>1. n \in Nat /\ DOMAIN s = 1..n /\ \A i \in 1..n : s[i] \in Reads
  OBVIOUS
<1>2. \A t \in SUBSET (1..n) : Latest(t) = CHOOSE x \in t : \A y \in t : x >= y
  BY DEF Latest
<1> HIDE DEF n
<1>3. Fed!IsFiniteSet(1..n) /\ Fed!Picks(1..n)
  BY <1>1, <1>2, Fed!LastPicks
<1>4. \A a \in Reads, b \in FixtureRecords : ReplaceStep(a, b) \in FixtureRecords
  BY ReadKeeps
<1>5. Fed!Fold(s, recs, 1..n) \in FixtureRecords
  BY <1>1, <1>3, <1>4, Fed!FoldTyped, Zenon
<1>6. Learned(recs, s) = Fed!Fold(s, recs, DOMAIN s)
  BY DEF Learned, FoldLeft, MapThenFoldSet, Fed!Fold, Fed!Solves, Fed!Step,
         ReplaceStep, Latest, Max, Replace
<1> QED  BY <1>1, <1>5, <1>6

-----------------------------------------------------------------------------
(* The rules on generated rows. *)

\* On generated rows the guard and the reference agree in both directions: a
\* proposal of money is permitted exactly if it is what the rules expect.
LEMMA FixtureAgree ==
  ASSUME NEW recs \in FixtureRecords, NEW c \in Cases, NEW o \in Operations,
         NEW done, NEW p, p.case = c, p.decision \in Monetary
  PROVE  LET due == ExpectedAction(Snapshot(recs, c, o), done)
         IN MonetaryAllowed(p, o, recs, done)
              <=> due.decision = p.decision /\ due.amount = p.amount
<1> DEFINE invoice == recs.read_invoice[c]
           account == recs.read_account[invoice.account_id]
           snap == Snapshot(recs, c, o)
           due == ExpectedAction(snap, done)
<1>1. /\ invoice \in FixtureInvoice \cup {None}
      /\ recs.read_payment[c] \in PaymentStatus
  BY DEF FixtureRecords
<1>2. None \notin FixtureInvoice /\ None \notin FixtureAccount
  BY NoRowAssumption
  DEF InvoiceRow, AccountRow, FixtureInvoice, FixtureAccount, AccountStatus
<1>3. /\ None \notin Accounts /\ None \notin Merchants /\ None \notin Orders
      /\ None \notin 1..MaxCents
      /\ None \notin {"active", "blocked", "revoked", "unknown", "cleared", "accepted"}
  BY NoneAssumption, MaxCentsAssumption
<1>4. snap.case = c /\ snap.operation = o /\ snap.payment_status = recs.read_payment[c]
  BY DEF Snapshot
<1>5. CASE invoice = None
  <2>1. snap.amount_cents = None /\ snap.account_status = None
        /\ snap.ownership_match = "unknown"
    BY <1>5 DEF Snapshot, LinkedAccount
  <2>2. MissingEvidence(snap)
    BY <2>1 DEF MissingEvidence
  <2>3. due.decision \in {"hold", "ask_info"}
    BY <2>2 DEF ExpectedAction, Act
  <2>4. ~MonetaryAllowed(p, o, recs, done)
    BY <1>5 DEF MonetaryAllowed, InvoicePayable
  <2> QED  BY <2>3, <2>4 DEF Monetary
<1>6. CASE invoice # None
  <2>1. /\ invoice \in FixtureInvoice /\ invoice # None
        /\ invoice.account_id \in Accounts /\ invoice.merchant_id \in Merchants
        /\ invoice.order_id \in Orders /\ invoice.total_cents \in 1..MaxCents
        /\ invoice.currency = "BRL"
    BY <1>1, <1>6 DEF FixtureInvoice
  <2>2. /\ account \in FixtureAccount \cup {None}
        /\ recs.read_return[invoice.order_id] \in ReturnStatus
        /\ account # None => /\ account.status \in {"active", "blocked", "revoked"}
                             /\ account.holder \in Merchants
    BY <2>1 DEF FixtureRecords, FixtureAccount
  <2>3. LinkedAccount(recs, c) = account
    BY <1>3, <2>1 DEF LinkedAccount
  <2>4. /\ snap.amount_cents = invoice.total_cents
        /\ snap.account_status = IF account = None THEN None ELSE account.status
        /\ snap.ownership_match = IF account = None THEN "unknown"
                                  ELSE IF account.holder = invoice.merchant_id
                                         THEN "match" ELSE "mismatch"
        /\ snap.return_status = recs.read_return[invoice.order_id]
    BY <1>3, <2>1, <2>3 DEF Snapshot
  <2> DEFINE Due == /\ <<c, o>> \notin done
                    /\ account # None /\ account.status = "active"
                    /\ account.holder = invoice.merchant_id
                    /\ recs.read_payment[c] = "cleared"
                    /\ o = "refund" => recs.read_return[invoice.order_id] = "accepted"
  <2>5. MonetaryAllowed(p, o, recs, done)
          <=> Due /\ p.decision = DecisionFor(o) /\ p.amount = invoice.total_cents
    <3>1. invoice.total_cents > 0 /\ invoice.total_cents # None
          /\ invoice.account_id # None /\ invoice.merchant_id # None /\ invoice.order_id # None
      BY <1>3, <2>1
    <3>2. account # None => account.holder # None
      BY <1>3, <2>2
    <3> QED  BY <2>1, <3>1, <3>2
             DEF MonetaryAllowed, NotBooked, InvoicePayable, ExactAmount,
                 AccountClears, ReturnNeeded
  <2>6. CASE Due
    <3>1. ~MissingEvidence(snap)
      BY <1>3, <1>4, <2>1, <2>4, <2>6 DEF MissingEvidence
    <3>2. due = IF o = "payout"
                THEN Act(c, "approve", invoice.total_cents, "authorized_payout")
                ELSE Act(c, "refund", invoice.total_cents, "eligible_refund")
      BY <1>4, <2>4, <2>6, <3>1 DEF ExpectedAction
    <3>3. due.decision = DecisionFor(o) /\ due.amount = invoice.total_cents
      BY <3>2 DEF Act, DecisionFor
    <3> QED  BY <2>5, <2>6, <3>3
  <2>7. CASE ~Due
    <3>1. o = "payout" \/ o = "refund"
      BY DEF Operations
    <3>2. account # None => account.status \in {"active", "blocked", "revoked"}
      BY <2>2
    <3>3. recs.read_return[invoice.order_id] \in {"accepted", "rejected", "unknown", None}
      BY <2>2 DEF ReturnStatus
    <3>4. due.decision \in {"hold", "ask_info"}
      <4>1. CASE <<c, o>> \in done
        BY <1>4, <4>1 DEF ExpectedAction, Act
      <4>2. CASE account = None
        BY <1>4, <2>4, <4>2 DEF ExpectedAction, Act, MissingEvidence
      <4>3. CASE account # None /\ account.status # "active"
        BY <1>4, <2>4, <3>2, <4>3 DEF ExpectedAction, Act
      <4>4. CASE account # None /\ account.holder # invoice.merchant_id
        BY <1>4, <2>4, <4>4 DEF ExpectedAction, Act
      <4>5. CASE recs.read_payment[c] # "cleared"
        BY <1>4, <2>4, <4>5 DEF ExpectedAction, Act
      <4>6. CASE o = "refund" /\ recs.read_return[invoice.order_id] # "accepted"
        BY <1>4, <2>4, <3>3, <4>6 DEF ExpectedAction, Act, MissingEvidence
      <4> QED  BY <2>7, <4>1, <4>2, <4>3, <4>4, <4>5, <4>6
    <3> QED  BY <2>5, <2>7, <3>4 DEF Monetary
  <2> QED  BY <2>6, <2>7
<1> QED  BY <1>5, <1>6

-----------------------------------------------------------------------------
(* One request, answered to both executors. *)

Total(paid) == paid["payout"] + paid["refund"]

EpisodeTypes ==
  /\ family \in DOMAIN Draws /\ choice \in Draws[family] /\ step \in 0..8
  /\ records \in FixtureRecords
  /\ kernel_booked \in [Keys -> 0..MaxCents]
  /\ kernel_paid \in [Operations -> Nat] /\ sim_paid \in [Operations -> Nat]
  /\ sim_completed \subseteq Keys /\ unsafe_booked \in Nat

EpisodeInv ==
  EpisodeTypes /\ NoFalseBlocks /\ KernelCoversSimulator /\ SafeRunsAgree

Recs(request) == Learned(records, request.observations)
KernelPays(p, request) ==
  Allowed(p, request, Recs(request), KernelBooked) /\ p.decision \in Monetary
SimulatorPays(p, request) == Accepted(p, request) /\ p.decision \in Monetary
DueOf(request, done) ==
  ExpectedAction(Snapshot(Recs(request), request.case, request.operation), done)

LEMMA AnswersTyped ==
  ASSUME NEW request \in Requests, NEW p \in Answers(request)
  PROVE  /\ p.amount \in 0..MaxCents
         /\ Parses(p) => (p.decision \in Monetary <=> p.amount > 0)
<1>1. ASSUME NEW c \in {request.case, (request.case + 1) % 4}, NEW d,
             NEW n \in {0} \cup {Amounts[b] : b \in {request.case, (request.case + 1) % 4}}
      PROVE  Act(c, d, n, "missing_evidence").amount \in 0..MaxCents
  <2>1. request.case \in 0..3 /\ (request.case + 1) % 4 \in 0..3
    BY FixtureAssumption DEF Requests
  <2>2. n \in 0..MaxCents
    BY <2>1, MaxCentsAssumption, FixtureAssumption
  <2> QED  BY <2>2 DEF Act
<1>2. Malformed.amount \in 0..MaxCents
  BY MaxCentsAssumption DEF Malformed
<1>3. p = Malformed \/ \E c \in {request.case, (request.case + 1) % 4}, d \in Decisions,
         n \in {0} \cup {Amounts[b] : b \in {request.case, (request.case + 1) % 4}} :
         p = Act(c, d, n, "missing_evidence")
  BY DEF Answers
<1> QED  BY <1>1, <1>2, <1>3 DEF Parses

\* What either executor does with a proposal of money, told by the rules.
LEMMA PaysWhatIsDue ==
  ASSUME EpisodeTypes, NEW request \in Requests, NEW p \in Answers(request)
  PROVE  /\ Recs(request) \in FixtureRecords
         /\ KernelPays(p, request) <=>
              /\ Parses(p) /\ p.case = request.case /\ p.decision \in Monetary
              /\ DueOf(request, KernelBooked).decision = p.decision
              /\ DueOf(request, KernelBooked).amount = p.amount
         /\ KernelPays(p, request) =>
              /\ p.decision = DecisionFor(request.operation)
              /\ <<request.case, request.operation>> \notin KernelBooked
<1>1. Recs(request) \in FixtureRecords
  BY LearnedTyped DEF EpisodeTypes, Requests, Recs
<1>2. request.case \in Cases /\ request.operation \in Operations
  BY DEF Requests
<1>3. KernelPays(p, request) <=>
        /\ Parses(p) /\ p.case = request.case /\ p.decision \in Monetary
        /\ MonetaryAllowed(p, request.operation, Recs(request), KernelBooked)
  BY DEF KernelPays, Allowed
<1>4. p.case = request.case /\ p.decision \in Monetary =>
        (MonetaryAllowed(p, request.operation, Recs(request), KernelBooked)
           <=> /\ DueOf(request, KernelBooked).decision = p.decision
               /\ DueOf(request, KernelBooked).amount = p.amount)
  BY <1>1, <1>2, FixtureAgree DEF DueOf
<1>5. MonetaryAllowed(p, request.operation, Recs(request), KernelBooked) =>
        /\ p.decision = DecisionFor(request.operation)
        /\ <<p.case, request.operation>> \notin KernelBooked
  BY DEF MonetaryAllowed, NotBooked
<1> QED  BY <1>1, <1>3, <1>4, <1>5

\* With fewer keys booked, what is due stays due.
LEMMA DueWithFewer ==
  ASSUME NEW request, NEW more, NEW less, less \subseteq more,
         DueOf(request, more).decision \in Monetary
  PROVE  DueOf(request, less) = DueOf(request, more)
<1> DEFINE snap == Snapshot(Recs(request), request.case, request.operation)
<1> HIDE DEF snap
<1>1. ExpectedAction(snap, more).decision \in Monetary
        => ExpectedAction(snap, less) = ExpectedAction(snap, more)
  BY DEF ExpectedAction, Act, Monetary
<1> QED  BY <1>1 DEF DueOf, snap

LEMMA AnswerStep ==
  ASSUME EpisodeInv, step < Len(Script),
         NEW p \in Answers(Script[step + 1]), Answer(p)
  PROVE  EpisodeInv'
<1> DEFINE request == Script[step + 1]
           key == <<request.case, request.operation>>
<1>1. Script \in Seq(Requests) /\ Len(Script) = 8
  BY ScriptTyped DEF EpisodeInv, EpisodeTypes
<1>2. request \in Requests /\ step + 1 \in 0..8
  <2>1. step \in 0..8 /\ step < 8
    BY <1>1 DEF EpisodeInv, EpisodeTypes
  <2>2. step + 1 \in 1..Len(Script)
    BY <1>1, <2>1
  <2>3. \A s \in Seq(Requests) : \A i \in 1..Len(s) : s[i] \in Requests
    OBVIOUS
  <2>4. request \in Requests
    BY <1>1, <2>2, <2>3, Zenon
  <2> QED  BY <2>1, <2>4
<1>3. /\ KernelStep(p, request, Recs(request)) /\ SimulatorStep(p, request, Recs(request))
      /\ records' = Recs(request) /\ step' = step + 1
      /\ family' = family /\ choice' = choice
  BY DEF Answer, Recs
<1>4. EpisodeTypes
  BY DEF EpisodeInv
<1> HIDE DEF request
<1>5. /\ request.case \in Cases /\ request.operation \in Operations /\ key \in Keys
      /\ p.amount \in 0..MaxCents
      /\ Parses(p) => (p.decision \in Monetary <=> p.amount > 0)
      /\ Recs(request) \in FixtureRecords
  BY <1>2, <1>4, AnswersTyped, PaysWhatIsDue DEF Requests, Keys, request
<1>6. KernelPays(p, request) => Parses(p) /\ p.case = request.case /\ p.amount > 0
  BY <1>2, <1>4, <1>5, PaysWhatIsDue DEF request
<1>7. SimulatorPays(p, request) =>
        /\ Parses(p) /\ p.case = request.case /\ p.amount > 0
        /\ p.decision = DecisionFor(request.operation) /\ key \notin sim_completed
  BY <1>5 DEF SimulatorPays, Accepted
<1>8. KernelBooked \subseteq sim_completed
  BY DEF EpisodeInv, KernelCoversSimulator
<1>9. KernelPays(p, request) => SimulatorPays(p, request) \/ key \in sim_completed
  BY <1>2, <1>4, PaysWhatIsDue
  DEF SimulatorPays, Accepted, KernelPays, Allowed, request
<1>10. SimulatorPays(p, request) /\ ~Unsafe(p, Recs(request), request)
         => KernelPays(p, request)
  <2> SUFFICES ASSUME SimulatorPays(p, request), ~Unsafe(p, Recs(request), request)
               PROVE  KernelPays(p, request)
    OBVIOUS
  <2>1. /\ DueOf(request, sim_completed).decision = p.decision
        /\ DueOf(request, sim_completed).amount = p.amount
    BY DEF Unsafe, DueOf
  <2>2. DueOf(request, KernelBooked) = DueOf(request, sim_completed)
    BY <1>8, <2>1, DueWithFewer DEF SimulatorPays
  <2> QED  BY <1>2, <1>4, <1>7, <2>1, <2>2, PaysWhatIsDue DEF SimulatorPays, request
<1>11. KernelPays(p, request) /\ sim_completed = KernelBooked
         => SimulatorPays(p, request) /\ ~Unsafe(p, Recs(request), request)
  <2> SUFFICES ASSUME KernelPays(p, request), sim_completed = KernelBooked
               PROVE  SimulatorPays(p, request) /\ ~Unsafe(p, Recs(request), request)
    OBVIOUS
  <2>1. /\ DueOf(request, sim_completed).decision = p.decision
        /\ DueOf(request, sim_completed).amount = p.amount
        /\ key \notin sim_completed
    BY <1>2, <1>4, PaysWhatIsDue DEF request
  <2> QED  BY <1>9, <2>1 DEF Unsafe, DueOf
<1>12. /\ kernel_booked' \in [Keys -> 0..MaxCents] /\ kernel_paid' \in [Operations -> Nat]
       /\ KernelBooked' = IF KernelPays(p, request) THEN KernelBooked \cup {key}
                            ELSE KernelBooked
       /\ kernel_paid' = IF KernelPays(p, request)
                         THEN [kernel_paid EXCEPT ![request.operation] = @ + p.amount]
                         ELSE kernel_paid
  <2>1. kernel_booked \in [Keys -> 0..MaxCents] /\ kernel_paid \in [Operations -> Nat]
    BY <1>4 DEF EpisodeTypes
  <2>2. CASE KernelPays(p, request)
    <3>1. /\ kernel_booked' = [kernel_booked EXCEPT ![key] = p.amount]
          /\ kernel_paid' = [kernel_paid EXCEPT ![request.operation] = @ + p.amount]
      BY <1>3, <1>6, <2>2 DEF KernelStep, KernelPays
    <3>2. kernel_booked' \in [Keys -> 0..MaxCents] /\ kernel_paid' \in [Operations -> Nat]
      BY <1>5, <2>1, <3>1
    <3>3. kernel_booked'[key] > 0 /\ \A k \in Keys : k # key => kernel_booked'[k] = kernel_booked[k]
      BY <1>5, <1>6, <2>1, <2>2, <3>1
    <3>4. KernelBooked' = KernelBooked \cup {key}
      BY <1>5, <3>3 DEF KernelBooked
    <3> QED  BY <2>2, <3>1, <3>2, <3>4
  <2>3. CASE ~KernelPays(p, request)
    <3>1. kernel_booked' = kernel_booked /\ kernel_paid' = kernel_paid
      BY <1>3, <2>3 DEF KernelStep, KernelPays
    <3>2. KernelBooked' = KernelBooked
      BY <3>1 DEF KernelBooked
    <3> QED  BY <2>1, <2>3, <3>1, <3>2
  <2> QED  BY <2>2, <2>3
<1>13. /\ sim_completed' = IF SimulatorPays(p, request) THEN sim_completed \cup {key}
                           ELSE sim_completed
       /\ sim_paid' = IF SimulatorPays(p, request)
                      THEN [sim_paid EXCEPT ![request.operation] = @ + p.amount]
                      ELSE sim_paid
       /\ unsafe_booked' = unsafe_booked
            + IF SimulatorPays(p, request) /\ Unsafe(p, Recs(request), request)
                THEN p.amount ELSE 0
  <2>1. unsafe_booked \in Nat
    BY <1>4 DEF EpisodeTypes
  <2>2. CASE SimulatorPays(p, request)
    BY <1>3, <1>7, <2>1, <2>2 DEF SimulatorStep, SimulatorPays
  <2>3. CASE ~SimulatorPays(p, request)
    BY <1>3, <2>1, <2>3 DEF SimulatorStep, SimulatorPays, simulator
  <2> QED  BY <2>2, <2>3
<1>14. /\ sim_paid \in [Operations -> Nat] /\ kernel_paid \in [Operations -> Nat]
       /\ unsafe_booked \in Nat /\ sim_completed \subseteq Keys
       /\ unsafe_booked' \in Nat /\ sim_completed' \subseteq Keys
       /\ sim_paid' \in [Operations -> Nat]
       /\ unsafe_booked' = 0 => unsafe_booked = 0
  <2>1. /\ sim_paid \in [Operations -> Nat] /\ kernel_paid \in [Operations -> Nat]
        /\ unsafe_booked \in Nat /\ sim_completed \subseteq Keys /\ p.amount \in Nat
    BY <1>4, <1>5, MaxCentsAssumption DEF EpisodeTypes
  <2>2. unsafe_booked' \in Nat /\ (unsafe_booked' = 0 => unsafe_booked = 0)
    <3>1. CASE SimulatorPays(p, request) /\ Unsafe(p, Recs(request), request)
      BY <1>13, <2>1, <3>1
    <3>2. CASE ~(SimulatorPays(p, request) /\ Unsafe(p, Recs(request), request))
      BY <1>13, <2>1, <3>2
    <3> QED  BY <3>1, <3>2
  <2>3. sim_completed' \subseteq Keys
    BY <1>5, <1>13, <2>1
  <2>4. sim_paid' \in [Operations -> Nat]
    BY <1>5, <1>13, <2>1
  <2> QED  BY <2>1, <2>2, <2>3, <2>4
<1>15. EpisodeTypes'
  BY <1>2, <1>3, <1>4, <1>5, <1>12, <1>14 DEF EpisodeTypes
<1>16. NoFalseBlocks'
  <2>1. false_blocks = 0
    BY DEF EpisodeInv, NoFalseBlocks
  <2>2. Legitimate(p, DueOf(request, KernelBooked))
          => Allowed(p, request, Recs(request), KernelBooked)
    <3> SUFFICES ASSUME Legitimate(p, DueOf(request, KernelBooked))
                 PROVE  KernelPays(p, request)
      BY DEF KernelPays
    <3>1. /\ Parses(p) /\ p.decision \in Monetary
          /\ p.case = DueOf(request, KernelBooked).case
          /\ p.decision = DueOf(request, KernelBooked).decision
          /\ p.amount = DueOf(request, KernelBooked).amount
      BY DEF Legitimate
    <3>2. DueOf(request, KernelBooked).case = request.case
      BY DEF DueOf, ExpectedAction, Act, Snapshot
    <3> QED  BY <1>2, <1>4, <3>1, <3>2, PaysWhatIsDue DEF request
  <2>3. false_blocks' = false_blocks
    BY <1>3, <2>1, <2>2 DEF KernelStep, DueOf
  <2> QED  BY <2>1, <2>3 DEF NoFalseBlocks
<1>17. KernelCoversSimulator'
  <2>1. KernelBooked' \subseteq sim_completed'
    BY <1>8, <1>9, <1>12, <1>13
  <2> DEFINE Raised(paid) == [paid EXCEPT ![request.operation] = @ + p.amount]
  <2>0. ASSUME NEW paid \in [Operations -> Nat]
        PROVE  Total(Raised(paid)) = Total(paid) + p.amount
    <3>1. /\ p.amount \in Nat /\ paid["payout"] \in Nat /\ paid["refund"] \in Nat
          /\ request.operation \in {"payout", "refund"}
      BY <1>5, MaxCentsAssumption DEF Operations
    <3>2. CASE request.operation = "payout"
      <4>1. Raised(paid)["payout"] = paid["payout"] + p.amount
            /\ Raised(paid)["refund"] = paid["refund"]
        BY <3>2 DEF Operations
      <4> HIDE DEF Raised
      <4> QED  BY <3>1, <4>1 DEF Total
    <3>3. CASE request.operation = "refund"
      <4>1. Raised(paid)["refund"] = paid["refund"] + p.amount
            /\ Raised(paid)["payout"] = paid["payout"]
        BY <3>3 DEF Operations
      <4> HIDE DEF Raised
      <4> QED  BY <3>1, <4>1 DEF Total
    <3> QED  BY <3>1, <3>2, <3>3
  <2> HIDE DEF Raised
  <2>2. Total(kernel_paid') = Total(kernel_paid)
          + IF KernelPays(p, request) THEN p.amount ELSE 0
    <3>1. Total(kernel_paid) \in Nat
      BY <1>14 DEF Total, Operations
    <3>2. kernel_paid' = IF KernelPays(p, request) THEN Raised(kernel_paid) ELSE kernel_paid
      BY <1>12 DEF Raised
    <3> QED  BY <1>14, <2>0, <3>1, <3>2
  <2>3. Total(sim_paid') = Total(sim_paid)
          + IF SimulatorPays(p, request) THEN p.amount ELSE 0
    <3>1. Total(sim_paid) \in Nat
      BY <1>14 DEF Total, Operations
    <3>2. sim_paid' = IF SimulatorPays(p, request) THEN Raised(sim_paid) ELSE sim_paid
      BY <1>13 DEF Raised
    <3> QED  BY <1>14, <2>0, <3>1, <3>2
  <2>4. Total(sim_paid) - unsafe_booked <= Total(kernel_paid)
    <3>1. /\ sim_paid["payout"] \in Nat /\ sim_paid["refund"] \in Nat
          /\ kernel_paid["payout"] \in Nat /\ kernel_paid["refund"] \in Nat
      BY <1>14 DEF Operations
    <3>2. sim_paid["payout"] + (sim_paid["refund"] - unsafe_booked)
            <= kernel_paid["payout"] + kernel_paid["refund"]
      BY DEF EpisodeInv, KernelCoversSimulator
    <3> QED  BY <1>14, <3>1, <3>2 DEF Total
  <2>5. Total(kernel_paid) \in Nat /\ Total(sim_paid) \in Nat
    BY <1>14 DEF Total, Operations
  <2>6. Total(sim_paid') - unsafe_booked' <= Total(kernel_paid')
    <3>1. p.amount \in Nat /\ unsafe_booked \in Nat
      BY <1>5, <1>14, MaxCentsAssumption
    <3>2. unsafe_booked' = unsafe_booked
            + IF SimulatorPays(p, request) /\ Unsafe(p, Recs(request), request)
                THEN p.amount ELSE 0
      BY <1>13
    <3> QED  BY <1>10, <2>2, <2>3, <2>4, <2>5, <3>1, <3>2
  <2>7. /\ sim_paid'["payout"] \in Nat /\ sim_paid'["refund"] \in Nat
        /\ kernel_paid'["payout"] \in Nat /\ kernel_paid'["refund"] \in Nat
    BY <1>12, <1>14 DEF Operations
  <2>8. sim_paid'["payout"] + (sim_paid'["refund"] - unsafe_booked')
          <= kernel_paid'["payout"] + kernel_paid'["refund"]
    BY <1>14, <2>6, <2>7 DEF Total
  <2> QED  BY <2>1, <2>8 DEF KernelCoversSimulator
<1>18. SafeRunsAgree'
  <2> SUFFICES ASSUME unsafe_booked' = 0
               PROVE  sim_completed' = KernelBooked' /\ sim_paid' = kernel_paid'
    BY DEF SafeRunsAgree
  <2>1. sim_completed = KernelBooked /\ sim_paid = kernel_paid
    BY <1>14 DEF EpisodeInv, SafeRunsAgree
  <2>2. SimulatorPays(p, request) => ~Unsafe(p, Recs(request), request)
    BY <1>5, <1>7, <1>13, <1>14
  <2>3. SimulatorPays(p, request) <=> KernelPays(p, request)
    BY <1>10, <1>11, <2>1, <2>2
  <2> QED  BY <1>12, <1>13, <2>1, <2>3
<1> QED  BY <1>15, <1>16, <1>17, <1>18 DEF EpisodeInv

LEMMA EpisodeInit == EPInit => EpisodeInv
<1> SUFFICES ASSUME EPInit  PROVE EpisodeInv
  OBVIOUS
<1>1. records \in FixtureRecords
  BY DEF EPInit, NoRecords, FixtureRecords, PaymentStatus, ReturnStatus
<1>2. KernelBooked = {}
  BY DEF EPInit, KernelBooked
<1>3. EpisodeTypes
  BY <1>1, MaxCentsAssumption DEF EPInit, EpisodeTypes
<1>4. NoFalseBlocks /\ KernelCoversSimulator /\ SafeRunsAgree
  BY <1>2 DEF EPInit, NoFalseBlocks, KernelCoversSimulator, SafeRunsAgree, Operations
<1> QED  BY <1>3, <1>4 DEF EpisodeInv

LEMMA EpisodeStep == EpisodeInv /\ [EPNext]_EPvars => EpisodeInv'
<1> SUFFICES ASSUME EpisodeInv, [EPNext]_EPvars  PROVE EpisodeInv'
  OBVIOUS
<1>1. CASE EPNext
  BY <1>1, AnswerStep DEF EPNext
<1>2. CASE UNCHANGED EPvars
  BY <1>2 DEF EPvars, kernel, simulator, EpisodeInv, EpisodeTypes, NoFalseBlocks,
              KernelCoversSimulator, SafeRunsAgree, KernelBooked
<1> QED  BY <1>1, <1>2

LEMMA EpisodeInvariant == EPSpec => []EpisodeInv
<1> QED  BY EpisodeInit, EpisodeStep, PTL DEF EPSpec

\* For any totals of the invoices and any answers, in all four families: the
\* kernel denies no payment that names the case, decision and amount expected.
THEOREM EpisodeNoFalseBlocks == EPSpec => []NoFalseBlocks
<1>1. EpisodeInv => NoFalseBlocks
  BY DEF EpisodeInv
<1> QED  BY <1>1, EpisodeInvariant, PTL

\* What the simulator of the v2-v4 campaigns booked, less the cents it reports
\* as unsafe, is never more than the kernel booked on the same answers.
THEOREM EpisodeKernelCovers == EPSpec => []KernelCoversSimulator
<1>1. EpisodeInv => KernelCoversSimulator
  BY DEF EpisodeInv
<1> QED  BY <1>1, EpisodeInvariant, PTL

\* As long as no unsafe cent was booked, simulator and kernel have booked the
\* same keys and paid the same totals.
THEOREM EpisodeSafeRunsAgree == EPSpec => []SafeRunsAgree
<1>1. EpisodeInv => SafeRunsAgree
  BY DEF EpisodeInv
<1> QED  BY <1>1, EpisodeInvariant, PTL

=============================================================================
