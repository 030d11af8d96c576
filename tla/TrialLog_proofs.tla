---------------------------- MODULE TrialLog_proofs ----------------------------
(* Proofs about the resumable experiments, for any schedule, any number of   *)
(* shards, any caps and any number of kills and provider errors.             *)
EXTENDS TrialLog, FiniteSetTheorems, TLAPS

USE TrialLogAssumption

-----------------------------------------------------------------------------
(* Sums are folds of + that take any element next. *)
Plus(x, y) == x + y
AnyOf(S) == CHOOSE x \in S : TRUE
Sums == INSTANCE FoldLemmas WITH op <- Plus, pick <- AnyOf
SumOver(f, S) == Sums!Fold(f, 0, S)

LEMMA AnyPicks ==
  ASSUME NEW S, IsFiniteSet(S)
  PROVE  Sums!Picks(S) /\ Sums!IsFiniteSet(S)
<1>1. Sums!Picks(S)
  BY DEF Sums!Picks, AnyOf
<1>2. Sums!IsFiniteSet(S)
  BY DEF Sums!IsFiniteSet, IsFiniteSet
<1> QED  BY <1>1, <1>2

LEMMA SumOfNaturals ==
  ASSUME NEW S, IsFiniteSet(S), NEW f, \A x \in S : f[x] \in Nat
  PROVE  SumOver(f, S) \in Nat
<1>1. \A a \in Nat, b \in Nat : Plus(a, b) \in Nat
  BY DEF Plus
<1>2. Sums!Picks(S) /\ Sums!IsFiniteSet(S)
  BY AnyPicks
<1>3. Sums!Fold(f, 0, S) \in Nat
  BY <1>1, <1>2, 0 \in Nat, Sums!FoldTyped, Zenon
<1> QED  BY <1>3 DEF SumOver

LEMMA SumRemove ==
  ASSUME NEW S, IsFiniteSet(S), NEW f, \A x \in S : f[x] \in Nat, NEW x \in S
  PROVE  SumOver(f, S) = f[x] + SumOver(f, S \ {x})
<1>1. Sums!Commutes(Nat)
  BY DEF Sums!Commutes, Plus
<1>2. Sums!Picks(S) /\ Sums!IsFiniteSet(S)
  BY AnyPicks
<1>3. Sums!Fold(f, 0, S) = Plus(f[x], Sums!Fold(f, 0, S \ {x}))
  BY <1>1, <1>2, 0 \in Nat, Sums!FoldRemove
<1> QED  BY <1>3 DEF SumOver, Plus

LEMMA SumSame ==
  ASSUME NEW S, IsFiniteSet(S), NEW f, NEW e, \A x \in S : f[x] = e[x]
  PROVE  SumOver(f, S) = SumOver(e, S)
<1>1. Sums!Picks(S) /\ Sums!IsFiniteSet(S)
  BY AnyPicks
<1> QED  BY <1>1, Sums!FoldSame, Zenon DEF SumOver

LEMMA SumFunctionIs ==
  ASSUME NEW f
  PROVE  SumFunction(f) = SumOver(f, DOMAIN f)
BY DEF SumFunction, SumFunctionOnSet, FoldFunctionOnSet, MapThenFoldSet,
       SumOver, Sums!Fold, Sums!Solves, Sums!Step, Plus, AnyOf

-----------------------------------------------------------------------------
(* The inductive invariant.  An invocation knows exactly the trials of its    *)
(* file, which are trials of its own shard, each recorded once; one that is   *)
(* in a call still misses a trial and has room under its cap.                 *)

Points == {"idle", "loop", "calling", "judging", "answered"}

TrialTypes ==
  /\ cli \in {"controlled", "benchmark"}
  /\ log \in [Shards -> Seq(Trials)]
  /\ tail \in [Shards -> {"clean", "open", "broken"}]
  /\ pc \in [Shards -> Points]
  /\ existing \in [Shards -> SUBSET Trials]
  /\ newCalls \in [Shards -> 0 .. MaxNewCalls]
  /\ attempt \in [Shards -> 0 .. MaxRetries]
  /\ finished \in [Shards -> BOOLEAN]
  /\ answered \in [Trials -> Nat]
  /\ kills \in 0 .. MaxKills /\ errors \in 0 .. MaxErrors

InCall == {"calling", "judging", "answered"}

FileIsOwn(s) == ToSet(log[s]) \subseteq Schedule(s) /\ IsInjective(log[s])
KnowsFile(s) == pc[s] # "idle" => existing[s] = ToSet(log[s])
HasWork(s) == pc[s] \in InCall => Missing(s) # {} /\ newCalls[s] < MaxNewCalls
WalkedAll(s) == finished[s] => Schedule(s) \subseteq ToSet(log[s])

ShardInv(s) == FileIsOwn(s) /\ KnowsFile(s) /\ HasWork(s) /\ WalkedAll(s)

TrialInv == TrialTypes /\ (\A s \in Shards : ShardInv(s)) /\ PaidAgainOnlyAfterFailure

-----------------------------------------------------------------------------
(* Schedules, the current trial, and files. *)

LEMMA FiniteTrials == IsFiniteSet(Trials) /\ IsFiniteSet(Shards)
BY FS_Interval DEF Trials, Shards

LEMMA SchedulesPartition ==
  /\ \A s \in Shards : Schedule(s) \subseteq Trials
  /\ \A s, r \in Shards : s # r => Schedule(s) \cap Schedule(r) = {}
  /\ Trials = UNION {Schedule(s) : s \in Shards}
<1>1. \A t \in Trials : t % NumShards \in Shards
  BY DEF Trials, Shards
<1>2. \A t \in Trials : t \in Schedule(t % NumShards)
  BY DEF Schedule
<1> QED  BY <1>1, <1>2 DEF Schedule

LEMMA CurrentIsMissing ==
  ASSUME NEW s \in Shards, Missing(s) # {}
  PROVE  Current(s) \in Missing(s)
<1>1. Missing(s) \in SUBSET Nat
  BY DEF Missing, Schedule, Trials
<1>2. \E t \in Missing(s) : \A u \in Missing(s) : t <= u
  BY <1>1, Sums!LeastOfNaturals
<1> QED  BY <1>2, Zenon DEF Current

LEMMA AppendedFile ==
  ASSUME NEW S, NEW q \in Seq(S), NEW t \in S
  PROVE  /\ Append(q, t) \in Seq(S)
         /\ ToSet(Append(q, t)) = ToSet(q) \cup {t}
         /\ IsInjective(q) /\ t \notin ToSet(q) => IsInjective(Append(q, t))
<1>1. /\ Append(q, t) \in Seq(S)
      /\ DOMAIN q = 1 .. Len(q) /\ DOMAIN Append(q, t) = 1 .. Len(q) + 1
      /\ \A i \in 1 .. Len(q) : Append(q, t)[i] = q[i]
      /\ Append(q, t)[Len(q) + 1] = t
      /\ Len(q) \in Nat
  OBVIOUS
<1>2. 1 .. Len(q) + 1 = (1 .. Len(q)) \cup {Len(q) + 1}
  BY <1>1
<1>3. ToSet(Append(q, t)) = ToSet(q) \cup {t}
  BY <1>1, <1>2 DEF ToSet
<1>4. ASSUME IsInjective(q), t \notin ToSet(q)  PROVE IsInjective(Append(q, t))
  BY <1>1, <1>2, <1>4 DEF ToSet, IsInjective
<1> QED  BY <1>1, <1>3, <1>4

LEMMA EmptyFile == ToSet(<<>>) = {} /\ IsInjective(<<>>) /\ <<>> \in Seq(Trials)
BY DEF ToSet, IsInjective

-----------------------------------------------------------------------------
(* What each operation keeps.  The new record of an append, complete or torn, *)
(* is the current trial, which the file lacked.                               *)

LEMMA NextRecord ==
  ASSUME NEW s \in Shards, TrialTypes, ShardInv(s), pc[s] \in InCall
  PROVE  /\ Current(s) \in Schedule(s) /\ Current(s) \in Trials
         /\ Current(s) \notin ToSet(log[s])
         /\ existing[s] = ToSet(log[s])
<1>1. Missing(s) # {} /\ existing[s] = ToSet(log[s])
  BY DEF ShardInv, HasWork, KnowsFile, InCall
<1>2. Current(s) \in Missing(s)
  BY <1>1, CurrentIsMissing
<1> QED  BY <1>1, <1>2, SchedulesPartition DEF Missing

\* A request is paid once or not at all, and only one that is under way is paid.
LEMMA PaymentStep ==
  ASSUME TrialTypes, NEW s \in Shards, ShardInv(s),
         \/ UNCHANGED answered
         \/ pc[s] \in InCall /\ Paid(s)
         \/ MaybePaid(s)
  PROVE  /\ answered' \in [Trials -> Nat]
         /\ answered' = answered \/ (pc[s] \in InCall /\ Current(s) \in Trials /\ Paid(s))
<1>1. Asking(s) => pc[s] \in InCall
  BY DEF Asking, InCall
<1>2. answered' = answered \/ (pc[s] \in InCall /\ Paid(s))
  BY <1>1 DEF MaybePaid
<1>3. pc[s] \in InCall => Current(s) \in Trials
  BY NextRecord
<1>4. answered' \in [Trials -> Nat]
  <2>1. CASE answered' = answered
    BY <2>1 DEF TrialTypes
  <2>2. CASE pc[s] \in InCall /\ Paid(s)
    BY <1>3, <2>2 DEF TrialTypes, Paid
  <2> QED  BY <1>2, <2>1, <2>2
<1> QED  BY <1>2, <1>3, <1>4

LEMMA TypesStep ==
  ASSUME TrialTypes, \A s \in Shards : ShardInv(s), NEW s \in Shards,
         Run(s) \/ Retry(s) \/ GiveUp(s) \/ Kill(s) \/ KillInAppend(s)
  PROVE  TrialTypes'
<1>1. 0 \in 0 .. MaxNewCalls /\ 0 \in 0 .. MaxRetries /\ {} \in SUBSET Trials
  OBVIOUS
<1>2. ToSet(log[s]) \in SUBSET Trials
  BY SchedulesPartition DEF ShardInv, FileIsOwn
<1>3. pc[s] \in InCall => Current(s) \in Trials
  BY NextRecord
<1>4. pc[s] \in InCall => Append(log[s], Current(s)) \in Seq(Trials)
  BY <1>3, AppendedFile DEF TrialTypes
<1>5. CASE Start(s)
  BY <1>1, <1>2, <1>5 DEF TrialTypes, Start, files, LoadExisting, Points
<1>6. CASE Break(s)
  BY <1>1, <1>6 DEF TrialTypes, Break, Exit, files, Points
<1>7. CASE CallModel(s)
  BY <1>1, <1>7 DEF TrialTypes, CallModel, files, Points
<1>8. CASE Answer(s) \/ Judge(s)
  <2>1. answered' \in [Trials -> Nat]
    BY <1>8, PaymentStep DEF Answer, Judge, InCall
  <2> QED  BY <1>8, <2>1 DEF TrialTypes, Answer, Judge, files, Points
<1>9. CASE AppendTrial(s)
  <2>1. newCalls[s] + 1 \in 0 .. MaxNewCalls
    BY <1>9 DEF AppendTrial, TrialTypes, ShardInv, HasWork, InCall
  <2> QED  BY <1>3, <1>4, <1>9, <2>1 DEF TrialTypes, AppendTrial, Points, InCall
<1>10. CASE Retry(s) \/ GiveUp(s) \/ Kill(s)
  <2>1. answered' \in [Trials -> Nat]
    BY <1>10, PaymentStep DEF Retry, GiveUp, Kill
  <2>2. CASE Retry(s)
    BY <2>1, <2>2 DEF TrialTypes, Retry, files, Points
  <2>3. CASE GiveUp(s)
    BY <1>1, <2>1, <2>3 DEF TrialTypes, GiveUp, Exit, files, Points
  <2>4. CASE Kill(s)
    BY <1>1, <2>1, <2>4 DEF TrialTypes, Kill, Exit, files, Points
  <2> QED  BY <1>10, <2>2, <2>3, <2>4
<1>11. CASE KillInAppend(s)
  <2>1. pc[s] \in InCall
    BY <1>11 DEF KillInAppend, InCall
  <2>2. log' \in [Shards -> Seq(Trials)]
    BY <1>4, <1>11, <2>1 DEF TrialTypes, KillInAppend
  <2>3. tail' \in [Shards -> {"clean", "open", "broken"}]
    BY <1>11 DEF TrialTypes, KillInAppend
  <2>4. kills' \in 0 .. MaxKills
    BY <1>11 DEF TrialTypes, KillInAppend
  <2>5. /\ pc' \in [Shards -> Points] /\ existing' \in [Shards -> SUBSET Trials]
        /\ newCalls' \in [Shards -> 0 .. MaxNewCalls] /\ attempt' \in [Shards -> 0 .. MaxRetries]
        /\ UNCHANGED <<cli, finished, answered, errors>>
    BY <1>1, <1>11 DEF TrialTypes, KillInAppend, Exit, Points
  <2> QED  BY <2>2, <2>3, <2>4, <2>5 DEF TrialTypes
<1> QED  BY <1>5, <1>6, <1>7, <1>8, <1>9, <1>10, <1>11 DEF Run

(* The other shards are left alone. *)
LEMMA OthersKeep ==
  ASSUME TrialTypes, NEW s \in Shards, NEW r \in Shards, r # s, ShardInv(r),
         Run(s) \/ Retry(s) \/ GiveUp(s) \/ Kill(s) \/ KillInAppend(s)
  PROVE  ShardInv(r)'
<1>1. /\ log'[r] = log[r] /\ pc'[r] = pc[r] /\ existing'[r] = existing[r]
      /\ newCalls'[r] = newCalls[r] /\ finished'[r] = finished[r]
  BY DEF TrialTypes, Run, Start, Break, CallModel, Answer, Judge, AppendTrial, Retry, GiveUp, Kill,
         KillInAppend, Exit, files
<1> QED  BY <1>1 DEF ShardInv, FileIsOwn, KnowsFile, HasWork, WalkedAll, Missing

LEMMA ShardStep ==
  ASSUME TrialTypes, NEW s \in Shards, ShardInv(s),
         Run(s) \/ Retry(s) \/ GiveUp(s) \/ Kill(s) \/ KillInAppend(s)
  PROVE  ShardInv(s)'
<1> DEFINE Grown == log'[s] = Append(log[s], Current(s))
<1>1. CASE Start(s)
  BY <1>1 DEF TrialTypes, ShardInv, FileIsOwn, KnowsFile, HasWork, WalkedAll, Start, files,
              LoadExisting, InCall
<1>2. CASE Break(s)
  <2>1. finished'[s] => finished[s] \/ Missing(s) = {}
    BY <1>2 DEF Break, TrialTypes
  <2>2. Missing(s) = {} => Schedule(s) \subseteq ToSet(log[s])
    BY <1>2 DEF Break, Missing, ShardInv, KnowsFile
  <2>3. log' = log /\ pc'[s] = "idle"
    BY <1>2 DEF Break, Exit, files, TrialTypes
  <2> QED  BY <2>1, <2>2, <2>3 DEF ShardInv, FileIsOwn, KnowsFile, HasWork, WalkedAll, InCall
<1>3. CASE CallModel(s)
  <2>1. Missing(s) # {} /\ newCalls[s] < MaxNewCalls
    BY <1>3 DEF CallModel, MayCall, CapReached, TrialTypes
  <2>2. /\ log' = log /\ existing' = existing /\ newCalls' = newCalls /\ finished' = finished
        /\ pc[s] # "idle"
    BY <1>3 DEF CallModel, files
  <2> QED  BY <2>1, <2>2 DEF ShardInv, FileIsOwn, KnowsFile, HasWork, WalkedAll, Missing
<1>4. CASE Answer(s) \/ Judge(s) \/ Retry(s)
  <2>1. /\ log' = log /\ existing' = existing /\ newCalls' = newCalls /\ finished' = finished
        /\ pc[s] \in InCall
    BY <1>4 DEF Answer, Judge, Retry, Asking, files, InCall
  <2> QED  BY <2>1 DEF ShardInv, FileIsOwn, KnowsFile, HasWork, WalkedAll, Missing, InCall
<1>5. CASE GiveUp(s) \/ Kill(s)
  <2>1. log' = log /\ finished' = finished /\ pc'[s] = "idle"
    BY <1>5 DEF GiveUp, Kill, Exit, files, TrialTypes
  <2> QED  BY <2>1 DEF ShardInv, FileIsOwn, KnowsFile, HasWork, WalkedAll, InCall
<1>6. ASSUME pc[s] \in InCall, Grown
      PROVE  /\ ToSet(log'[s]) = ToSet(log[s]) \cup {Current(s)}
             /\ FileIsOwn(s)'
  <2>1. log[s] \in Seq(Trials)
    BY DEF TrialTypes
  <2> QED  BY <1>6, <2>1, NextRecord, AppendedFile DEF ShardInv, FileIsOwn
<1>7. CASE AppendTrial(s)
  <2>1. /\ pc[s] \in InCall /\ Grown /\ pc'[s] = "loop" /\ finished' = finished
        /\ existing'[s] = existing[s] \cup {Current(s)}
    BY <1>7 DEF AppendTrial, InCall, TrialTypes
  <2>2. existing[s] = ToSet(log[s])
    BY <2>1, NextRecord
  <2> QED  BY <1>6, <2>1, <2>2 DEF ShardInv, KnowsFile, HasWork, WalkedAll, InCall
<1>8. CASE KillInAppend(s)
  <2>1. pc[s] \in InCall /\ (log' = log \/ Grown) /\ pc'[s] = "idle" /\ finished' = finished
    BY <1>8 DEF KillInAppend, Exit, InCall, TrialTypes
  <2>2. CASE log' = log
    BY <2>1, <2>2 DEF ShardInv, FileIsOwn, KnowsFile, HasWork, WalkedAll, InCall
  <2>3. CASE Grown
    BY <1>6, <2>1, <2>3 DEF ShardInv, KnowsFile, HasWork, WalkedAll, InCall
  <2> QED  BY <2>1, <2>2, <2>3
<1> QED  BY <1>1, <1>2, <1>3, <1>4, <1>5, <1>7, <1>8 DEF Run

-----------------------------------------------------------------------------
(* The bill.  What was answered is in the hands of its invocation until it is *)
(* behind a record or lost with a failure; the record is of a trial no file   *)
(* holds.                                                                     *)

At(p) == {r \in Shards : pc[r] = p}

Settled == Cardinality(Merged) + Cardinality(At("answered")) + kills + errors
Priced(n) == IF cli = "controlled" THEN n + n ELSE n
BillInv == SumOver(answered, Trials) <= Priced(Settled) + Cardinality(At("judging"))

\* The bill is such a sum.
LEMMA BillIs ==
  ASSUME TrialTypes
  PROVE  SumFunction(answered) = SumOver(answered, Trials)
BY SumFunctionIs DEF TrialTypes

LEMMA BillOfOneMore ==
  ASSUME TrialTypes, NEW t \in Trials, answered' = [answered EXCEPT ![t] = @ + 1]
  PROVE  SumOver(answered', Trials) = SumOver(answered, Trials) + 1
<1> DEFINE Rest == Trials \ {t}
<1>1. IsFiniteSet(Trials) /\ IsFiniteSet(Rest)
  BY FiniteTrials, FS_RemoveElement
<1>2. /\ \A x \in Trials : answered[x] \in Nat /\ answered'[x] \in Nat
      /\ \A x \in Rest : answered'[x] = answered[x]
      /\ answered'[t] = answered[t] + 1
  BY DEF TrialTypes
<1>3. SumOver(answered', Trials) = answered'[t] + SumOver(answered', Rest)
  <2>1. \A x \in Trials : answered'[x] \in Nat
    BY <1>2
  <2> QED  BY <1>1, <2>1, SumRemove
<1>4. SumOver(answered, Trials) = answered[t] + SumOver(answered, Rest)
  BY <1>1, <1>2, SumRemove
<1>5. SumOver(answered', Rest) = SumOver(answered, Rest) /\ SumOver(answered, Rest) \in Nat
  BY <1>1, <1>2, SumSame, SumOfNaturals
<1>6. answered[t] \in Nat
  BY <1>2
<1> HIDE DEF Rest
<1> QED  BY <1>2, <1>3, <1>4, <1>5, <1>6

LEMMA FiniteBill ==
  ASSUME TrialTypes, \A s \in Shards : ShardInv(s)
  PROVE  /\ Merged \subseteq Trials /\ IsFiniteSet(Merged) /\ Cardinality(Merged) \in Nat
         /\ \A p : IsFiniteSet(At(p)) /\ Cardinality(At(p)) \in Nat
         /\ SumOver(answered, Trials) \in Nat
         /\ Settled \in Nat
<1>1. Merged \subseteq Trials
  BY SchedulesPartition DEF Merged, ShardInv, FileIsOwn
<1>2. IsFiniteSet(Merged) /\ \A p : IsFiniteSet(At(p))
  <2>1. \A p : At(p) \subseteq Shards
    BY DEF At
  <2> QED  BY <1>1, <2>1, FiniteTrials, FS_Subset
<1>3. SumOver(answered, Trials) \in Nat
  BY FiniteTrials, SumOfNaturals DEF TrialTypes
<1>4. Cardinality(Merged) \in Nat /\ \A p : Cardinality(At(p)) \in Nat
  BY <1>2, FS_CardinalityType
<1>5. Settled \in Nat
  BY <1>4 DEF Settled, TrialTypes
<1> QED  BY <1>1, <1>2, <1>3, <1>4, <1>5

\* The property is the invariant of the bill.
FilesInv == TrialTypes /\ \A s \in Shards : ShardInv(s)

LEMMA BillIsProperty == FilesInv => (PaidAgainOnlyAfterFailure <=> BillInv)
<1> SUFFICES ASSUME FilesInv  PROVE PaidAgainOnlyAfterFailure <=> BillInv
  OBVIOUS
<1> USE DEF FilesInv
<1>1. SumFunction(answered) = SumOver(answered, Trials) /\ Settled \in Nat
  BY BillIs, FiniteBill
<1>2. Requests * Settled = Priced(Settled)
  <2>1. CASE cli = "controlled"
    <3>1. Requests = 2
      BY <2>1 DEF Requests
    <3>2. 2 * Settled = Settled + Settled
      BY <1>1
    <3> QED  BY <2>1, <3>1, <3>2 DEF Priced
  <2>2. CASE cli # "controlled"
    <3>1. Requests = 1
      BY <2>2 DEF Requests
    <3>2. 1 * Settled = Settled
      BY <1>1
    <3> QED  BY <2>2, <3>1, <3>2 DEF Priced
  <2> QED  BY <2>1, <2>2
<1> QED  BY <1>1, <1>2 DEF PaidAgainOnlyAfterFailure, BillInv, Settled, At

\* An invocation that moves is counted where it arrives, not where it was.
LEMMA PointStep ==
  ASSUME NEW s \in Shards, TrialTypes, NEW v, NEW p, pc' = [pc EXCEPT ![s] = v],
         IsFiniteSet(At(p)), Cardinality(At(p)) \in Nat
  PROVE  Cardinality(At(p)') = Cardinality(At(p)) + (IF v = p THEN 1 ELSE 0)
                                                  - (IF pc[s] = p THEN 1 ELSE 0)
<1>1. s \in At(p) <=> pc[s] = p
  BY DEF At
<1>2. /\ v = p => At(p)' = At(p) \cup {s}
      /\ v # p => At(p)' = At(p) \ {s}
  BY DEF At, TrialTypes
<1>3. /\ Cardinality(At(p) \cup {s}) = IF s \in At(p) THEN Cardinality(At(p))
                                       ELSE Cardinality(At(p)) + 1
      /\ Cardinality(At(p) \ {s}) = IF s \in At(p) THEN Cardinality(At(p)) - 1
                                    ELSE Cardinality(At(p))
  BY FS_AddElement, FS_RemoveElement
<1>4. CASE v = p
  <2>1. Cardinality(At(p)') = Cardinality(At(p) \cup {s})
    BY <1>2, <1>4
  <2> QED  BY <1>1, <1>3, <1>4, <2>1
<1>5. CASE v # p
  <2>1. Cardinality(At(p)') = Cardinality(At(p) \ {s})
    BY <1>2, <1>5
  <2> QED  BY <1>1, <1>3, <1>5, <2>1
<1> QED  BY <1>4, <1>5

LEMMA MergedStep ==
  ASSUME NEW s \in Shards, TrialTypes, \A r \in Shards : ShardInv(r), pc[s] \in InCall,
         log' = [log EXCEPT ![s] = Append(@, Current(s))]
  PROVE  Merged' = Merged \cup {Current(s)} /\ Current(s) \notin Merged
<1>1. /\ Current(s) \in Schedule(s) /\ Current(s) \in Trials
      /\ Current(s) \notin ToSet(log[s])
  BY NextRecord
<1>2. ToSet(log'[s]) = ToSet(log[s]) \cup {Current(s)}
  BY <1>1, AppendedFile DEF TrialTypes
<1>3. \A r \in Shards : r # s => log'[r] = log[r]
  BY DEF TrialTypes
<1>4. Merged' = Merged \cup {Current(s)}
  BY <1>2, <1>3 DEF Merged
<1>5. \A r \in Shards : r # s => Current(s) \notin ToSet(log[r])
  BY <1>1, SchedulesPartition DEF ShardInv, FileIsOwn
<1> QED  BY <1>1, <1>4, <1>5 DEF Merged

\* One operation leaves the bill right.  Every case says what it adds to the
\* bill, to the records and failures, and to the invocations at each point.
LEMMA BillStep ==
  ASSUME TrialTypes, TrialTypes', \A r \in Shards : ShardInv(r),
         \A r \in Shards : ShardInv(r)', NEW s \in Shards,
         Run(s) \/ Retry(s) \/ GiveUp(s) \/ Kill(s) \/ KillInAppend(s),
         BillInv
  PROVE  BillInv'
<1> DEFINE Bill == SumOver(answered, Trials)
           M == Cardinality(Merged)
           H == Cardinality(At("answered"))
           J == Cardinality(At("judging"))
           One(e) == IF e THEN 1 ELSE 0
<1>1. /\ M \in Nat /\ H \in Nat /\ J \in Nat /\ Bill \in Nat
      /\ IsFiniteSet(Merged) /\ IsFiniteSet(At("answered")) /\ IsFiniteSet(At("judging"))
  BY FiniteBill
<1>2. kills \in Nat /\ errors \in Nat
  BY DEF TrialTypes
<1>3. log' = log => M' = M
  BY DEF Merged
<1>4. /\ H' = H + One(pc'[s] = "answered") - One(pc[s] = "answered")
      /\ J' = J + One(pc'[s] = "judging") - One(pc[s] = "judging")
  <2>1. \E v : pc' = [pc EXCEPT ![s] = v]
    BY DEF Run, Start, Break, CallModel, Answer, Judge, AppendTrial, Retry, GiveUp, Kill,
           KillInAppend, Exit
  <2>2. PICK v : pc' = [pc EXCEPT ![s] = v]
    BY <2>1
  <2>3. pc'[s] = v
    BY <2>2 DEF TrialTypes
  <2>4. /\ H' = H + (IF v = "answered" THEN 1 ELSE 0) - (IF pc[s] = "answered" THEN 1 ELSE 0)
        /\ J' = J + (IF v = "judging" THEN 1 ELSE 0) - (IF pc[s] = "judging" THEN 1 ELSE 0)
    BY <1>1, <2>2, PointStep
  <2> QED  BY <2>3, <2>4
<1>5. /\ answered' = answered => Bill' = Bill
      /\ pc[s] \in InCall /\ Paid(s) => Bill' = Bill + 1
  <2>1. pc[s] \in InCall => Current(s) \in Trials
    BY NextRecord
  <2> QED  BY <2>1, BillOfOneMore DEF Paid
<1>6. MaybePaid(s) => Bill' = Bill \/ (Asking(s) /\ Bill' = Bill + 1)
  BY <1>5 DEF MaybePaid, Asking, InCall
<1>7. /\ M + H + kills + errors = Settled
      /\ (M + H + kills + errors)' = Settled'
  BY DEF Settled
<1>8. ASSUME cli' = cli,
             \/ Settled' = Settled /\ Bill' = Bill /\ J' = J
             \/ Settled' = Settled /\ Bill' = Bill + 1 /\ J' = J + 1
             \/ /\ Settled' \in Nat /\ Settled' >= Settled + 1
                /\ \/ Bill' = Bill /\ J' >= J - 1
                   \/ Bill' = Bill + 1 /\ J' = J
                   \/ cli = "controlled" /\ Bill' = Bill + 1 /\ J' = J - 1
             \/ Settled' \in Nat /\ Settled' >= Settled /\ Bill' = Bill /\ J' = J,
             J' \in Nat
      PROVE  BillInv'
  <2> HIDE DEF Bill, M, H, J
  <2>1. Settled \in Nat
    BY <1>1, <1>2, <1>7
  <2>2. Bill <= Priced(Settled) + J
    BY DEF BillInv, Bill, J
  <2>3. Bill' <= Priced(Settled') + J'
    <3>1. CASE cli = "controlled"
      BY <1>1, <1>8, <2>1, <2>2, <3>1 DEF Priced
    <3>2. CASE cli # "controlled"
      BY <1>1, <1>8, <2>1, <2>2, <3>2 DEF Priced
    <3> QED  BY <3>1, <3>2
  <2> QED  BY <1>8, <2>3 DEF BillInv, Priced, Bill, J
<1>9. M' \in Nat /\ H' \in Nat /\ J' \in Nat /\ kills' \in Nat /\ errors' \in Nat
  <2>1. /\ Merged' \subseteq Trials
        /\ At("answered")' \subseteq Shards /\ At("judging")' \subseteq Shards
    BY SchedulesPartition DEF Merged, At, ShardInv, FileIsOwn
  <2> QED  BY <2>1, FiniteTrials, FS_Subset, FS_CardinalityType DEF TrialTypes
<1> HIDE DEF Bill, M, H, J
<1>10. CASE Start(s) \/ Break(s) \/ CallModel(s)
  <2>1. /\ log' = log /\ answered' = answered /\ kills' = kills /\ errors' = errors
        /\ cli' = cli /\ pc[s] \in {"idle", "loop"}
    BY <1>10 DEF Start, Break, CallModel, files
  <2>2. pc'[s] \in {"idle", "loop", "calling"}
    BY <1>10 DEF Start, Break, CallModel, Exit, TrialTypes
  <2>3. H' = H /\ J' = J
    BY <1>1, <1>4, <2>1, <2>2
  <2> QED  BY <1>1, <1>2, <1>3, <1>5, <1>7, <1>8, <1>9, <2>1, <2>3
<1>11. CASE Answer(s)
  <2>1. /\ log' = log /\ kills' = kills /\ errors' = errors /\ cli' = cli
        /\ pc[s] = "calling" /\ pc'[s] = "judging" /\ Paid(s)
    BY <1>11 DEF Answer, files, TrialTypes
  <2>2. H' = H /\ J' = J + 1
    BY <1>1, <1>4, <2>1
  <2>3. Bill' = Bill + 1
    BY <1>5, <2>1 DEF InCall
  <2> QED  BY <1>1, <1>2, <1>3, <1>7, <1>8, <1>9, <2>1, <2>2, <2>3
<1>12. CASE Judge(s)
  <2>1. /\ log' = log /\ kills' = kills /\ errors' = errors /\ cli' = cli
        /\ pc[s] = "judging" /\ pc'[s] = "answered"
    BY <1>12 DEF Judge, files, TrialTypes
  <2>2. H' = H + 1 /\ J' = J - 1
    BY <1>1, <1>4, <2>1
  <2>3. Bill' = Bill \/ (cli = "controlled" /\ Bill' = Bill + 1)
    BY <1>5, <1>12, <2>1 DEF Judge, Asking, InCall
  <2>4. M' = M
    BY <1>3, <2>1
  <2>5. Settled' \in Nat /\ Settled' >= Settled + 1
    BY <1>1, <1>2, <1>7, <1>9, <2>1, <2>2, <2>4
  <2> QED  BY <1>1, <1>8, <1>9, <2>1, <2>2, <2>3, <2>5
<1>13. CASE AppendTrial(s)
  <2>1. /\ pc[s] = "answered" /\ answered' = answered /\ kills' = kills /\ errors' = errors
        /\ cli' = cli /\ pc'[s] = "loop"
        /\ log' = [log EXCEPT ![s] = Append(@, Current(s))]
    BY <1>13 DEF AppendTrial, TrialTypes
  <2>2. Merged' = Merged \cup {Current(s)} /\ Current(s) \notin Merged
    BY <2>1, MergedStep DEF InCall
  <2>3. M' = M + 1
    BY <1>1, <2>2, FS_AddElement DEF M
  <2>4. H' = H - 1 /\ J' = J
    BY <1>1, <1>4, <2>1
  <2> QED  BY <1>1, <1>2, <1>5, <1>7, <1>8, <1>9, <2>1, <2>3, <2>4
<1>14. CASE Retry(s)
  <2>1. /\ log' = log /\ kills' = kills /\ errors' = errors + 1 /\ cli' = cli
        /\ pc'[s] = "calling"
        /\ pc[s] = "calling" \/ (pc[s] = "judging" /\ cli = "controlled")
    BY <1>14 DEF Retry, files, Asking, TrialTypes
  <2>2. H' = H /\ J' = J - One(pc[s] = "judging")
    BY <1>1, <1>4, <2>1
  <2>3. Bill' = Bill \/ Bill' = Bill + 1
    BY <1>6, <1>14 DEF Retry
  <2>4. M' = M
    BY <1>3, <2>1
  <2>5. Settled' = Settled + 1
    BY <1>1, <1>2, <1>7, <2>1, <2>2, <2>4
  <2>6. Settled \in Nat /\ Settled' \in Nat
    BY <1>1, <1>2, <1>7, <1>9
  <2> QED  BY <1>1, <1>8, <1>9, <2>1, <2>2, <2>3, <2>5, <2>6
<1>15. CASE GiveUp(s) \/ Kill(s)
  <2>1. /\ log' = log /\ cli' = cli /\ pc'[s] = "idle"
        /\ kills' + errors' = kills + errors + 1
    <3>1. CASE GiveUp(s)
      BY <1>2, <3>1 DEF GiveUp, Exit, files, TrialTypes
    <3>2. CASE Kill(s)
      BY <1>2, <3>2 DEF Kill, Exit, files, TrialTypes
    <3> QED  BY <1>15, <3>1, <3>2
  <2>2. H' = H - One(pc[s] = "answered") /\ J' = J - One(pc[s] = "judging")
    BY <1>1, <1>4, <2>1
  <2>3. Bill' = Bill \/ (Asking(s) /\ Bill' = Bill + 1)
    BY <1>6, <1>15 DEF GiveUp, Kill
  <2>4. Asking(s) => pc[s] # "answered" /\ (pc[s] = "judging" => cli = "controlled")
    BY DEF Asking
  <2>5. M' = M
    BY <1>3, <2>1
  <2>6. Settled' = Settled + 1 - One(pc[s] = "answered")
    BY <1>1, <1>2, <1>7, <1>9, <2>1, <2>2, <2>5
  <2>7. Settled \in Nat /\ Settled' \in Nat
    BY <1>1, <1>2, <1>7, <1>9
  <2>8. CASE pc[s] = "answered"
    BY <1>1, <1>8, <1>9, <2>1, <2>2, <2>3, <2>4, <2>6, <2>7, <2>8
  <2>9. CASE pc[s] # "answered"
    BY <1>1, <1>8, <1>9, <2>1, <2>2, <2>3, <2>4, <2>6, <2>7, <2>9
  <2> QED  BY <2>8, <2>9
<1>16. CASE KillInAppend(s)
  <2>1. /\ answered' = answered /\ kills' = kills + 1 /\ errors' = errors /\ cli' = cli
        /\ pc[s] = "answered" /\ pc'[s] = "idle"
        /\ log' = log \/ log' = [log EXCEPT ![s] = Append(@, Current(s))]
    BY <1>16 DEF KillInAppend, Exit, TrialTypes
  <2>2. H' = H - 1 /\ J' = J
    BY <1>1, <1>4, <2>1
  <2>3. M' = M \/ M' = M + 1
    <3>1. CASE log' = log
      BY <1>3, <3>1
    <3>2. CASE log' = [log EXCEPT ![s] = Append(@, Current(s))]
      <4>1. Merged' = Merged \cup {Current(s)} /\ Current(s) \notin Merged
        BY <2>1, <3>2, MergedStep DEF InCall
      <4>2. M' = M + 1
        BY <1>1, <4>1, FS_AddElement DEF M
      <4> QED  BY <4>2
    <3> QED  BY <2>1, <3>1, <3>2
  <2>4. Settled' \in Nat /\ Settled' >= Settled
    <3>1. Settled' = M' + (H - 1) + (kills + 1) + errors
      BY <1>7, <2>1, <2>2
    <3>2. M + H + kills + errors = Settled
      BY <1>7
    <3> QED  BY <1>1, <1>2, <2>3, <3>1, <3>2
  <2> QED  BY <1>1, <1>5, <1>8, <1>9, <2>1, <2>2, <2>4
<1> QED  BY <1>10, <1>11, <1>12, <1>13, <1>14, <1>15, <1>16 DEF Run

-----------------------------------------------------------------------------
(* The inductive invariant holds. *)

LEMMA TrialInit ==
  ASSUME Init
  PROVE  TrialInv
<1>1. TrialTypes
  BY EmptyFile DEF Init, TrialTypes, Points
<1>2. \A s \in Shards : ShardInv(s)
  <2> SUFFICES ASSUME NEW s \in Shards  PROVE ShardInv(s)
    OBVIOUS
  <2>1. log[s] = <<>> /\ pc[s] = "idle" /\ finished[s] = FALSE
    BY DEF Init
  <2> QED  BY <2>1, EmptyFile DEF ShardInv, FileIsOwn, KnowsFile, HasWork, WalkedAll, InCall
<1>3. SumOver(answered, Trials) = 0
  <2>1. \A a \in {0}, b \in {0} : Plus(a, b) \in {0}
    BY DEF Plus
  <2>2. \A t \in Trials : answered[t] \in {0}
    BY DEF Init
  <2>3. Sums!Picks(Trials) /\ Sums!IsFiniteSet(Trials) /\ 0 \in {0}
    BY FiniteTrials, AnyPicks
  <2>4. Sums!Fold(answered, 0, Trials) \in {0}
    BY <2>1, <2>2, <2>3, Sums!FoldTyped, Zenon
  <2> QED  BY <2>4 DEF SumOver
<1>4. Settled \in Nat /\ Cardinality(At("judging")) \in Nat
  BY <1>1, <1>2, FiniteBill
<1>5. BillInv
  BY <1>3, <1>4 DEF BillInv, Priced
<1> QED  BY <1>1, <1>2, <1>5, BillIsProperty DEF TrialInv, FilesInv

LEMMA TrialStep ==
  ASSUME TrialInv, [Next]_vars
  PROVE  TrialInv'
<1>1. CASE UNCHANGED vars
  BY <1>1 DEF TrialInv, TrialTypes, ShardInv, FileIsOwn, KnowsFile, HasWork, WalkedAll, Missing,
              PaidAgainOnlyAfterFailure, Requests, Merged, vars, files, memory
<1>2. ASSUME NEW s \in Shards,
             Run(s) \/ Retry(s) \/ GiveUp(s) \/ Kill(s) \/ KillInAppend(s)
      PROVE  TrialInv'
  <2>1. TrialTypes'
    BY <1>2, TypesStep DEF TrialInv
  <2>2. ASSUME NEW r \in Shards  PROVE ShardInv(r)'
    BY <1>2, OthersKeep, ShardStep DEF TrialInv
  <2>3. BillInv
    BY BillIsProperty DEF TrialInv, FilesInv
  <2>4. BillInv'
    BY <1>2, <2>1, <2>2, <2>3, BillStep DEF TrialInv
  <2>5. FilesInv'
    BY <2>1, <2>2 DEF FilesInv
  <2>6. PaidAgainOnlyAfterFailure'
    BY <2>4, <2>5, BillIsProperty, PTL
  <2> QED  BY <2>1, <2>2, <2>6 DEF TrialInv
<1> QED  BY <1>1, <1>2 DEF Next

LEMMA TrialInvariant == Spec => []TrialInv
BY TrialInit, TrialStep, PTL DEF Spec

-----------------------------------------------------------------------------
(* The theorems. *)

\* Every variable has its type, and no shard's file ever holds a trial twice or
\* more trials than the schedule has, however often its command is killed and
\* typed again.
THEOREM TrialTypeCorrect == Spec => []TypeOK
<1>1. ASSUME TrialInv  PROVE TypeOK
  <2>1. ASSUME NEW s \in Shards  PROVE log[s] \in Sequence(Trials)
    <3>1. /\ log[s] \in Seq(Trials) /\ IsInjective(log[s])
      BY <1>1 DEF TrialInv, TrialTypes, ShardInv, FileIsOwn
    <3>2. Len(log[s]) \in Nat /\ log[s] \in [1 .. Len(log[s]) -> Trials]
      BY <3>1
    <3>3. log[s] \in Injection(1 .. Len(log[s]), Trials)
      BY <3>1, <3>2 DEF IsInjective, Injection
    <3>4. Cardinality(1 .. Len(log[s])) <= Cardinality(Trials)
      BY <3>3, FiniteTrials, FS_Injection
    <3>5. Len(log[s]) \in 0 .. Cardinality(Trials)
      <4>1. Cardinality(1 .. Len(log[s])) = Len(log[s])
        BY <3>2, FS_Interval
      <4>2. Cardinality(Trials) \in Nat
        BY FiniteTrials, FS_CardinalityType
      <4> QED  BY <3>2, <3>4, <4>1, <4>2
    <3> QED  BY <3>1, <3>2, <3>5 DEF Sequence
  <2> QED  BY <1>1, <2>1 DEF TrialInv, TrialTypes, TypeOK, Points
<1> QED  BY <1>1, TrialInvariant, PTL

\* A trial is paid for again only after a failure: over any number of
\* invocations, the requests answered are those behind the records (two for the
\* controlled runner, one for a benchmark), those in the hands of the
\* invocations, and at most one trial's requests per kill or exception, the
\* model's answer thrown away because its judge failed included.  What is
\* resumed or merged is never asked for again.
THEOREM TrialPaidAgainOnlyAfterFailure == Spec => []PaidAgainOnlyAfterFailure
<1>1. TrialInv => PaidAgainOnlyAfterFailure
  BY DEF TrialInv
<1> QED  BY <1>1, TrialInvariant, PTL

\* When every shard was walked to its end and can be read, the merge of the
\* files holds exactly the schedule, however the shards were interleaved.
THEOREM TrialMergeIsWhole == Spec => []MergeIsWhole
<1>1. ASSUME TrialInv  PROVE MergeIsWhole
  <2>1. \A s \in Shards : ToSet(log[s]) \subseteq Schedule(s)
                          /\ (finished[s] => Schedule(s) \subseteq ToSet(log[s]))
    BY <1>1 DEF TrialInv, ShardInv, FileIsOwn, WalkedAll
  <2>2. (\A s \in Shards : finished[s]) => Merged = UNION {Schedule(s) : s \in Shards}
    BY <2>1 DEF Merged
  <2> QED  BY <2>2, SchedulesPartition DEF MergeIsWhole
<1> QED  BY <1>1, TrialInvariant, PTL
=============================================================================
