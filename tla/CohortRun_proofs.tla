---------------------------- MODULE CohortRun_proofs ----------------------------
(* Proofs about the cohort directories, for any directories, invocations and *)
(* number of rows, and about the transcript of a cohort and its replay.      *)
EXTENDS CohortRun, Transcript, FiniteSetTheorems, TLAPS

USE RowsAssumption, ModesAssumption

-----------------------------------------------------------------------------
(* The inductive invariant.  Typing first: where an invocation can be, and   *)
(* that one that works has a directory, and a source when it will copy one.  *)

Owning == {"marking", "running", "completing", "sealed", "raised"}
Places == {"idle", "screening", "making", "freezing", "cleared"} \cup Owning

TypeInv ==
  /\ TypeOK
  /\ at \in [Invocations -> Places]
  /\ \A p \in Invocations :
       /\ at[p] # "idle" => dir[p] \in Directories
       /\ at[p] \in {"screening", "making"} /\ dir[p] \in Confirmatory
            => source[p] \in Development

\* An invocation that created the marker of a directory, and is not done with it.
Owns(p, d) == at[p] \in Owning /\ dir[p] = d

\* What a directory looks like, whoever works on it.
Whole(d) ==
  LET f == files[d] IN
  /\ f.frozen => f.exists
  /\ f.started # "no" => ValidProtocol(d)
  /\ f.started # "whole" => f.rows = 0 /\ ~f.torn /\ f.completion = "no" /\ writers[d] = {}
  /\ f.completion # "no" => f.rows = Rows /\ ~f.torn
  /\ d \in killed => f.started # "no" /\ f.completion # "whole"

\* What an invocation may count on in the directory it works on.
Holds(p) ==
  LET f == files[dir[p]] IN
  /\ at[p] = "freezing" => f.exists
  /\ at[p] = "cleared" => ValidProtocol(dir[p])
  /\ at[p] \in Owning => f.started # "no" /\ dir[p] \notin killed
  /\ at[p] = "marking" => f.started = "torn"
  /\ at[p] \in Owning \ {"marking"} => f.started = "whole"
  /\ at[p] = "running" => f.completion = "no" /\ ~f.torn
  /\ at[p] = "completing" => f.completion = "torn"

\* The marker makes its creator the only owner, and the only writer of rows.
Exclusive ==
  /\ \A p, q \in Invocations, d \in Directories : Owns(p, d) /\ Owns(q, d) => p = q
  /\ \A p \in Invocations, d \in Directories : Owns(p, d) => writers[d] \subseteq {p}
  /\ \A d \in Directories : \A p, q \in writers[d] : p = q

CohortInv ==
  /\ TypeInv
  /\ \A d \in Directories : Whole(d)
  /\ \A p \in Invocations : Holds(p)
  /\ Exclusive

-----------------------------------------------------------------------------
(* Typing *)

LEMMA NoFilesTyped == NoFiles \in Files
BY DEF NoFiles, Files, Marks

\* What typing says of the invocation that takes a step.
LEMMA WorkerTyped ==
  ASSUME TypeInv, NEW p \in Invocations, at[p] # "idle"
  PROVE  /\ dir[p] \in Directories
         /\ files \in [Directories -> Files] /\ files[dir[p]] \in Files
BY DEF TypeInv, TypeOK

LEMMA TypeInvInit == Init => TypeInv
<1> SUFFICES ASSUME Init PROVE TypeInv
  OBVIOUS
<1>1. TypeOK
  BY NoFilesTyped DEF Init, TypeOK
<1>2. QED
  BY <1>1 DEF Init, TypeInv, Places

\* The files after a step that turns those of directory d into g.
Becomes(d, g) == g \in Files /\ files' = [files EXCEPT ![d] = g]

LEMMA BecomesTyped ==
  ASSUME files \in [Directories -> Files], NEW d \in Directories, NEW g, Becomes(d, g)
  PROVE  /\ files' \in [Directories -> Files] /\ files'[d] = g
         /\ \A c \in Directories : c # d => files'[c] = files[c]
BY DEF Becomes

\* A field assigned within its type keeps the record well formed.
LEMMA FieldTyped ==
  ASSUME NEW f \in Files
  PROVE  /\ \A v \in BOOLEAN :
              /\ [f EXCEPT !.exists = v] \in Files /\ [f EXCEPT !.frozen = v] \in Files
              /\ [f EXCEPT !.partial = v] \in Files /\ [f EXCEPT !.aborted = v] \in Files
              /\ [f EXCEPT !.torn = v] \in Files
              /\ [f EXCEPT !.completion = "torn", !.gate = v] \in Files
         /\ \A v \in Marks :
              [f EXCEPT !.started = v] \in Files /\ [f EXCEPT !.completion = v] \in Files
         /\ \A v \in 0..Rows : [f EXCEPT !.rows = v] \in Files
<1>1. ASSUME NEW v \in BOOLEAN PROVE [f EXCEPT !.exists = v] \in Files
  BY DEF Files
<1>2. ASSUME NEW v \in BOOLEAN PROVE [f EXCEPT !.frozen = v] \in Files
  BY DEF Files
<1>3. ASSUME NEW v \in BOOLEAN PROVE [f EXCEPT !.partial = v] \in Files
  BY DEF Files
<1>4. ASSUME NEW v \in BOOLEAN PROVE [f EXCEPT !.aborted = v] \in Files
  BY DEF Files
<1>5. ASSUME NEW v \in BOOLEAN PROVE [f EXCEPT !.torn = v] \in Files
  BY DEF Files
<1>6. ASSUME NEW v \in BOOLEAN PROVE [f EXCEPT !.completion = "torn", !.gate = v] \in Files
  BY DEF Files, Marks
<1>7. ASSUME NEW v \in Marks PROVE [f EXCEPT !.started = v] \in Files
  BY DEF Files
<1>8. ASSUME NEW v \in Marks PROVE [f EXCEPT !.completion = v] \in Files
  BY DEF Files
<1>9. ASSUME NEW v \in 0..Rows PROVE [f EXCEPT !.rows = v] \in Files
  BY DEF Files
<1>10. QED
  BY <1>1, <1>2, <1>3, <1>4, <1>5, <1>6, <1>7, <1>8, <1>9

\* Assigning one field of one directory, within its type.
LEMMA SetBecomes ==
  ASSUME files \in [Directories -> Files], NEW d \in Directories
  PROVE  /\ \A v \in BOOLEAN :
              /\ Set(d, "exists", v) => Becomes(d, [files[d] EXCEPT !.exists = v])
              /\ Set(d, "frozen", v) => Becomes(d, [files[d] EXCEPT !.frozen = v])
              /\ Set(d, "partial", v) => Becomes(d, [files[d] EXCEPT !.partial = v])
              /\ Set(d, "aborted", v) => Becomes(d, [files[d] EXCEPT !.aborted = v])
              /\ files' = [files EXCEPT ![d].torn = v]
                   => Becomes(d, [files[d] EXCEPT !.torn = v])
              /\ files' = [files EXCEPT ![d].completion = "torn", ![d].gate = v]
                   => Becomes(d, [files[d] EXCEPT !.completion = "torn", !.gate = v])
         /\ \A v \in Marks :
              /\ Set(d, "started", v) => Becomes(d, [files[d] EXCEPT !.started = v])
              /\ Set(d, "completion", v) => Becomes(d, [files[d] EXCEPT !.completion = v])
         /\ \A v \in 0..Rows : Set(d, "rows", v) => Becomes(d, [files[d] EXCEPT !.rows = v])
<1>1. files[d] \in Files
  OBVIOUS
<1>2. ASSUME NEW v \in BOOLEAN, Set(d, "exists", v)
      PROVE  Becomes(d, [files[d] EXCEPT !.exists = v])
  <2>1. files' = [files EXCEPT ![d] = [files[d] EXCEPT !.exists = v]]
    BY <1>2, Zenon DEF Set
  <2>2. QED
    BY <1>1, <2>1, FieldTyped DEF Becomes
<1>3. ASSUME NEW v \in BOOLEAN, Set(d, "frozen", v)
      PROVE  Becomes(d, [files[d] EXCEPT !.frozen = v])
  <2>1. files' = [files EXCEPT ![d] = [files[d] EXCEPT !.frozen = v]]
    BY <1>3, Zenon DEF Set
  <2>2. QED
    BY <1>1, <2>1, FieldTyped DEF Becomes
<1>4. ASSUME NEW v \in BOOLEAN, Set(d, "partial", v)
      PROVE  Becomes(d, [files[d] EXCEPT !.partial = v])
  <2>1. files' = [files EXCEPT ![d] = [files[d] EXCEPT !.partial = v]]
    BY <1>4, Zenon DEF Set
  <2>2. QED
    BY <1>1, <2>1, FieldTyped DEF Becomes
<1>5. ASSUME NEW v \in BOOLEAN, Set(d, "aborted", v)
      PROVE  Becomes(d, [files[d] EXCEPT !.aborted = v])
  <2>1. files' = [files EXCEPT ![d] = [files[d] EXCEPT !.aborted = v]]
    BY <1>5, Zenon DEF Set
  <2>2. QED
    BY <1>1, <2>1, FieldTyped DEF Becomes
<1>6. ASSUME NEW v \in Marks, Set(d, "started", v)
      PROVE  Becomes(d, [files[d] EXCEPT !.started = v])
  <2>1. files' = [files EXCEPT ![d] = [files[d] EXCEPT !.started = v]]
    BY <1>6, Zenon DEF Set
  <2>2. QED
    BY <1>1, <2>1, FieldTyped DEF Becomes
<1>7. ASSUME NEW v \in Marks, Set(d, "completion", v)
      PROVE  Becomes(d, [files[d] EXCEPT !.completion = v])
  <2>1. files' = [files EXCEPT ![d] = [files[d] EXCEPT !.completion = v]]
    BY <1>7, Zenon DEF Set
  <2>2. QED
    BY <1>1, <2>1, FieldTyped DEF Becomes
<1>8. ASSUME NEW v \in 0..Rows, Set(d, "rows", v)
      PROVE  Becomes(d, [files[d] EXCEPT !.rows = v])
  <2>1. files' = [files EXCEPT ![d] = [files[d] EXCEPT !.rows = v]]
    BY <1>8, Zenon DEF Set
  <2>2. QED
    BY <1>1, <2>1, FieldTyped DEF Becomes
<1>9. ASSUME NEW v \in BOOLEAN, files' = [files EXCEPT ![d].torn = v]
      PROVE  Becomes(d, [files[d] EXCEPT !.torn = v])
  <2>1. files' = [files EXCEPT ![d] = [files[d] EXCEPT !.torn = v]]
    BY <1>9
  <2>2. QED
    BY <1>1, <2>1, FieldTyped DEF Becomes
<1>10. ASSUME NEW v \in BOOLEAN, files' = [files EXCEPT ![d].completion = "torn", ![d].gate = v]
      PROVE  Becomes(d, [files[d] EXCEPT !.completion = "torn", !.gate = v])
  <2>1. files' = [files EXCEPT ![d] = [files[d] EXCEPT !.completion = "torn", !.gate = v]]
    BY <1>10
  <2>2. QED
    BY <1>1, <2>1, FieldTyped DEF Becomes
<1>11. QED
  BY <1>2, <1>3, <1>4, <1>5, <1>6, <1>7, <1>8, <1>9, <1>10

\* What each step that writes makes of the directory it works on.
LEMMA FilesAfter ==
  ASSUME TypeInv, NEW p \in Invocations
  PROVE  LET d == dir[p] IN
         /\ MakeDirectory(p) => UNCHANGED files \/ Becomes(d, [files[d] EXCEPT !.exists = TRUE])
         /\ Freeze(p) => Becomes(d, [files[d] EXCEPT !.frozen = TRUE])
         /\ Start(p) => UNCHANGED files \/ Becomes(d, [files[d] EXCEPT !.started = "torn"])
         /\ Mark(p) => Becomes(d, [files[d] EXCEPT !.started = "whole"])
         /\ WriteRow(p) => Becomes(d, [files[d] EXCEPT !.rows = files[d].rows + 1])
         /\ Finish(p) =>
              \E b \in BOOLEAN : Becomes(d, [files[d] EXCEPT !.completion = "torn", !.gate = b])
         /\ Seal(p) => Becomes(d, [files[d] EXCEPT !.completion = "whole"])
         /\ Raise(p) => \E b \in BOOLEAN : Becomes(d, [files[d] EXCEPT !.partial = b])
         /\ Abort(p) => Becomes(d, [files[d] EXCEPT !.aborted = TRUE])
         /\ Kill(p) => \/ UNCHANGED files
                       \/ at[p] = "running" /\ files[d].rows < Rows
                          /\ Becomes(d, [files[d] EXCEPT !.torn = TRUE])
<1> DEFINE d == dir[p]
<1>1. at[p] # "idle" => /\ d \in Directories /\ files[d] \in Files
                        /\ files \in [Directories -> Files]
  BY WorkerTyped
<1> HIDE DEF d
<1>2. ASSUME MakeDirectory(p)
      PROVE  UNCHANGED files \/ Becomes(d, [files[d] EXCEPT !.exists = TRUE])
  <2>1. at[p] # "idle" /\ (UNCHANGED files \/ Set(d, "exists", TRUE))
    BY <1>2 DEF MakeDirectory, Go, d
  <2>2. QED
    BY <1>1, <2>1, SetBecomes
<1>3. ASSUME Freeze(p)
      PROVE  Becomes(d, [files[d] EXCEPT !.frozen = TRUE])
  <2>1. at[p] # "idle" /\ Set(d, "frozen", TRUE)
    BY <1>3 DEF Freeze, Go, d
  <2>2. QED
    BY <1>1, <2>1, SetBecomes
<1>4. ASSUME Start(p)
      PROVE  UNCHANGED files \/ Becomes(d, [files[d] EXCEPT !.started = "torn"])
  <2>1. at[p] # "idle" /\ (UNCHANGED files \/ Set(d, "started", "torn"))
    BY <1>4 DEF Start, Go, d
  <2>2. QED
    BY <1>1, <2>1, SetBecomes DEF Marks
<1>5. ASSUME Mark(p)
      PROVE  Becomes(d, [files[d] EXCEPT !.started = "whole"])
  <2>1. at[p] # "idle" /\ Set(d, "started", "whole")
    BY <1>5 DEF Mark, Go, d
  <2>2. QED
    BY <1>1, <2>1, SetBecomes DEF Marks
<1>6. ASSUME Seal(p)
      PROVE  Becomes(d, [files[d] EXCEPT !.completion = "whole"])
  <2>1. at[p] # "idle" /\ Set(d, "completion", "whole")
    BY <1>6 DEF Seal, Go, d
  <2>2. QED
    BY <1>1, <2>1, SetBecomes DEF Marks
<1>7. ASSUME Abort(p)
      PROVE  Becomes(d, [files[d] EXCEPT !.aborted = TRUE])
  <2>1. at[p] # "idle" /\ Set(d, "aborted", TRUE)
    BY <1>7 DEF Abort, Go, d
  <2>2. QED
    BY <1>1, <2>1, SetBecomes
<1>8. ASSUME WriteRow(p)
      PROVE  Becomes(d, [files[d] EXCEPT !.rows = files[d].rows + 1])
  <2>1. /\ at[p] # "idle" /\ files[d].rows < Rows
        /\ Set(d, "rows", files[d].rows + 1)
    BY <1>8 DEF WriteRow, StepsLeft, d
  <2>2. files[d].rows + 1 \in 0..Rows
    BY <1>1, <2>1 DEF Files
  <2>3. QED
    BY <1>1, <2>1, <2>2, SetBecomes
<1>9. ASSUME Finish(p)
      PROVE  \E b \in BOOLEAN : Becomes(d, [files[d] EXCEPT !.completion = "torn", !.gate = b])
  <2>1. PICK b \in BOOLEAN :
          at[p] # "idle" /\ files' = [files EXCEPT ![d].completion = "torn", ![d].gate = b]
    BY <1>9 DEF Finish, Go, d
  <2>2. QED
    BY <1>1, <2>1, SetBecomes
<1>10. ASSUME Raise(p)
      PROVE  \E b \in BOOLEAN : Becomes(d, [files[d] EXCEPT !.partial = b])
  <2>1. PICK left \in BOOLEAN :
          at[p] # "idle" /\ Set(d, "partial", files[d].partial \/ left)
    BY <1>10 DEF Raise, InTry, d
  <2>2. (files[d].partial \/ left) \in BOOLEAN
    OBVIOUS
  <2>3. QED
    BY <1>1, <2>1, <2>2, SetBecomes
<1>11. ASSUME Kill(p)
      PROVE  \/ UNCHANGED files
             \/ at[p] = "running" /\ files[d].rows < Rows
                /\ Becomes(d, [files[d] EXCEPT !.torn = TRUE])
  <2>1. /\ at[p] # "idle"
        /\ \/ UNCHANGED files
           \/ /\ at[p] = "running" /\ files[d].rows < Rows
              /\ files' = [files EXCEPT ![d].torn = TRUE]
    BY <1>11 DEF Kill, d
  <2>2. QED
    BY <1>1, <2>1, SetBecomes
<1>12. QED
  BY <1>2, <1>3, <1>4, <1>5, <1>6, <1>7, <1>8, <1>9, <1>10, <1>11 DEF d

\* None of them spoils the types of the files.
LEMMA FilesStayTyped ==
  ASSUME TypeInv, NEW p \in Invocations, at[p] # "idle",
         \/ MakeDirectory(p) \/ Freeze(p) \/ Start(p) \/ Mark(p) \/ WriteRow(p)
         \/ Finish(p) \/ Seal(p) \/ Raise(p) \/ Abort(p) \/ Kill(p)
  PROVE  files' \in [Directories -> Files]
<1>1. dir[p] \in Directories /\ files \in [Directories -> Files]
  BY WorkerTyped
<1>2. UNCHANGED files \/ \E g : Becomes(dir[p], g)
  <2>1. CASE MakeDirectory(p)
    BY <2>1, FilesAfter, Zenon
  <2>2. CASE Freeze(p)
    BY <2>2, FilesAfter, Zenon
  <2>3. CASE Start(p)
    BY <2>3, FilesAfter, Zenon
  <2>4. CASE Mark(p)
    BY <2>4, FilesAfter, Zenon
  <2>5. CASE WriteRow(p)
    BY <2>5, FilesAfter, Zenon
  <2>6. CASE Finish(p)
    BY <2>6, FilesAfter, Zenon
  <2>7. CASE Seal(p)
    BY <2>7, FilesAfter, Zenon
  <2>8. CASE Raise(p)
    BY <2>8, FilesAfter, Zenon
  <2>9. CASE Abort(p)
    BY <2>9, FilesAfter, Zenon
  <2>10. CASE Kill(p)
    BY <2>10, FilesAfter, Zenon
  <2>11. QED
    BY <2>1, <2>2, <2>3, <2>4, <2>5, <2>6, <2>7, <2>8, <2>9, <2>10
<1>3. QED
  BY <1>1, <1>2, BecomesTyped

LEMMA TypeInvStep == TypeInv /\ [Next]_vars => TypeInv'
<1> SUFFICES ASSUME TypeInv, [Next]_vars PROVE TypeInv'
  OBVIOUS
<1>1. ASSUME NEW p \in Invocations, NEW d \in Directories,
             NEW e \in Development \cup {None}, Prepare(p, d, e)
      PROVE  TypeInv'
  BY <1>1 DEF Prepare, Directories, TypeInv, TypeOK, Places, Owning, Go
<1>2. ASSUME NEW p \in Invocations, NEW d \in Directories, Run(p, d)
      PROVE  TypeInv'
  BY <1>2 DEF Run, TypeInv, TypeOK, Places, Owning, Go
<1>3. ASSUME NEW p \in Invocations, Screened(p)
      PROVE  TypeInv'
  BY <1>3 DEF Screened, TypeInv, TypeOK, Places, Owning, Go, Stop
<1>4. ASSUME NEW p \in Invocations, MakeDirectory(p)
      PROVE  TypeInv'
  <2>1. files' \in [Directories -> Files]
    <3>1. at[p] # "idle"
      BY <1>4 DEF MakeDirectory, Go
    <3>2. QED
      BY <1>4, <3>1, FilesStayTyped
  <2>2. /\ at[p] = "making" /\ UNCHANGED <<dir, source, killed, writers>>
        /\ at' = [at EXCEPT ![p] = "idle"] \/ at' = [at EXCEPT ![p] = "freezing"]
        /\ \/ copy' = copy
           \/ dir[p] \in Confirmatory /\ copy' = [copy EXCEPT ![dir[p]] = files[source[p]]]
    BY <1>4 DEF MakeDirectory, Go, Stop
  <2>3. copy' \in [Confirmatory -> Files]
    BY <2>2 DEF TypeInv, TypeOK, Directories
  <2>4. QED
    BY <2>1, <2>2, <2>3 DEF TypeInv, TypeOK, Places, Owning
<1>5. ASSUME NEW p \in Invocations, Freeze(p)
      PROVE  TypeInv'
  <2>1. files' \in [Directories -> Files]
    <3>1. at[p] # "idle"
      BY <1>5 DEF Freeze, Go
    <3>2. QED
      BY <1>5, <3>1, FilesStayTyped
  <2>2. QED
    BY <1>5, <2>1 DEF Freeze, TypeInv, TypeOK, Places, Owning, Go, Stop
<1>6. ASSUME NEW p \in Invocations, Start(p)
      PROVE  TypeInv'
  <2>1. files' \in [Directories -> Files]
    <3>1. at[p] # "idle"
      BY <1>6 DEF Start, Go
    <3>2. QED
      BY <1>6, <3>1, FilesStayTyped
  <2>2. /\ at[p] = "cleared" /\ UNCHANGED <<copy, dir, source, killed, writers>>
        /\ at' = [at EXCEPT ![p] = "idle"] \/ at' = [at EXCEPT ![p] = "marking"]
    BY <1>6, Zenon DEF Start, Go, Stop
  <2>3. QED
    BY <2>1, <2>2 DEF TypeInv, TypeOK, Places, Owning
<1>7. ASSUME NEW p \in Invocations, Mark(p)
      PROVE  TypeInv'
  <2>1. files' \in [Directories -> Files]
    <3>1. at[p] # "idle"
      BY <1>7 DEF Mark, Go
    <3>2. QED
      BY <1>7, <3>1, FilesStayTyped
  <2>2. QED
    BY <1>7, <2>1 DEF Mark, TypeInv, TypeOK, Places, Owning, Go, Stop
<1>8. ASSUME NEW p \in Invocations, WriteRow(p)
      PROVE  TypeInv'
  <2>1. files' \in [Directories -> Files]
    <3>1. at[p] # "idle"
      BY <1>8 DEF WriteRow, Go
    <3>2. QED
      BY <1>8, <3>1, FilesStayTyped
  <2>2. writers' \in [Directories -> SUBSET Invocations]
    BY <1>8, WorkerTyped DEF WriteRow, TypeInv, TypeOK
  <2>3. QED
    BY <1>8, <2>1, <2>2 DEF WriteRow, TypeInv, TypeOK
<1>9. ASSUME NEW p \in Invocations, Finish(p)
      PROVE  TypeInv'
  <2>1. files' \in [Directories -> Files]
    <3>1. at[p] # "idle"
      BY <1>9 DEF Finish, Go
    <3>2. QED
      BY <1>9, <3>1, FilesStayTyped
  <2>2. QED
    BY <1>9, <2>1 DEF Finish, TypeInv, TypeOK, Places, Owning, Go, Stop
<1>10. ASSUME NEW p \in Invocations, Seal(p)
       PROVE  TypeInv'
  <2>1. files' \in [Directories -> Files]
    <3>1. at[p] # "idle"
      BY <1>10 DEF Seal, Go
    <3>2. QED
      BY <1>10, <3>1, FilesStayTyped
  <2>2. QED
    BY <1>10, <2>1 DEF Seal, TypeInv, TypeOK, Places, Owning, Go, Stop
<1>11. ASSUME NEW p \in Invocations, Leave(p)
       PROVE  TypeInv'
  BY <1>11 DEF Leave, TypeInv, TypeOK, Places, Owning, Go, Stop
<1>12. ASSUME NEW p \in Invocations, Raise(p)
       PROVE  TypeInv'
  <2>1. files' \in [Directories -> Files]
    <3>1. at[p] # "idle"
      BY <1>12 DEF Raise, InTry
    <3>2. QED
      BY <1>12, <3>1, FilesStayTyped
  <2>2. QED
    BY <1>12, <2>1 DEF Raise, InTry, TypeInv, TypeOK, Places, Owning, Go, Stop
<1>13. ASSUME NEW p \in Invocations, Abort(p)
       PROVE  TypeInv'
  <2>1. files' \in [Directories -> Files]
    <3>1. at[p] # "idle"
      BY <1>13 DEF Abort, Go
    <3>2. QED
      BY <1>13, <3>1, FilesStayTyped
  <2>2. QED
    BY <1>13, <2>1 DEF Abort, TypeInv, TypeOK, Places, Owning, Go, Stop
<1>14. ASSUME NEW p \in Invocations, Kill(p)
       PROVE  TypeInv'
  <2>1. files' \in [Directories -> Files]
    <3>1. at[p] # "idle"
      BY <1>14 DEF Kill, Go
    <3>2. QED
      BY <1>14, <3>1, FilesStayTyped
  <2>2. QED
    BY <1>14, <2>1 DEF Kill, TypeInv, TypeOK, Places, Owning, Go, Stop
<1>15. CASE UNCHANGED vars
  BY <1>15 DEF vars, TypeInv, TypeOK
<1>16. QED
  BY <1>1, <1>2, <1>3, <1>4, <1>5, <1>6, <1>7, <1>8, <1>9, <1>10, <1>11, <1>12, <1>13,
     <1>14, <1>15 DEF Next, Proceed

\* In every reachable state the directories, their copies and the invocations
\* that work on them have the types of the files and variables of the code.
THEOREM CohortTypeCorrect == Spec => []TypeOK
<1>1. TypeInv => TypeOK
  BY DEF TypeInv
<1>2. QED
  BY <1>1, TypeInvInit, TypeInvStep, PTL DEF Spec

-----------------------------------------------------------------------------
(* What a step does, field by field *)

\* A step of p leaves the other invocations where they are.
Alone(p, to) ==
  /\ at'[p] = to /\ UNCHANGED dir
  /\ \A q \in Invocations : q # p => at'[q] = at[q]

\* The fields of a directory's files that the invariant speaks of are those of
\* other files, but for the fields of S.
Keeps(g, f, S) ==
  /\ "exists" \notin S => g.exists = f.exists
  /\ "frozen" \notin S => g.frozen = f.frozen
  /\ "started" \notin S => g.started = f.started
  /\ "rows" \notin S => g.rows = f.rows
  /\ "torn" \notin S => g.torn = f.torn
  /\ "completion" \notin S => g.completion = f.completion

LEMMA FieldKept ==
  ASSUME NEW f \in Files, NEW v
  PROVE  /\ Keeps([f EXCEPT !.exists = v], f, {"exists"}) /\ [f EXCEPT !.exists = v].exists = v
         /\ Keeps([f EXCEPT !.frozen = v], f, {"frozen"}) /\ [f EXCEPT !.frozen = v].frozen = v
         /\ Keeps([f EXCEPT !.started = v], f, {"started"}) /\ [f EXCEPT !.started = v].started = v
         /\ Keeps([f EXCEPT !.rows = v], f, {"rows"}) /\ [f EXCEPT !.rows = v].rows = v
         /\ Keeps([f EXCEPT !.torn = v], f, {"torn"}) /\ [f EXCEPT !.torn = v].torn = v
         /\ Keeps([f EXCEPT !.completion = v], f, {"completion"}) /\ [f EXCEPT !.completion = v].completion = v
         /\ Keeps([f EXCEPT !.partial = v], f, {}) /\ Keeps([f EXCEPT !.aborted = v], f, {})
         /\ Keeps([f EXCEPT !.completion = "torn", !.gate = v], f, {"completion"})
         /\ [f EXCEPT !.completion = "torn", !.gate = v].completion = "torn"
<1>1. Keeps([f EXCEPT !.exists = v], f, {"exists"}) /\ [f EXCEPT !.exists = v].exists = v
  BY DEF Keeps, Files
<1>2. Keeps([f EXCEPT !.frozen = v], f, {"frozen"}) /\ [f EXCEPT !.frozen = v].frozen = v
  BY DEF Keeps, Files
<1>3. Keeps([f EXCEPT !.started = v], f, {"started"}) /\ [f EXCEPT !.started = v].started = v
  BY DEF Keeps, Files
<1>4. Keeps([f EXCEPT !.rows = v], f, {"rows"}) /\ [f EXCEPT !.rows = v].rows = v
  BY DEF Keeps, Files
<1>5. Keeps([f EXCEPT !.torn = v], f, {"torn"}) /\ [f EXCEPT !.torn = v].torn = v
  BY DEF Keeps, Files
<1>6. Keeps([f EXCEPT !.completion = v], f, {"completion"}) /\ [f EXCEPT !.completion = v].completion = v
  BY DEF Keeps, Files
<1>7. Keeps([f EXCEPT !.partial = v], f, {}) /\ Keeps([f EXCEPT !.aborted = v], f, {})
  BY DEF Keeps, Files
<1>8. /\ Keeps([f EXCEPT !.completion = "torn", !.gate = v], f, {"completion"})
      /\ [f EXCEPT !.completion = "torn", !.gate = v].completion = "torn"
  BY DEF Keeps, Files
<1>9. QED
  BY <1>1, <1>2, <1>3, <1>4, <1>5, <1>6, <1>7, <1>8

\* A step that changed the fields of S in directory d, and nothing in another.
Only(d, S) ==
  /\ \A c \in Directories : c # d => files'[c] = files[c]
  /\ Keeps(files'[d], files[d], S)

LEMMA FreezeEffect ==
  ASSUME TypeInv, NEW p \in Invocations, Freeze(p)
  PROVE  /\ at[p] = "freezing" /\ Alone(p, "idle") /\ UNCHANGED <<copy, killed, writers>>
         /\ Only(dir[p], {"frozen"}) /\ files'[dir[p]].frozen = TRUE
<1>1. at[p] = "freezing" /\ Alone(p, "idle") /\ UNCHANGED <<copy, killed, writers>>
  BY DEF Freeze, Alone, Go, Stop, TypeInv
<1>2. /\ dir[p] \in Directories /\ files[dir[p]] \in Files
      /\ files \in [Directories -> Files]
  BY <1>1, WorkerTyped
<1>3. Becomes(dir[p], [files[dir[p]] EXCEPT !.frozen = TRUE])
  BY FilesAfter
<1>4. /\ files'[dir[p]] = [files[dir[p]] EXCEPT !.frozen = TRUE]
      /\ \A c \in Directories : c # dir[p] => files'[c] = files[c]
  BY <1>2, <1>3, BecomesTyped
<1>5. /\ Keeps([files[dir[p]] EXCEPT !.frozen = TRUE], files[dir[p]], {"frozen"})
      /\ [files[dir[p]] EXCEPT !.frozen = TRUE].frozen = TRUE
  BY <1>2, FieldKept
<1>6. QED
  BY <1>1, <1>4, <1>5, Zenon DEF Only

LEMMA MarkEffect ==
  ASSUME TypeInv, NEW p \in Invocations, Mark(p)
  PROVE  /\ at[p] = "marking" /\ Alone(p, "running") /\ UNCHANGED <<copy, killed, writers>>
         /\ Only(dir[p], {"started"}) /\ files'[dir[p]].started = "whole"
<1>1. at[p] = "marking" /\ Alone(p, "running") /\ UNCHANGED <<copy, killed, writers>>
  BY DEF Mark, Alone, Go, Stop, TypeInv
<1>2. /\ dir[p] \in Directories /\ files[dir[p]] \in Files
      /\ files \in [Directories -> Files]
  BY <1>1, WorkerTyped
<1>3. Becomes(dir[p], [files[dir[p]] EXCEPT !.started = "whole"])
  BY FilesAfter
<1>4. /\ files'[dir[p]] = [files[dir[p]] EXCEPT !.started = "whole"]
      /\ \A c \in Directories : c # dir[p] => files'[c] = files[c]
  BY <1>2, <1>3, BecomesTyped
<1>5. /\ Keeps([files[dir[p]] EXCEPT !.started = "whole"], files[dir[p]], {"started"})
      /\ [files[dir[p]] EXCEPT !.started = "whole"].started = "whole"
  BY <1>2, FieldKept
<1>6. QED
  BY <1>1, <1>4, <1>5, Zenon DEF Only

LEMMA SealEffect ==
  ASSUME TypeInv, NEW p \in Invocations, Seal(p)
  PROVE  /\ at[p] = "completing" /\ Alone(p, "sealed") /\ UNCHANGED <<copy, killed, writers>>
         /\ Only(dir[p], {"completion"}) /\ files'[dir[p]].completion = "whole"
<1>1. at[p] = "completing" /\ Alone(p, "sealed") /\ UNCHANGED <<copy, killed, writers>>
  BY DEF Seal, Alone, Go, Stop, TypeInv
<1>2. /\ dir[p] \in Directories /\ files[dir[p]] \in Files
      /\ files \in [Directories -> Files]
  BY <1>1, WorkerTyped
<1>3. Becomes(dir[p], [files[dir[p]] EXCEPT !.completion = "whole"])
  BY FilesAfter
<1>4. /\ files'[dir[p]] = [files[dir[p]] EXCEPT !.completion = "whole"]
      /\ \A c \in Directories : c # dir[p] => files'[c] = files[c]
  BY <1>2, <1>3, BecomesTyped
<1>5. /\ Keeps([files[dir[p]] EXCEPT !.completion = "whole"], files[dir[p]], {"completion"})
      /\ [files[dir[p]] EXCEPT !.completion = "whole"].completion = "whole"
  BY <1>2, FieldKept
<1>6. QED
  BY <1>1, <1>4, <1>5, Zenon DEF Only

LEMMA AbortEffect ==
  ASSUME TypeInv, NEW p \in Invocations, Abort(p)
  PROVE  /\ at[p] = "raised" /\ Alone(p, "idle") /\ UNCHANGED <<copy, killed, writers>>
         /\ Only(dir[p], {})
<1>1. at[p] = "raised" /\ Alone(p, "idle") /\ UNCHANGED <<copy, killed, writers>>
  BY DEF Abort, Alone, Go, Stop, TypeInv
<1>2. /\ dir[p] \in Directories /\ files[dir[p]] \in Files
      /\ files \in [Directories -> Files]
  BY <1>1, WorkerTyped
<1>3. Becomes(dir[p], [files[dir[p]] EXCEPT !.aborted = TRUE])
  BY FilesAfter
<1>4. /\ files'[dir[p]] = [files[dir[p]] EXCEPT !.aborted = TRUE]
      /\ \A c \in Directories : c # dir[p] => files'[c] = files[c]
  BY <1>2, <1>3, BecomesTyped
<1>5. Keeps([files[dir[p]] EXCEPT !.aborted = TRUE], files[dir[p]], {})
  BY <1>2, FieldKept
<1>6. QED
  BY <1>1, <1>4, <1>5, Zenon DEF Only

LEMMA StartEffect ==
  ASSUME TypeInv, NEW p \in Invocations, Start(p), MarkerFree(dir[p])
  PROVE  /\ at[p] = "cleared" /\ Alone(p, "marking") /\ UNCHANGED <<copy, killed, writers>>
         /\ Only(dir[p], {"started"}) /\ files'[dir[p]].started = "torn"
<1>1. /\ at[p] = "cleared" /\ Alone(p, "marking") /\ UNCHANGED <<copy, killed, writers>>
      /\ Set(dir[p], "started", "torn")
  BY DEF Start, Alone, Go, TypeInv
<1>2. /\ dir[p] \in Directories /\ files[dir[p]] \in Files
      /\ files \in [Directories -> Files]
  BY <1>1, WorkerTyped
<1>3. Becomes(dir[p], [files[dir[p]] EXCEPT !.started = "torn"])
  BY <1>1, <1>2, SetBecomes DEF Marks
<1>4. /\ files'[dir[p]] = [files[dir[p]] EXCEPT !.started = "torn"]
      /\ \A c \in Directories : c # dir[p] => files'[c] = files[c]
  BY <1>2, <1>3, BecomesTyped
<1>5. /\ Keeps([files[dir[p]] EXCEPT !.started = "torn"], files[dir[p]], {"started"})
      /\ [files[dir[p]] EXCEPT !.started = "torn"].started = "torn"
  BY <1>2 DEF Keeps, Files
<1>6. QED
  BY <1>1, <1>4, <1>5, Zenon DEF Only

LEMMA MakeDirectoryEffect ==
  ASSUME TypeInv, NEW p \in Invocations, MakeDirectory(p), ~files[dir[p]].exists
  PROVE  /\ at[p] = "making" /\ Alone(p, "freezing") /\ UNCHANGED <<killed, writers>>
         /\ Only(dir[p], {"exists"}) /\ files'[dir[p]].exists = TRUE
         /\ \A c \in Confirmatory : c # dir[p] => copy'[c] = copy[c]
<1>1. /\ at[p] = "making" /\ Alone(p, "freezing") /\ UNCHANGED <<killed, writers>>
      /\ Set(dir[p], "exists", TRUE)
  BY DEF MakeDirectory, Alone, Go, TypeInv
<1>2. \A c \in Confirmatory : c # dir[p] => copy'[c] = copy[c]
  BY DEF MakeDirectory, TypeInv, TypeOK
<1>3. /\ dir[p] \in Directories /\ files[dir[p]] \in Files
      /\ files \in [Directories -> Files]
  BY <1>1, WorkerTyped
<1>4. Becomes(dir[p], [files[dir[p]] EXCEPT !.exists = TRUE])
  BY <1>1, <1>3, SetBecomes
<1>5. /\ files'[dir[p]] = [files[dir[p]] EXCEPT !.exists = TRUE]
      /\ \A c \in Directories : c # dir[p] => files'[c] = files[c]
  BY <1>3, <1>4, BecomesTyped
<1>6. /\ Keeps([files[dir[p]] EXCEPT !.exists = TRUE], files[dir[p]], {"exists"})
      /\ [files[dir[p]] EXCEPT !.exists = TRUE].exists = TRUE
  BY <1>3, FieldKept
<1>7. QED
  BY <1>1, <1>2, <1>5, <1>6, Zenon DEF Only

LEMMA WriteRowEffect ==
  ASSUME TypeInv, NEW p \in Invocations, WriteRow(p)
  PROVE  /\ at[p] = "running" /\ UNCHANGED <<at, dir, copy, killed>>
         /\ Only(dir[p], {"rows"})
         /\ files[dir[p]].rows < Rows /\ files'[dir[p]].rows = files[dir[p]].rows + 1
         /\ writers'[dir[p]] = writers[dir[p]] \cup {p}
         /\ \A c \in Directories : c # dir[p] => writers'[c] = writers[c]
<1>1. /\ at[p] = "running" /\ UNCHANGED <<at, dir, copy, killed>>
      /\ files[dir[p]].rows < Rows
      /\ writers' = [writers EXCEPT ![dir[p]] = @ \cup {p}]
  BY DEF WriteRow, StepsLeft
<1>2. /\ dir[p] \in Directories /\ files[dir[p]] \in Files
      /\ files \in [Directories -> Files] /\ writers \in [Directories -> SUBSET Invocations]
  BY <1>1, WorkerTyped DEF TypeInv, TypeOK
<1>3. Becomes(dir[p], [files[dir[p]] EXCEPT !.rows = files[dir[p]].rows + 1])
  BY FilesAfter
<1>4. /\ files'[dir[p]] = [files[dir[p]] EXCEPT !.rows = files[dir[p]].rows + 1]
      /\ \A c \in Directories : c # dir[p] => files'[c] = files[c]
  BY <1>2, <1>3, BecomesTyped
<1>5. /\ writers'[dir[p]] = writers[dir[p]] \cup {p}
      /\ \A c \in Directories : c # dir[p] => writers'[c] = writers[c]
  BY <1>1, <1>2
<1>6. /\ Keeps([files[dir[p]] EXCEPT !.rows = files[dir[p]].rows + 1], files[dir[p]], {"rows"})
      /\ [files[dir[p]] EXCEPT !.rows = files[dir[p]].rows + 1].rows = files[dir[p]].rows + 1
  BY <1>2, FieldKept
<1>7. QED
  BY <1>1, <1>4, <1>5, <1>6, Zenon DEF Only

LEMMA FinishEffect ==
  ASSUME TypeInv, NEW p \in Invocations, Finish(p)
  PROVE  /\ at[p] = "running" /\ Alone(p, "completing") /\ UNCHANGED <<copy, killed, writers>>
         /\ files[dir[p]].rows = Rows
         /\ Only(dir[p], {"completion"}) /\ files'[dir[p]].completion = "torn"
<1>1. /\ at[p] = "running" /\ Alone(p, "completing") /\ UNCHANGED <<copy, killed, writers>>
      /\ files[dir[p]].rows = Rows
  BY DEF Finish, ScheduleDone, Alone, Go, TypeInv
<1>2. dir[p] \in Directories /\ files[dir[p]] \in Files /\ files \in [Directories -> Files]
  BY <1>1, WorkerTyped
<1>3. PICK b \in BOOLEAN :
        Becomes(dir[p], [files[dir[p]] EXCEPT !.completion = "torn", !.gate = b])
  BY FilesAfter
<1>4. /\ files'[dir[p]] = [files[dir[p]] EXCEPT !.completion = "torn", !.gate = b]
      /\ \A c \in Directories : c # dir[p] => files'[c] = files[c]
  BY <1>2, <1>3, BecomesTyped
<1>5. /\ Keeps([files[dir[p]] EXCEPT !.completion = "torn", !.gate = b], files[dir[p]], {"completion"})
      /\ [files[dir[p]] EXCEPT !.completion = "torn", !.gate = b].completion = "torn"
  BY <1>2, FieldKept
<1>6. QED
  BY <1>1, <1>4, <1>5, Zenon DEF Only

LEMMA RaiseEffect ==
  ASSUME TypeInv, NEW p \in Invocations, Raise(p)
  PROVE  /\ at[p] \in {"running", "completing", "sealed"} /\ Alone(p, "raised")
         /\ UNCHANGED <<copy, killed, writers>> /\ Only(dir[p], {})
<1>1. /\ at[p] \in {"running", "completing", "sealed"} /\ Alone(p, "raised")
      /\ UNCHANGED <<copy, killed, writers>>
  BY DEF Raise, InTry, Alone, TypeInv
<1>2. dir[p] \in Directories /\ files[dir[p]] \in Files /\ files \in [Directories -> Files]
  BY <1>1, WorkerTyped
<1>3. PICK b \in BOOLEAN : Becomes(dir[p], [files[dir[p]] EXCEPT !.partial = b])
  BY FilesAfter
<1>4. /\ files'[dir[p]] = [files[dir[p]] EXCEPT !.partial = b]
      /\ \A c \in Directories : c # dir[p] => files'[c] = files[c]
  BY <1>2, <1>3, BecomesTyped
<1>5. Keeps([files[dir[p]] EXCEPT !.partial = b], files[dir[p]], {})
  BY <1>2, FieldKept
<1>6. QED
  BY <1>1, <1>4, <1>5, Zenon DEF Only

LEMMA KillEffect ==
  ASSUME TypeInv, NEW p \in Invocations, Kill(p)
  PROVE  /\ at[p] # "idle" /\ Alone(p, "idle") /\ UNCHANGED <<copy, writers>>
         /\ killed' = IF at[p] \in Owning \ {"sealed"} /\ files[dir[p]].completion # "whole"
                      THEN killed \cup {dir[p]} ELSE killed
         /\ \/ UNCHANGED files
            \/ at[p] = "running" /\ files[dir[p]].rows < Rows /\ Only(dir[p], {"torn"})
<1>1. at[p] # "idle" /\ Alone(p, "idle") /\ UNCHANGED <<copy, writers>>
  BY DEF Kill, Stop, Alone, TypeInv
<1>2. killed' = IF at[p] \in Owning \ {"sealed"} /\ files[dir[p]].completion # "whole"
                THEN killed \cup {dir[p]} ELSE killed
  <2>1. Owning \ {"sealed"} = {"marking", "running", "completing", "raised"}
    BY DEF Owning
  <2>2. QED
    BY <2>1 DEF Kill
<1>3. dir[p] \in Directories /\ files[dir[p]] \in Files /\ files \in [Directories -> Files]
  BY <1>1, WorkerTyped
<1>4. CASE UNCHANGED files
  BY <1>1, <1>2, <1>4
<1>5. CASE ~UNCHANGED files
  <2>1. /\ at[p] = "running" /\ files[dir[p]].rows < Rows
        /\ Becomes(dir[p], [files[dir[p]] EXCEPT !.torn = TRUE])
    BY <1>5, FilesAfter
  <2>2. /\ files'[dir[p]] = [files[dir[p]] EXCEPT !.torn = TRUE]
        /\ \A c \in Directories : c # dir[p] => files'[c] = files[c]
    BY <1>3, <2>1, BecomesTyped
  <2>3. Keeps([files[dir[p]] EXCEPT !.torn = TRUE], files[dir[p]], {"torn"})
    BY <1>3, FieldKept
  <2>4. Only(dir[p], {"torn"})
    BY <2>2, <2>3, Zenon DEF Only
  <2>5. QED
    BY <1>1, <1>2, <2>1, <2>4
<1>6. QED
  BY <1>4, <1>5

-----------------------------------------------------------------------------
(* The inductive invariant, one step at a time *)

LEMMA MarkKeepsInv ==
  ASSUME CohortInv, TypeInv', NEW p \in Invocations, Mark(p)
  PROVE  CohortInv'
<1>1. TypeInv /\ Holds(p)
  BY DEF CohortInv
<1>2. /\ at[p] = "marking" /\ Alone(p, "running") /\ UNCHANGED <<copy, killed, writers>>
      /\ Only(dir[p], {"started"}) /\ files'[dir[p]].started = "whole"
  BY <1>1, MarkEffect
<1>3. dir[p] \in Directories /\ Whole(dir[p])
  BY <1>1, <1>2, WorkerTyped DEF CohortInv
<1>4. \A q \in Invocations : q # p /\ dir[q] = dir[p] => at[q] \notin Owning
  BY <1>1, <1>2, <1>3 DEF CohortInv, Exclusive, Owns, Owning
<1>5. \A c \in Directories : ValidProtocol(c) => ValidProtocol(c)'
  BY <1>2, <1>3 DEF ValidProtocol, Only, Keeps
<1>6. ASSUME NEW c \in Directories PROVE Whole(c)'
  <2>1. Whole(c)
    BY DEF CohortInv
  <2>2. CASE c = dir[p]
    BY <1>1, <1>2, <1>3, <1>5, <2>2 DEF Whole, Holds, Only, Keeps, Owning
  <2>3. CASE c # dir[p]
    BY <1>2, <1>3, <1>5, <2>1, <2>3 DEF Whole, Only
  <2>4. QED
    BY <2>2, <2>3
<1>7. ASSUME NEW q \in Invocations PROVE Holds(q)'
  <2>1. CASE q = p
    BY <1>1, <1>2, <1>3, <1>5, <2>1 DEF Whole, Holds, Alone, Only, Keeps, Owning
  <2>2. CASE q # p
    <3>1. Holds(q) /\ at'[q] = at[q] /\ dir'[q] = dir[q]
      BY <1>2, <2>2 DEF CohortInv, Alone
    <3>2. at[q] # "idle" => dir[q] \in Directories
      BY <1>1 DEF TypeInv
    <3>3. CASE dir[q] = dir[p]
      BY <1>2, <1>3, <1>4, <1>5, <2>2, <3>1, <3>2, <3>3 DEF Holds, Only, Keeps, Owning
    <3>4. CASE dir[q] # dir[p]
      BY <1>2, <1>3, <1>5, <3>1, <3>2, <3>4 DEF Holds, Only, Owning
    <3>5. QED
      BY <3>3, <3>4
  <2>3. QED
    BY <2>1, <2>2
<1>8. Exclusive'
  BY <1>1, <1>2, <1>3, <1>4 DEF CohortInv, Exclusive, Owns, Whole, Alone, Owning
<1>9. QED
  BY <1>6, <1>7, <1>8 DEF CohortInv

LEMMA SealKeepsInv ==
  ASSUME CohortInv, TypeInv', NEW p \in Invocations, Seal(p)
  PROVE  CohortInv'
<1>1. TypeInv /\ Holds(p)
  BY DEF CohortInv
<1>2. /\ at[p] = "completing" /\ Alone(p, "sealed") /\ UNCHANGED <<copy, killed, writers>>
      /\ Only(dir[p], {"completion"}) /\ files'[dir[p]].completion = "whole"
  BY <1>1, SealEffect
<1>3. dir[p] \in Directories /\ Whole(dir[p])
  BY <1>1, <1>2, WorkerTyped DEF CohortInv
<1>4. \A q \in Invocations : q # p /\ dir[q] = dir[p] => at[q] \notin Owning
  BY <1>1, <1>2, <1>3 DEF CohortInv, Exclusive, Owns, Owning
<1>5. \A c \in Directories : ValidProtocol(c) => ValidProtocol(c)'
  BY <1>2, <1>3 DEF ValidProtocol, Only, Keeps
<1>6. ASSUME NEW c \in Directories PROVE Whole(c)'
  <2>1. Whole(c)
    BY DEF CohortInv
  <2>2. CASE c = dir[p]
    BY <1>1, <1>2, <1>3, <1>5, <2>2 DEF Whole, Holds, Only, Keeps, Owning
  <2>3. CASE c # dir[p]
    BY <1>2, <1>3, <1>5, <2>1, <2>3 DEF Whole, Only
  <2>4. QED
    BY <2>2, <2>3
<1>7. ASSUME NEW q \in Invocations PROVE Holds(q)'
  <2>1. CASE q = p
    BY <1>1, <1>2, <1>3, <1>5, <2>1 DEF Whole, Holds, Alone, Only, Keeps, Owning
  <2>2. CASE q # p
    <3>1. Holds(q) /\ at'[q] = at[q] /\ dir'[q] = dir[q]
      BY <1>2, <2>2 DEF CohortInv, Alone
    <3>2. at[q] # "idle" => dir[q] \in Directories
      BY <1>1 DEF TypeInv
    <3>3. CASE dir[q] = dir[p]
      BY <1>2, <1>3, <1>4, <1>5, <2>2, <3>1, <3>2, <3>3 DEF Holds, Only, Keeps, Owning
    <3>4. CASE dir[q] # dir[p]
      BY <1>2, <1>3, <1>5, <3>1, <3>2, <3>4 DEF Holds, Only, Owning
    <3>5. QED
      BY <3>3, <3>4
  <2>3. QED
    BY <2>1, <2>2
<1>8. Exclusive'
  BY <1>1, <1>2, <1>3, <1>4 DEF CohortInv, Exclusive, Owns, Whole, Alone, Owning
<1>9. QED
  BY <1>6, <1>7, <1>8 DEF CohortInv

LEMMA AbortKeepsInv ==
  ASSUME CohortInv, TypeInv', NEW p \in Invocations, Abort(p)
  PROVE  CohortInv'
<1>1. TypeInv /\ Holds(p)
  BY DEF CohortInv
<1>2. /\ at[p] = "raised" /\ Alone(p, "idle") /\ UNCHANGED <<copy, killed, writers>>
      /\ Only(dir[p], {})
  BY <1>1, AbortEffect
<1>3. dir[p] \in Directories /\ Whole(dir[p])
  BY <1>1, <1>2, WorkerTyped DEF CohortInv
<1>4. \A q \in Invocations : q # p /\ dir[q] = dir[p] => at[q] \notin Owning
  BY <1>1, <1>2, <1>3 DEF CohortInv, Exclusive, Owns, Owning
<1>5. \A c \in Directories : ValidProtocol(c) => ValidProtocol(c)'
  BY <1>2, <1>3 DEF ValidProtocol, Only, Keeps
<1>6. ASSUME NEW c \in Directories PROVE Whole(c)'
  <2>1. Whole(c)
    BY DEF CohortInv
  <2>2. CASE c = dir[p]
    BY <1>1, <1>2, <1>3, <1>5, <2>2 DEF Whole, Holds, Only, Keeps, Owning
  <2>3. CASE c # dir[p]
    BY <1>2, <1>3, <1>5, <2>1, <2>3 DEF Whole, Only
  <2>4. QED
    BY <2>2, <2>3
<1>7. ASSUME NEW q \in Invocations PROVE Holds(q)'
  <2>1. CASE q = p
    BY <1>1, <1>2, <1>3, <1>5, <2>1 DEF Whole, Holds, Alone, Only, Keeps, Owning
  <2>2. CASE q # p
    <3>1. Holds(q) /\ at'[q] = at[q] /\ dir'[q] = dir[q]
      BY <1>2, <2>2 DEF CohortInv, Alone
    <3>2. at[q] # "idle" => dir[q] \in Directories
      BY <1>1 DEF TypeInv
    <3>3. CASE dir[q] = dir[p]
      BY <1>2, <1>3, <1>4, <1>5, <2>2, <3>1, <3>2, <3>3 DEF Holds, Only, Keeps, Owning
    <3>4. CASE dir[q] # dir[p]
      BY <1>2, <1>3, <1>5, <3>1, <3>2, <3>4 DEF Holds, Only, Owning
    <3>5. QED
      BY <3>3, <3>4
  <2>3. QED
    BY <2>1, <2>2
<1>8. Exclusive'
  BY <1>1, <1>2, <1>3, <1>4 DEF CohortInv, Exclusive, Owns, Whole, Alone, Owning
<1>9. QED
  BY <1>6, <1>7, <1>8 DEF CohortInv

LEMMA WriteRowKeepsInv ==
  ASSUME CohortInv, TypeInv', NEW p \in Invocations, WriteRow(p)
  PROVE  CohortInv'
<1>1. TypeInv /\ Holds(p)
  BY DEF CohortInv
<1>2. /\ at[p] = "running" /\ UNCHANGED <<at, dir, copy, killed>>
      /\ Only(dir[p], {"rows"})
      /\ files[dir[p]].rows < Rows /\ files'[dir[p]].rows = files[dir[p]].rows + 1
      /\ writers'[dir[p]] = writers[dir[p]] \cup {p}
      /\ \A c \in Directories : c # dir[p] => writers'[c] = writers[c]
  BY <1>1, WriteRowEffect
<1>3. dir[p] \in Directories /\ Whole(dir[p])
  BY <1>1, <1>2, WorkerTyped DEF CohortInv
<1>4. \A q \in Invocations : q # p /\ dir[q] = dir[p] => at[q] \notin Owning
  BY <1>1, <1>2, <1>3 DEF CohortInv, Exclusive, Owns, Owning
<1>5. \A c \in Directories : ValidProtocol(c) => ValidProtocol(c)'
  BY <1>2, <1>3 DEF ValidProtocol, Only, Keeps
<1>6. ASSUME NEW c \in Directories PROVE Whole(c)'
  <2>1. Whole(c)
    BY DEF CohortInv
  <2>2. CASE c = dir[p]
    BY <1>1, <1>2, <1>3, <1>5, <2>2 DEF Whole, Holds, Only, Keeps, Owning
  <2>3. CASE c # dir[p]
    BY <1>2, <1>3, <1>5, <2>1, <2>3 DEF Whole, Only
  <2>4. QED
    BY <2>2, <2>3
<1>7. ASSUME NEW q \in Invocations PROVE Holds(q)'
  <2>1. CASE q = p
    BY <1>1, <1>2, <1>3, <1>5, <2>1 DEF Whole, Holds, Alone, Only, Keeps, Owning
  <2>2. CASE q # p
    <3>1. Holds(q) /\ at'[q] = at[q] /\ dir'[q] = dir[q]
      BY <1>2, <2>2 DEF CohortInv, Alone
    <3>2. at[q] # "idle" => dir[q] \in Directories
      BY <1>1 DEF TypeInv
    <3>3. CASE dir[q] = dir[p]
      BY <1>2, <1>3, <1>4, <1>5, <2>2, <3>1, <3>2, <3>3 DEF Holds, Only, Keeps, Owning
    <3>4. CASE dir[q] # dir[p]
      BY <1>2, <1>3, <1>5, <3>1, <3>2, <3>4 DEF Holds, Only, Owning
    <3>5. QED
      BY <3>3, <3>4
  <2>3. QED
    BY <2>1, <2>2
<1>8. Exclusive'
  BY <1>1, <1>2, <1>3, <1>4 DEF CohortInv, Exclusive, Owns, Whole, Alone, Owning
<1>9. QED
  BY <1>6, <1>7, <1>8 DEF CohortInv

LEMMA FinishKeepsInv ==
  ASSUME CohortInv, TypeInv', NEW p \in Invocations, Finish(p)
  PROVE  CohortInv'
<1>1. TypeInv /\ Holds(p)
  BY DEF CohortInv
<1>2. /\ at[p] = "running" /\ Alone(p, "completing") /\ UNCHANGED <<copy, killed, writers>>
      /\ files[dir[p]].rows = Rows
      /\ Only(dir[p], {"completion"}) /\ files'[dir[p]].completion = "torn"
  BY <1>1, FinishEffect
<1>3. dir[p] \in Directories /\ Whole(dir[p])
  BY <1>1, <1>2, WorkerTyped DEF CohortInv
<1>4. \A q \in Invocations : q # p /\ dir[q] = dir[p] => at[q] \notin Owning
  BY <1>1, <1>2, <1>3 DEF CohortInv, Exclusive, Owns, Owning
<1>5. \A c \in Directories : ValidProtocol(c) => ValidProtocol(c)'
  BY <1>2, <1>3 DEF ValidProtocol, Only, Keeps
<1>6. ASSUME NEW c \in Directories PROVE Whole(c)'
  <2>1. Whole(c)
    BY DEF CohortInv
  <2>2. CASE c = dir[p]
    BY <1>1, <1>2, <1>3, <1>5, <2>2 DEF Whole, Holds, Only, Keeps, Owning
  <2>3. CASE c # dir[p]
    BY <1>2, <1>3, <1>5, <2>1, <2>3 DEF Whole, Only
  <2>4. QED
    BY <2>2, <2>3
<1>7. ASSUME NEW q \in Invocations PROVE Holds(q)'
  <2>1. CASE q = p
    BY <1>1, <1>2, <1>3, <1>5, <2>1 DEF Whole, Holds, Alone, Only, Keeps, Owning
  <2>2. CASE q # p
    <3>1. Holds(q) /\ at'[q] = at[q] /\ dir'[q] = dir[q]
      BY <1>2, <2>2 DEF CohortInv, Alone
    <3>2. at[q] # "idle" => dir[q] \in Directories
      BY <1>1 DEF TypeInv
    <3>3. CASE dir[q] = dir[p]
      BY <1>2, <1>3, <1>4, <1>5, <2>2, <3>1, <3>2, <3>3 DEF Holds, Only, Keeps, Owning
    <3>4. CASE dir[q] # dir[p]
      BY <1>2, <1>3, <1>5, <3>1, <3>2, <3>4 DEF Holds, Only, Owning
    <3>5. QED
      BY <3>3, <3>4
  <2>3. QED
    BY <2>1, <2>2
<1>8. Exclusive'
  BY <1>1, <1>2, <1>3, <1>4 DEF CohortInv, Exclusive, Owns, Whole, Alone, Owning
<1>9. QED
  BY <1>6, <1>7, <1>8 DEF CohortInv

LEMMA RaiseKeepsInv ==
  ASSUME CohortInv, TypeInv', NEW p \in Invocations, Raise(p)
  PROVE  CohortInv'
<1>1. TypeInv /\ Holds(p)
  BY DEF CohortInv
<1>2. /\ at[p] \in {"running", "completing", "sealed"} /\ Alone(p, "raised")
      /\ UNCHANGED <<copy, killed, writers>> /\ Only(dir[p], {})
  BY <1>1, RaiseEffect
<1>3. dir[p] \in Directories /\ Whole(dir[p])
  BY <1>1, <1>2, WorkerTyped DEF CohortInv
<1>4. \A q \in Invocations : q # p /\ dir[q] = dir[p] => at[q] \notin Owning
  BY <1>1, <1>2, <1>3 DEF CohortInv, Exclusive, Owns, Owning
<1>5. \A c \in Directories : ValidProtocol(c) => ValidProtocol(c)'
  BY <1>2, <1>3 DEF ValidProtocol, Only, Keeps
<1>6. ASSUME NEW c \in Directories PROVE Whole(c)'
  <2>1. Whole(c)
    BY DEF CohortInv
  <2>2. CASE c = dir[p]
    BY <1>1, <1>2, <1>3, <1>5, <2>2 DEF Whole, Holds, Only, Keeps, Owning
  <2>3. CASE c # dir[p]
    BY <1>2, <1>3, <1>5, <2>1, <2>3 DEF Whole, Only
  <2>4. QED
    BY <2>2, <2>3
<1>7. ASSUME NEW q \in Invocations PROVE Holds(q)'
  <2>1. CASE q = p
    BY <1>1, <1>2, <1>3, <1>5, <2>1 DEF Whole, Holds, Alone, Only, Keeps, Owning
  <2>2. CASE q # p
    <3>1. Holds(q) /\ at'[q] = at[q] /\ dir'[q] = dir[q]
      BY <1>2, <2>2 DEF CohortInv, Alone
    <3>2. at[q] # "idle" => dir[q] \in Directories
      BY <1>1 DEF TypeInv
    <3>3. CASE dir[q] = dir[p]
      BY <1>2, <1>3, <1>4, <1>5, <2>2, <3>1, <3>2, <3>3 DEF Holds, Only, Keeps, Owning
    <3>4. CASE dir[q] # dir[p]
      BY <1>2, <1>3, <1>5, <3>1, <3>2, <3>4 DEF Holds, Only, Owning
    <3>5. QED
      BY <3>3, <3>4
  <2>3. QED
    BY <2>1, <2>2
<1>8. Exclusive'
  BY <1>1, <1>2, <1>3, <1>4 DEF CohortInv, Exclusive, Owns, Whole, Alone, Owning
<1>9. QED
  BY <1>6, <1>7, <1>8 DEF CohortInv

LEMMA KillKeepsInv ==
  ASSUME CohortInv, TypeInv', NEW p \in Invocations, Kill(p)
  PROVE  CohortInv'
<1>1. TypeInv /\ Holds(p)
  BY DEF CohortInv
<1>2. /\ at[p] # "idle" /\ Alone(p, "idle") /\ UNCHANGED <<copy, writers>>
      /\ killed' = IF at[p] \in Owning \ {"sealed"} /\ files[dir[p]].completion # "whole"
                   THEN killed \cup {dir[p]} ELSE killed
      /\ \/ UNCHANGED files
         \/ at[p] = "running" /\ files[dir[p]].rows < Rows /\ Only(dir[p], {"torn"})
  BY <1>1, KillEffect
<1>3. dir[p] \in Directories /\ Whole(dir[p])
  BY <1>1, <1>2, WorkerTyped DEF CohortInv
<1>4. at[p] \in Owning =>
        \A q \in Invocations : q # p /\ dir[q] = dir[p] => at[q] \notin Owning
  BY <1>1, <1>2, <1>3 DEF CohortInv, Exclusive, Owns, Owning
<1>5. \A c \in Directories : ValidProtocol(c) => ValidProtocol(c)'
  BY <1>2, <1>3 DEF ValidProtocol, Only, Keeps
<1>6. ASSUME NEW c \in Directories PROVE Whole(c)'
  <2>1. Whole(c)
    BY DEF CohortInv
  <2>2. CASE c = dir[p]
    BY <1>1, <1>2, <1>3, <1>5, <2>2 DEF Whole, Holds, Only, Keeps, Owning
  <2>3. CASE c # dir[p]
    BY <1>2, <1>3, <1>5, <2>1, <2>3 DEF Whole, Only
  <2>4. QED
    BY <2>2, <2>3
<1>7. ASSUME NEW q \in Invocations PROVE Holds(q)'
  <2>1. CASE q = p
    BY <1>1, <1>2, <1>3, <1>5, <2>1 DEF Whole, Holds, Alone, Only, Keeps, Owning
  <2>2. CASE q # p
    <3>1. Holds(q) /\ at'[q] = at[q] /\ dir'[q] = dir[q]
      BY <1>2, <2>2 DEF CohortInv, Alone
    <3>2. at[q] # "idle" => dir[q] \in Directories
      BY <1>1 DEF TypeInv
    <3>3. CASE dir[q] = dir[p]
      BY <1>2, <1>3, <1>4, <1>5, <2>2, <3>1, <3>2, <3>3 DEF Holds, Only, Keeps, Owning
    <3>4. CASE dir[q] # dir[p]
      BY <1>2, <1>3, <1>5, <3>1, <3>2, <3>4 DEF Holds, Only, Owning
    <3>5. QED
      BY <3>3, <3>4
  <2>3. QED
    BY <2>1, <2>2
<1>8. Exclusive'
  BY <1>1, <1>2, <1>3, <1>4 DEF CohortInv, Exclusive, Owns, Whole, Alone, Owning
<1>9. QED
  BY <1>6, <1>7, <1>8 DEF CohortInv

LEMMA FreezeKeepsInv ==
  ASSUME CohortInv, TypeInv', NEW p \in Invocations, Freeze(p)
  PROVE  CohortInv'
<1>1. TypeInv /\ Holds(p)
  BY DEF CohortInv
<1>2. /\ at[p] = "freezing" /\ Alone(p, "idle") /\ UNCHANGED <<copy, killed, writers>>
      /\ Only(dir[p], {"frozen"}) /\ files'[dir[p]].frozen = TRUE
  BY <1>1, FreezeEffect
<1>3. dir[p] \in Directories /\ Whole(dir[p])
  BY <1>1, <1>2, WorkerTyped DEF CohortInv
<1>4. \A c \in Directories : ValidProtocol(c) => ValidProtocol(c)'
  BY <1>2, <1>3 DEF ValidProtocol, Only, Keeps
<1>5. ASSUME NEW c \in Directories PROVE Whole(c)'
  <2>1. Whole(c)
    BY DEF CohortInv
  <2>2. CASE c = dir[p]
    BY <1>1, <1>2, <1>3, <1>4, <2>2 DEF Whole, Holds, Only, Keeps, Owning
  <2>3. CASE c # dir[p]
    BY <1>2, <1>3, <1>4, <2>1, <2>3 DEF Whole, Only
  <2>4. QED
    BY <2>2, <2>3
<1>6. ASSUME NEW q \in Invocations PROVE Holds(q)'
  <2>1. CASE q = p
    BY <1>1, <1>2, <1>3, <1>4, <2>1 DEF Whole, Holds, Alone, Only, Keeps, Owning
  <2>2. CASE q # p
    <3>1. Holds(q) /\ at'[q] = at[q] /\ dir'[q] = dir[q]
      BY <1>2, <2>2 DEF CohortInv, Alone
    <3>2. at[q] # "idle" => dir[q] \in Directories
      BY <1>1 DEF TypeInv
    <3>3. CASE dir[q] = dir[p]
      BY <1>2, <1>3, <1>4, <2>2, <3>1, <3>2, <3>3 DEF Holds, Only, Keeps, Owning
    <3>4. CASE dir[q] # dir[p]
      BY <1>2, <1>3, <1>4, <3>1, <3>2, <3>4 DEF Holds, Only, Owning
    <3>5. QED
      BY <3>3, <3>4
  <2>3. QED
    BY <2>1, <2>2
<1>7. Exclusive'
  BY <1>1, <1>2, <1>3 DEF CohortInv, Exclusive, Owns, Whole, Alone, Owning
<1>8. QED
  BY <1>5, <1>6, <1>7 DEF CohortInv

LEMMA StartKeepsInv ==
  ASSUME CohortInv, TypeInv', NEW p \in Invocations, Start(p), MarkerFree(dir[p])
  PROVE  CohortInv'
<1>1. TypeInv /\ Holds(p)
  BY DEF CohortInv
<1>2. /\ at[p] = "cleared" /\ Alone(p, "marking") /\ UNCHANGED <<copy, killed, writers>>
      /\ Only(dir[p], {"started"}) /\ files'[dir[p]].started = "torn"
  BY <1>1, StartEffect
<1>3. dir[p] \in Directories /\ Whole(dir[p])
  BY <1>1, <1>2, WorkerTyped DEF CohortInv
<1>4. \A q \in Invocations : dir[q] = dir[p] => at[q] \notin Owning
  BY <1>3 DEF CohortInv, Holds, MarkerFree
<1>5. \A c \in Directories : ValidProtocol(c) => ValidProtocol(c)'
  BY <1>2, <1>3 DEF ValidProtocol, Only, Keeps
<1>6. ASSUME NEW c \in Directories PROVE Whole(c)'
  <2>1. Whole(c)
    BY DEF CohortInv
  <2>2. CASE c = dir[p]
    BY <1>1, <1>2, <1>3, <1>5, <2>2 DEF Whole, Holds, Only, Keeps, Owning, MarkerFree
  <2>3. CASE c # dir[p]
    BY <1>2, <1>3, <1>5, <2>1, <2>3 DEF Whole, Only
  <2>4. QED
    BY <2>2, <2>3
<1>7. ASSUME NEW q \in Invocations PROVE Holds(q)'
  <2>1. CASE q = p
    BY <1>1, <1>2, <1>3, <1>5, <2>1 DEF Whole, Holds, Alone, Only, Keeps, Owning, MarkerFree
  <2>2. CASE q # p
    <3>1. Holds(q) /\ at'[q] = at[q] /\ dir'[q] = dir[q]
      BY <1>2, <2>2 DEF CohortInv, Alone
    <3>2. at[q] # "idle" => dir[q] \in Directories
      BY <1>1 DEF TypeInv
    <3>3. CASE dir[q] = dir[p]
      BY <1>2, <1>3, <1>4, <1>5, <2>2, <3>1, <3>2, <3>3 DEF Holds, Only, Keeps, Owning, MarkerFree
    <3>4. CASE dir[q] # dir[p]
      BY <1>2, <1>3, <1>5, <3>1, <3>2, <3>4 DEF Holds, Only, Owning
    <3>5. QED
      BY <3>3, <3>4
  <2>3. QED
    BY <2>1, <2>2
<1>8. Exclusive'
  BY <1>1, <1>2, <1>3, <1>4 DEF CohortInv, Exclusive, Owns, Whole, Alone, Owning, MarkerFree
<1>9. QED
  BY <1>6, <1>7, <1>8 DEF CohortInv

LEMMA MakeDirectoryKeepsInv ==
  ASSUME CohortInv, TypeInv', NEW p \in Invocations, MakeDirectory(p), ~files[dir[p]].exists
  PROVE  CohortInv'
<1>1. TypeInv /\ Holds(p)
  BY DEF CohortInv
<1>2. /\ at[p] = "making" /\ Alone(p, "freezing") /\ UNCHANGED <<killed, writers>>
      /\ Only(dir[p], {"exists"}) /\ files'[dir[p]].exists = TRUE
      /\ \A c \in Confirmatory : c # dir[p] => copy'[c] = copy[c]
  BY <1>1, MakeDirectoryEffect
<1>3. dir[p] \in Directories /\ Whole(dir[p])
  BY <1>1, <1>2, WorkerTyped DEF CohortInv
<1>4. \A c \in Directories : ValidProtocol(c) => ValidProtocol(c)'
  BY <1>2, <1>3 DEF ValidProtocol, Only, Keeps, Whole
<1>5. ASSUME NEW c \in Directories PROVE Whole(c)'
  <2>1. Whole(c)
    BY DEF CohortInv
  <2>2. CASE c = dir[p]
    BY <1>1, <1>2, <1>3, <1>4, <2>2 DEF Whole, Holds, Only, Keeps, Owning
  <2>3. CASE c # dir[p]
    BY <1>2, <1>3, <1>4, <2>1, <2>3 DEF Whole, Only
  <2>4. QED
    BY <2>2, <2>3
<1>6. ASSUME NEW q \in Invocations PROVE Holds(q)'
  <2>1. CASE q = p
    BY <1>1, <1>2, <1>3, <1>4, <2>1 DEF Whole, Holds, Alone, Only, Keeps, Owning
  <2>2. CASE q # p
    <3>1. Holds(q) /\ at'[q] = at[q] /\ dir'[q] = dir[q]
      BY <1>2, <2>2 DEF CohortInv, Alone
    <3>2. at[q] # "idle" => dir[q] \in Directories
      BY <1>1 DEF TypeInv
    <3>3. CASE dir[q] = dir[p]
      BY <1>2, <1>3, <1>4, <2>2, <3>1, <3>2, <3>3 DEF Holds, Only, Keeps, Owning
    <3>4. CASE dir[q] # dir[p]
      BY <1>2, <1>3, <1>4, <3>1, <3>2, <3>4 DEF Holds, Only, Owning
    <3>5. QED
      BY <3>3, <3>4
  <2>3. QED
    BY <2>1, <2>2
<1>7. Exclusive'
  BY <1>1, <1>2, <1>3 DEF CohortInv, Exclusive, Owns, Whole, Alone, Owning
<1>8. QED
  BY <1>5, <1>6, <1>7 DEF CohortInv

\* A step of an invocation that neither writes nor owns a directory after it.
LEMMA QuietKeepsInv ==
  ASSUME CohortInv, TypeInv', NEW p \in Invocations,
         UNCHANGED <<files, copy, killed, writers>>,
         \A q \in Invocations : q # p => at'[q] = at[q] /\ dir'[q] = dir[q],
         \/ at'[p] \in {"idle", "screening", "making"}
         \/ at'[p] = "cleared" /\ ValidProtocol(dir'[p])
  PROVE  CohortInv'
<1>1. \A c \in Directories \cup {dir'[p]} : ValidProtocol(c) => ValidProtocol(c)'
  BY DEF ValidProtocol
<1>2. ASSUME NEW c \in Directories PROVE Whole(c)'
  BY <1>1 DEF CohortInv, Whole
<1>3. ASSUME NEW q \in Invocations PROVE Holds(q)'
  <2>1. CASE q = p
    BY <2>1 DEF Holds, Owning, ValidProtocol
  <2>2. CASE q # p
    <3>1. Holds(q) /\ at'[q] = at[q] /\ dir'[q] = dir[q]
      BY <2>2 DEF CohortInv
    <3>2. QED
      BY <3>1 DEF Holds, ValidProtocol
  <2>3. QED
    BY <2>1, <2>2
<1>4. Exclusive'
  <2>1. ASSUME NEW q \in Invocations, NEW c, Owns(q, c)' PROVE q # p /\ Owns(q, c)
    BY <2>1 DEF Owns, Owning
  <2>2. Exclusive
    BY DEF CohortInv
  <2>3. QED
    BY <2>1, <2>2 DEF Exclusive
<1>5. QED
  BY <1>2, <1>3, <1>4 DEF CohortInv

LEMMA CohortInvStep == CohortInv /\ [Next]_vars => CohortInv'
<1> SUFFICES ASSUME CohortInv, [Next]_vars PROVE CohortInv'
  OBVIOUS
<1>1. TypeInv /\ TypeInv'
  BY TypeInvStep DEF CohortInv
<1>2. ASSUME NEW p \in Invocations, NEW d \in Directories,
             NEW e \in Development \cup {None}, Prepare(p, d, e)
      PROVE  CohortInv'
  <2>1. /\ UNCHANGED <<files, copy, killed, writers>> /\ at'[p] = "screening"
        /\ \A q \in Invocations : q # p => at'[q] = at[q] /\ dir'[q] = dir[q]
    BY <1>1, <1>2 DEF Prepare, Go, TypeInv, TypeOK
  <2>2. QED
    BY <1>1, <2>1, QuietKeepsInv
<1>3. ASSUME NEW p \in Invocations, NEW d \in Directories, Run(p, d)
      PROVE  CohortInv'
  <2>1. /\ UNCHANGED <<files, copy, killed, writers>>
        /\ at'[p] = "cleared" /\ dir'[p] = d /\ ValidProtocol(d)
        /\ \A q \in Invocations : q # p => at'[q] = at[q] /\ dir'[q] = dir[q]
    BY <1>1, <1>3 DEF Run, Go, TypeInv, TypeOK
  <2>2. QED
    BY <1>1, <2>1, QuietKeepsInv
<1>4. ASSUME NEW p \in Invocations, Screened(p)
      PROVE  CohortInv'
  <2>1. /\ UNCHANGED <<files, copy, killed, writers, dir>>
        /\ at'[p] \in {"idle", "making"}
        /\ \A q \in Invocations : q # p => at'[q] = at[q]
    BY <1>1, <1>4 DEF Screened, Go, Stop, TypeInv
  <2>2. QED
    BY <1>1, <2>1, QuietKeepsInv
<1>5. ASSUME NEW p \in Invocations, MakeDirectory(p)
      PROVE  CohortInv'
  <2>1. CASE files[dir[p]].exists
    <3>1. /\ UNCHANGED <<files, copy, killed, writers, dir>> /\ at'[p] = "idle"
          /\ \A q \in Invocations : q # p => at'[q] = at[q]
      BY <1>1, <1>5, <2>1 DEF MakeDirectory, Stop, TypeInv
    <3>2. QED
      BY <1>1, <3>1, QuietKeepsInv
  <2>2. CASE ~files[dir[p]].exists
    BY <1>1, <1>5, <2>2, MakeDirectoryKeepsInv
  <2>3. QED
    BY <2>1, <2>2
<1>6. ASSUME NEW p \in Invocations, Start(p)
      PROVE  CohortInv'
  <2>1. CASE ~MarkerFree(dir[p])
    <3>1. /\ UNCHANGED <<files, copy, killed, writers, dir>> /\ at'[p] = "idle"
          /\ \A q \in Invocations : q # p => at'[q] = at[q]
      BY <1>1, <1>6, <2>1 DEF Start, Stop, TypeInv
    <3>2. QED
      BY <1>1, <3>1, QuietKeepsInv
  <2>2. CASE MarkerFree(dir[p])
    BY <1>1, <1>6, <2>2, StartKeepsInv
  <2>3. QED
    BY <2>1, <2>2
<1>7. ASSUME NEW p \in Invocations, Leave(p)
      PROVE  CohortInv'
  <2>1. /\ UNCHANGED <<files, copy, killed, writers, dir>> /\ at'[p] = "idle"
        /\ \A q \in Invocations : q # p => at'[q] = at[q]
    BY <1>1, <1>7 DEF Leave, Go, TypeInv
  <2>2. QED
    BY <1>1, <2>1, QuietKeepsInv
<1>8. ASSUME NEW p \in Invocations,
             Freeze(p) \/ Mark(p) \/ WriteRow(p) \/ Finish(p) \/ Seal(p) \/ Abort(p)
               \/ Raise(p) \/ Kill(p)
      PROVE  CohortInv'
  BY <1>1, <1>8, FreezeKeepsInv, MarkKeepsInv, WriteRowKeepsInv, FinishKeepsInv, SealKeepsInv,
     AbortKeepsInv, RaiseKeepsInv, KillKeepsInv
<1>9. CASE UNCHANGED vars
  <2>1. /\ \A c \in Directories : Whole(c)' <=> Whole(c)
        /\ \A q \in Invocations : Holds(q)' <=> Holds(q)
        /\ Exclusive' <=> Exclusive
    BY <1>9 DEF vars, Whole, Holds, Exclusive, Owns, ValidProtocol
  <2>2. QED
    BY <1>1, <2>1 DEF CohortInv
<1>10. QED
  BY <1>2, <1>3, <1>4, <1>5, <1>6, <1>7, <1>8, <1>9 DEF Next, Proceed

LEMMA CohortInvInit == Init => CohortInv
<1> SUFFICES ASSUME Init PROVE CohortInv
  OBVIOUS
<1>1. TypeInv
  BY TypeInvInit
<1>2. ASSUME NEW c \in Directories PROVE Whole(c)
  BY DEF Init, Whole, NoFiles
<1>3. ASSUME NEW p \in Invocations PROVE Holds(p)
  BY DEF Init, Holds, Owning
<1>4. Exclusive
  BY DEF Init, Exclusive, Owns, Owning
<1>5. QED
  BY <1>1, <1>2, <1>3, <1>4 DEF CohortInv

LEMMA CohortInvariant == Spec => []CohortInv
BY CohortInvInit, CohortInvStep, PTL DEF Spec

-----------------------------------------------------------------------------
(* The promises *)

\* Whatever is killed and whoever retries, the rows of one directory come from
\* one invocation: creating started.json exclusively is enough.
THEOREM CohortOneWriter == Spec => []OneWriter
<1>1. CohortInv => OneWriter
  <2> SUFFICES ASSUME CohortInv, NEW d \in Directories
               PROVE  Cardinality(writers[d]) <= 1
    BY DEF OneWriter
  <2>1. CASE writers[d] = {}
    BY <2>1, FS_EmptySet
  <2>2. CASE writers[d] # {}
    <3>1. PICK p : writers[d] = {p}
      BY <2>2 DEF CohortInv, Exclusive
    <3>2. Cardinality({p}) = 1
      BY FS_Singleton
    <3>3. QED
      BY <3>1, <3>2
  <2>3. QED
    BY <2>1, <2>2
<1>2. QED
  BY <1>1, CohortInvariant, PTL

\* A confirmatory cohort has rows only if the development cohort that was copied
\* into it is whole, unbroken and passed its gate.
THEOREM CohortConfirmsGatedWork == Spec => []ConfirmsGatedWork
<1>1. CohortInv => ConfirmsGatedWork
  <2> SUFFICES ASSUME CohortInv, NEW d \in Confirmatory, files[d].rows > 0
               PROVE  Verifies(copy[d]) /\ copy[d].gate
    BY DEF ConfirmsGatedWork
  <2>1. d \in Directories /\ Whole(d)
    BY DEF CohortInv, Directories
  <2>2. files[d].started = "whole"
    BY <2>1 DEF Whole
  <2>3. QED
    BY <2>1, <2>2 DEF Whole, ValidProtocol
<1>2. QED
  BY <1>1, CohortInvariant, PTL

\* A completion receipt stands beside all scheduled rows, none of them torn, and
\* a whole marker.
THEOREM CohortVerifiedIsWhole == Spec => []VerifiedIsWhole
<1>1. CohortInv => VerifiedIsWhole
  BY DEF CohortInv, Whole, VerifiedIsWhole
<1>2. QED
  BY <1>1, CohortInvariant, PTL

\* A cohort whose run was killed before its completion verifies never again.
THEOREM CohortBrokenNeverVerifies == Spec => []BrokenNeverVerifies
<1>1. CohortInv => BrokenNeverVerifies
  BY DEF CohortInv, TypeInv, TypeOK, Whole, BrokenNeverVerifies, Verifies, Full
<1>2. QED
  BY <1>1, CohortInvariant, PTL

-----------------------------------------------------------------------------
(* The transcript of a cohort and its replay: Transcript, with the step        *)
(* program of StepCalls, for any budget, texts, steps and components.          *)

LEMMA TapeLimits ==
  /\ Budget \in Nat \ {0} /\ Answers \subseteq Nat \ {0}
  /\ Steps \in Nat \ {0} /\ Components \in Nat
BY BudgetAssumption, AnswersAssumption, StepsAssumption, ComponentsAssumption

Stages == {"check", "card", "actor", "draft", "action", "braces", "represent", "memory",
           "cap", "decode", "recount", "none", "store", "done", "raised"}
Texts == [kind: {"empty", "ledger", "card", "summary"}, from: Nat, left: Int, decoded: Nat]
StepStates == [policy: Policies, memory: Texts, index: Nat, stage: Stages,
               draft: Nat, action: Nat, after: Texts, size: Nat]
Calls == [method: {"tokenize", "detokenize"} \cup Completions, text: Texts,
          index: Nat, draft: Nat]
Recordings == [op: Calls, answer: Nat]

LEMMA TextsTyped ==
  /\ Empty \in Texts /\ Braces \in Texts
  /\ \A x \in Nat, y \in Int : Ledger(x, y) \in Texts
  /\ \A m \in Texts : Text("card", m.from, m.left) \in Texts
  /\ \A x \in Nat : Text("summary", x, 0) \in Texts
  /\ \A m \in Texts : m.from \in Nat /\ m.left \in Int
BY DEF Texts, Empty, Braces, Ledger, Text

(* How a step moves: to stage st, with text x to come after it. *)
Goes(s, t, st, x) ==
  /\ t \in StepStates
  /\ t.policy = s.policy /\ t.memory = s.memory /\ t.index = s.index
  /\ t.stage = st /\ t.after = x

LEMMA FieldsTyped ==
  ASSUME NEW s \in StepStates
  PROVE  /\ s.policy \in Policies /\ s.memory \in Texts /\ s.after \in Texts
         /\ s.index \in Nat /\ s.draft \in Nat /\ s.action \in Nat /\ s.size \in Nat
         /\ s.stage \in Stages
BY DEF StepStates

LEMMA AtGoes ==
  ASSUME NEW s \in StepStates, NEW st \in Stages
  PROVE  Goes(s, At(s, st), st, s.after)
BY DEF Goes, StepStates, At

LEMMA PutGoes ==
  ASSUME NEW s \in StepStates, NEW st \in Stages, NEW x \in Texts
  PROVE  Goes(s, [At(s, st) EXCEPT !.after = x], st, x)
<1>1. Goes(s, At(s, st), st, s.after)
  BY AtGoes
<1> DEFINE t == At(s, st)
<1> HIDE DEF t
<1>2. t \in StepStates
  BY <1>1 DEF t, Goes
<1>3. Goes(t, [t EXCEPT !.after = x], t.stage, x)
  BY <1>2 DEF Goes, StepStates
<1> QED  BY <1>1, <1>3 DEF Goes, t

LEMMA AskTyped ==
  ASSUME NEW s \in StepStates, ~Ended(s)
  PROVE  Ask(s) \in Calls
<1>1. s.stage \in Stages \ {"done", "raised"} /\ s.memory \in Texts /\ s.after \in Texts
      /\ s.index \in Nat /\ s.draft \in Nat /\ s.action \in Nat
  BY FieldsTyped DEF Ended
<1>2. ActorMemory(s) \in Texts
  BY <1>1, TextsTyped DEF ActorMemory
<1>3. \A x \in Texts : Tokenize(x) \in Calls /\ Detokenize(x) \in Calls
  BY DEF Tokenize, Detokenize, Operation, Calls
<1>4. \A w \in Completions, x \in Texts, i \in Nat, d \in Nat : Complete(w, x, i, d) \in Calls
  BY DEF Complete, Operation, Calls
<1>5. "draft" \in Completions /\ "action" \in Completions /\ "memory" \in Completions
      /\ Empty \in Texts /\ Braces \in Texts /\ 0 \in Nat
  BY TextsTyped DEF Completions
<1> QED
  BY <1>1, <1>2, <1>3, <1>4, <1>5 DEF Ask, Stages

(* Every way a step goes on with an answer. *)
Moves(s, a, t) ==
  \/ Goes(s, t, "raised", s.after)
  \/ s.stage = "check" /\ a <= Budget /\ Goes(s, t, "card", s.after)
  \/ s.stage = "card" /\ a <= Budget /\ Goes(s, t, "actor", s.after)
  \/ s.stage = "actor" /\ a <= Budget /\ Goes(s, t, "draft", s.after)
  \/ s.stage = "draft" /\ Goes(s, t, "action", s.after)
  \/ s.stage = "action" /\ \E st \in {"store", "memory", "braces"} : Goes(s, t, st, s.after)
  \/ s.stage = "braces" /\ a <= Budget
       /\ \E x, y \in Int : Goes(s, t, "represent", Ledger(x, y))
  \/ s.stage = "represent" /\ \E x, y \in Int : Goes(s, t, "represent", Ledger(x, y))
  \/ s.stage = "memory" /\ \E x \in Texts : Goes(s, t, "cap", x)
  \/ s.stage \in {"cap", "recount", "represent"} /\ a <= Budget /\ Goes(s, t, "store", s.after)
  \/ s.stage \in {"cap", "recount"} /\ Goes(s, t, "none", Empty)
  \/ s.stage \in {"cap", "recount"} /\ \E x \in Texts : Goes(s, t, "decode", x)
  \/ s.stage = "decode" /\ \E x \in Texts : Goes(s, t, "recount", x)
  \/ s.stage = "none" /\ Goes(s, t, "store", s.after)
  \/ s.stage = "store" /\ a <= Budget /\ Goes(s, t, "done", s.after)

LEMMA RetainMoves ==
  ASSUME NEW s \in StepStates, NEW n \in Int
  PROVE  \/ Goes(s, Retain(s, n), "none", Empty)
         \/ \E x \in Texts : Goes(s, Retain(s, n), "decode", x)
<1>1. CASE n = 0
  BY <1>1, PutGoes, TextsTyped DEF Retain, Stages
<1>2. CASE n # 0
  <2> DEFINE t == At(s, "decode")
             x == [[t.after EXCEPT !.left = n] EXCEPT !.decoded = 0]
  <2>1. Goes(s, t, "decode", s.after) /\ t \in StepStates
    BY AtGoes DEF Stages, Goes
  <2> HIDE DEF t
  <2>2. x \in Texts
    <3>1. t.after \in Texts
      BY <2>1, FieldsTyped
    <3> DEFINE y == [t.after EXCEPT !.left = n]
    <3>2. y \in Texts
      BY <3>1 DEF Texts
    <3> HIDE DEF y
    <3>3. [y EXCEPT !.decoded = 0] \in Texts
      BY <3>2 DEF Texts
    <3> QED  BY <3>3 DEF y
  <2>3. Retain(s, n) = [[t EXCEPT !.after.left = n] EXCEPT !.after.decoded = 0]
    BY <1>2 DEF Retain, t
  <2>4. [[t EXCEPT !.after.left = n] EXCEPT !.after.decoded = 0] = [t EXCEPT !.after = x]
    BY <2>1 DEF StepStates, Texts
  <2> HIDE DEF x
  <2>5. Goes(t, [t EXCEPT !.after = x], t.stage, x)
    BY <2>1, <2>2 DEF Goes, StepStates
  <2>6. Goes(s, Retain(s, n), "decode", x)
    BY <2>1, <2>3, <2>4, <2>5 DEF Goes
  <2> QED  BY <2>2, <2>6
<1> QED  BY <1>1, <1>2

LEMMA TextFields ==
  ASSUME NEW m \in Texts
  PROVE  m.from \in Nat /\ m.left \in Int /\ m.left + 1 \in Int /\ m.left - 1 \in Int
<1>1. m.from \in Nat /\ m.left \in Int
  BY DEF Texts
<1> QED  BY <1>1

LEMMA LedgerTyped ==
  ASSUME NEW x \in Nat, NEW y \in Int
  PROVE  Ledger(x, y) \in Texts
BY TextsTyped

LEMMA TakeMoves ==
  ASSUME NEW s \in StepStates, ~Ended(s), NEW a \in Nat
  PROVE  Moves(s, a, Take(s, a))
<1> DEFINE t == Take(s, a)
<1>1. s.stage \in Stages \ {"done", "raised"} /\ s.memory \in Texts /\ s.after \in Texts
      /\ s.index \in Nat /\ s.draft \in Nat /\ s.action \in Nat
  BY FieldsTyped DEF Ended
<1>2. \A st \in Stages : Goes(s, At(s, st), st, s.after)
  BY AtGoes
<1>3. \A st \in Stages, x \in Texts : Goes(s, [At(s, st) EXCEPT !.after = x], st, x)
  BY PutGoes
<1>4. CASE ~Contract(s, a)
  BY <1>2, <1>4 DEF Take, Moves, Stages
<1>5. CASE Contract(s, a)
  <2>1. \A st \in Stages : \/ a <= Budget /\ Goes(s, Fitting(s, a, st), st, s.after)
                           \/ Goes(s, Fitting(s, a, st), "raised", s.after)
    BY <1>2, TapeLimits DEF Fitting, Stages
  <2>2. CASE s.stage = "check"
    <3>1. t = Fitting(s, a, "card")
      BY <1>5, <2>2 DEF Take
    <3> QED  BY <2>1, <2>2, <3>1 DEF Moves, Stages
  <2>3. CASE s.stage = "card"
    <3>1. t = Fitting(s, a, "actor")
      BY <1>5, <2>3 DEF Take
    <3> QED  BY <2>1, <2>3, <3>1 DEF Moves, Stages
  <2>4. CASE s.stage = "actor"
    <3>1. t = Fitting(s, a, "draft")
      BY <1>5, <2>4 DEF Take
    <3> QED  BY <2>1, <2>4, <3>1 DEF Moves, Stages
  <2>5. CASE s.stage = "draft"
    <3>1. t = [At(s, "action") EXCEPT !.draft = a]
      BY <1>5, <2>5 DEF Take
    <3> DEFINE u == At(s, "action")
    <3>2. Goes(s, u, "action", s.after)
      BY <1>2 DEF Stages
    <3> HIDE DEF u
    <3>3. Goes(s, [u EXCEPT !.draft = a], "action", s.after)
      BY <3>2 DEF Goes, StepStates
    <3> QED  BY <2>5, <3>1, <3>3 DEF Moves, u
  <2>6. CASE s.stage = "action"
    <3> DEFINE u == [s EXCEPT !.action = a]
    <3>1. t = AfterAction(u)
      BY <1>5, <2>6 DEF Take
    <3>2. Goes(s, u, s.stage, s.after)
      BY DEF Goes, StepStates
    <3> HIDE DEF u
    <3>3. \A st \in Stages : Goes(u, At(u, st), st, u.after)
      BY <3>2, AtGoes DEF Goes
    <3>4. \E st \in {"store", "memory", "braces"} : AfterAction(u) = At(u, st)
      BY DEF AfterAction
    <3> QED  BY <2>6, <3>1, <3>2, <3>3, <3>4 DEF Moves, Goes, Stages
  <2>7. CASE s.stage = "braces"
    <3>1. t = IF a <= Budget THEN AfterIngest(s) ELSE At(s, "raised")
      BY <1>5, <2>7 DEF Take
    <3>2. CASE a <= Budget
      <4>1. PICK n \in Int : AfterIngest(s)
                               = [At(s, "represent") EXCEPT !.after = Ledger(s.action, n)]
        <5>1. s.memory.left + 1 \in Int
          BY <1>1, TextFields
        <5>2. Components \in Int /\ 1 \in Int
          BY ComponentsAssumption
        <5> QED  BY <5>1, <5>2 DEF AfterIngest
      <4>2. Ledger(s.action, n) \in Texts /\ "represent" \in Stages
        BY <1>1, LedgerTyped DEF Stages
      <4>3. Goes(s, t, "represent", Ledger(s.action, n))
        BY <1>3, <3>1, <3>2, <4>1, <4>2
      <4> QED  BY <1>1, <2>7, <3>2, <4>3 DEF Moves
    <3>3. CASE ~(a <= Budget)
      BY <1>2, <3>1, <3>3 DEF Moves, Stages
    <3> QED  BY <3>2, <3>3
  <2>8. CASE s.stage = "represent"
    <3>1. t = AfterRepresent(s, a)
      BY <1>5, <2>8 DEF Take
    <3>2. CASE a <= Budget
      BY <1>2, <2>8, <3>1, <3>2 DEF AfterRepresent, Moves, Stages
    <3>3. CASE ~(a <= Budget) /\ s.after.left = 0
      BY <1>2, <3>1, <3>3 DEF AfterRepresent, Moves, Stages
    <3>4. CASE ~(a <= Budget) /\ s.after.left # 0
      <4> DEFINE x == Ledger(s.after.from, s.after.left - 1)
      <4>1. t = [s EXCEPT !.after = x]
        BY <3>1, <3>4 DEF AfterRepresent
      <4>2. s.after.from \in Nat /\ s.after.left - 1 \in Int
        BY <1>1, TextFields
      <4>3. x \in Texts
        BY <4>2, LedgerTyped
      <4> HIDE DEF x
      <4>4. Goes(s, t, s.stage, x)
        BY <4>1, <4>3 DEF Goes, StepStates
      <4> QED  BY <2>8, <4>2, <4>4 DEF Moves, x
    <3> QED  BY <3>2, <3>3, <3>4
  <2>9. CASE s.stage = "memory"
    <3>1. t = [At(s, "cap") EXCEPT !.after = Text("summary", a, 0)]
      BY <1>5, <2>9 DEF Take
    <3>2. Text("summary", a, 0) \in Texts /\ "cap" \in Stages
      BY TextsTyped DEF Stages
    <3> QED  BY <1>3, <2>9, <3>1, <3>2 DEF Moves
  <2>10. CASE s.stage \in {"cap", "recount"}
    <3>1. \E n \in Int : t = IF a <= Budget THEN At(s, "store") ELSE Retain(s, n)
      <4>1. Budget \in Int /\ s.after.left - 1 \in Int
        BY <1>1, TextFields, BudgetAssumption
      <4> QED  BY <1>5, <2>10, <4>1 DEF Take, AfterCap, AfterRecount
    <3> QED  BY <1>2, <2>10, <3>1, RetainMoves DEF Moves, Stages
  <2>11. CASE s.stage = "decode"
    <3> DEFINE u == At(s, "recount")
               x == [u.after EXCEPT !.decoded = a]
    <3>1. t = [u EXCEPT !.after.decoded = a]
      BY <1>5, <2>11 DEF Take, AfterDecode
    <3>2. Goes(s, u, "recount", s.after) /\ u \in StepStates /\ u.after \in Texts
      BY <1>1, <1>2 DEF Stages, Goes
    <3> HIDE DEF u
    <3>3. x \in Texts
      BY <3>2 DEF Texts
    <3>4. [u EXCEPT !.after.decoded = a] = [u EXCEPT !.after = x]
      BY <3>2 DEF StepStates
    <3> HIDE DEF x
    <3>5. Goes(s, [u EXCEPT !.after = x], "recount", x)
      BY <3>2, <3>3 DEF Goes, StepStates
    <3> QED  BY <2>11, <3>1, <3>3, <3>4, <3>5 DEF Moves
  <2>12. CASE s.stage = "none"
    <3>1. t = IF a = 0 THEN At(s, "store") ELSE At(s, "raised")
      BY <1>5, <2>12 DEF Take
    <3> QED  BY <1>2, <2>12, <3>1 DEF Moves, Stages
  <2>13. CASE s.stage = "store"
    <3> DEFINE u == Fitting(s, a, "done")
    <3>1. t = [u EXCEPT !.size = a]
      BY <1>5, <2>13 DEF Take
    <3>2. \/ a <= Budget /\ Goes(s, u, "done", s.after)
          \/ Goes(s, u, "raised", s.after)
      BY <2>1 DEF Stages
    <3> HIDE DEF u
    <3>3. u \in StepStates
      BY <3>2 DEF Goes
    <3>4. Goes(u, t, u.stage, u.after)
      BY <3>1, <3>3 DEF Goes, StepStates
    <3> QED  BY <2>13, <3>2, <3>4 DEF Moves, Goes
  <2> QED
    BY <1>1, <2>2, <2>3, <2>4, <2>5, <2>6, <2>7, <2>8, <2>9, <2>10, <2>11, <2>12, <2>13
    DEF Stages
<1> QED  BY <1>4, <1>5

-----------------------------------------------------------------------------
(* Replay as a chain: what the step is after i of the recorded operations. *)

Latest(S) == CHOOSE x \in S : \A y \in S : x >= y
ReplayStep(e, s) == Replay(s, e)
Replaying == INSTANCE FoldLemmas WITH op <- ReplayStep, pick <- Latest

After(es, base, i) == Replaying!Fold(es, base, 1..i)
Replayed(base, es) == FoldLeft(Replay, base, es)

LEMMA ReplayChain ==
  ASSUME NEW es \in Seq(Recordings), NEW base
  PROVE  /\ After(es, base, 0) = base
         /\ \A i \in 1..Len(es) : After(es, base, i) = Replay(After(es, base, i - 1), es[i])
         /\ Replayed(base, es) = After(es, base, Len(es))
<1> DEFINE n == Len(es)
<1>1. n \in Nat /\ DOMAIN es = 1..n
  OBVIOUS
<1>2. \A t \in SUBSET (1..n) : Latest(t) = CHOOSE x \in t : \A y \in t : x >= y
  BY DEF Latest
<1> HIDE DEF n
<1>3. Replaying!IsChain(es, base, n)
  BY <1>1, <1>2, Replaying!FoldChain
<1>4. Replayed(base, es) = Replaying!Fold(es, base, DOMAIN es)
  BY DEF Replayed, FoldLeft, MapThenFoldSet, Replaying!Fold, Replaying!Solves,
         Replaying!Step, ReplayStep, Latest, Max
<1> QED  BY <1>1, <1>3, <1>4 DEF n, Replaying!IsChain, After, ReplayStep

LEMMA ReplayNext ==
  ASSUME NEW es \in Seq(Recordings), NEW base, NEW i \in 1..Len(es)
  PROVE  After(es, base, i) = Replay(After(es, base, i - 1), es[i])
<1>1. \A j \in 1..Len(es) : After(es, base, j) = Replay(After(es, base, j - 1), es[j])
  BY ReplayChain
<1> QED  BY <1>1, Zenon

\* Replaying one more operation goes on from where the replay was.
LEMMA ReplayAppend ==
  ASSUME NEW es \in Seq(Recordings), NEW base, NEW e \in Recordings
  PROVE  Replayed(base, Append(es, e)) = Replay(Replayed(base, es), e)
<1> DEFINE n == Len(es)
           fs == Append(es, e)
<1>1. n \in Nat /\ fs \in Seq(Recordings) /\ Len(fs) = n + 1 /\ fs[n + 1] = e
      /\ \A i \in 1..n : fs[i] = es[i]
  OBVIOUS
<1>2. \A t \in SUBSET (1..n) : Latest(t) = CHOOSE x \in t : \A y \in t : x >= y
  BY DEF Latest
<1> HIDE DEF n, fs
<1>3. Replaying!IsFiniteSet(1..n) /\ Replaying!Picks(1..n)
  BY <1>1, <1>2, Replaying!LastPicks
<1>4. After(fs, base, n) = After(es, base, n)
  BY <1>1, <1>3, Replaying!FoldSame DEF After
<1>5. After(fs, base, n + 1) = Replay(After(fs, base, n), fs[n + 1])
  <2>1. n + 1 \in 1..Len(fs) /\ n + 1 - 1 = n
    BY <1>1
  <2> QED  BY <1>1, <2>1, ReplayChain
<1>6. Replayed(base, es) = After(es, base, n) /\ Replayed(base, fs) = After(fs, base, n + 1)
  BY <1>1, ReplayChain DEF n
<1> QED  BY <1>1, <1>4, <1>5, <1>6 DEF fs

LEMMA ReplayKeeps ==
  ASSUME NEW s \in StepStates, NEW e \in Recordings
  PROVE  /\ \E st \in Stages, x \in Texts : Goes(s, Replay(s, e), st, x)
         /\ Ended(s) => Replay(s, e).stage = "raised"
         /\ ~Ended(s) => \/ Replay(s, e).stage = "raised"
                           \/ /\ e.op = Ask(s)
                              /\ Replay(s, e) = Take(s, e.answer)
<1>1. e.answer \in Nat
  BY DEF Recordings
<1>2. s.after \in Texts /\ "raised" \in Stages
  BY FieldsTyped DEF Stages
<1>3. Goes(s, At(s, "raised"), "raised", s.after)
  BY <1>2, AtGoes
<1>4. CASE Ended(s)
  BY <1>2, <1>3, <1>4 DEF Replay, Unused, Goes
<1>5. CASE ~Ended(s) /\ ~SameCall(e, Ask(s))
  BY <1>2, <1>3, <1>5 DEF Replay, Goes
<1>6. CASE ~Ended(s) /\ SameCall(e, Ask(s))
  <2>1. Replay(s, e) = Take(s, e.answer)
    BY <1>6 DEF Replay
  <2>2. Moves(s, e.answer, Take(s, e.answer))
    BY <1>1, <1>6, TakeMoves
  <2>3. \E st \in Stages, x \in Texts : Goes(s, Take(s, e.answer), st, x)
    <3>1. Take(s, e.answer) \in StepStates
      BY <2>2 DEF Moves, Goes
    <3>2. /\ Take(s, e.answer).policy = s.policy /\ Take(s, e.answer).memory = s.memory
          /\ Take(s, e.answer).index = s.index
      BY <2>2 DEF Moves, Goes
    <3> QED  BY <3>1, <3>2, FieldsTyped DEF Goes
  <2> QED  BY <1>6, <2>1, <2>3 DEF SameCall
<1> QED  BY <1>4, <1>5, <1>6

LEMMA ReplayTyped ==
  ASSUME NEW es \in Seq(Recordings), NEW base \in StepStates
  PROVE  \A i \in 0..Len(es) : /\ After(es, base, i) \in StepStates
                               /\ After(es, base, i).policy = base.policy
                               /\ After(es, base, i).memory = base.memory
                               /\ After(es, base, i).index = base.index
<1> DEFINE Good(s) == /\ s \in StepStates /\ s.policy = base.policy
                      /\ s.memory = base.memory /\ s.index = base.index
           Reached == {i \in 0..Len(es) : Good(After(es, base, i))}
<1>1. Len(es) \in Nat /\ \A i \in 1..Len(es) : es[i] \in Recordings
  OBVIOUS
<1>2. 0 \in Reached
  BY <1>1, ReplayChain
<1>3. ASSUME NEW i \in 1..Len(es), i - 1 \in Reached  PROVE i \in Reached
  <2>1. Good(After(es, base, i - 1)) /\ es[i] \in Recordings
    BY <1>1, <1>3
  <2>2. After(es, base, i) = Replay(After(es, base, i - 1), es[i])
    BY ReplayNext
  <2>3. Good(Replay(After(es, base, i - 1), es[i]))
    BY <2>1, ReplayKeeps DEF Goes
  <2> QED  BY <2>2, <2>3
<1> HIDE DEF Reached
<1>4. \A i \in 0..Len(es) : i \in Reached
  BY <1>1, <1>2, <1>3, Replaying!StepsInduction
<1> QED  BY <1>4 DEF Reached

-----------------------------------------------------------------------------
(* A log that replays is a recording. *)

RerecordStep(e, r) == Rerecord(r, e)
Recording == INSTANCE FoldLemmas WITH op <- RerecordStep, pick <- Latest

Taped(es, base, i) == Recording!Fold(es, base, 1..i)
Rerecorded(base, es) == FoldLeft(Rerecord, base, es)

LEMMA RerecordChain ==
  ASSUME NEW es \in Seq(Recordings), NEW base
  PROVE  /\ Taped(es, base, 0) = base
         /\ \A i \in 1..Len(es) : Taped(es, base, i) = Rerecord(Taped(es, base, i - 1), es[i])
         /\ Rerecorded(base, es) = Taped(es, base, Len(es))
<1> DEFINE n == Len(es)
<1>1. n \in Nat /\ DOMAIN es = 1..n
  OBVIOUS
<1>2. \A t \in SUBSET (1..n) : Latest(t) = CHOOSE x \in t : \A y \in t : x >= y
  BY DEF Latest
<1> HIDE DEF n
<1>3. Recording!IsChain(es, base, n)
  BY <1>1, <1>2, Recording!FoldChain
<1>4. Rerecorded(base, es) = Recording!Fold(es, base, DOMAIN es)
  BY DEF Rerecorded, FoldLeft, MapThenFoldSet, Recording!Fold, Recording!Solves,
         Recording!Step, RerecordStep, Latest, Max
<1> QED  BY <1>1, <1>3, <1>4 DEF n, Recording!IsChain, Taped, RerecordStep

LEMMA RerecordNext ==
  ASSUME NEW es \in Seq(Recordings), NEW base, NEW i \in 1..Len(es)
  PROVE  Taped(es, base, i) = Rerecord(Taped(es, base, i - 1), es[i])
<1>1. \A j \in 1..Len(es) : Taped(es, base, j) = Rerecord(Taped(es, base, j - 1), es[j])
  BY RerecordChain
<1> QED  BY <1>1, Zenon

Start0(s) == [step |-> s, events |-> <<>>]

\* Until an operation differs, the replayed step is the one that a recorder
\* would be in, having recorded what was replayed; a step that raised stays so.
LEMMA ReplayIsRecording ==
  ASSUME NEW es \in Seq(Recordings), NEW base \in StepStates
  PROVE  \A i \in 0..Len(es) :
           \/ After(es, base, i).stage = "raised"
           \/ Taped(es, Start0(base), i)
                = [step |-> After(es, base, i), events |-> SubSeq(es, 1, i)]
<1> DEFINE Alike(i) == \/ After(es, base, i).stage = "raised"
                       \/ Taped(es, Start0(base), i)
                            = [step |-> After(es, base, i), events |-> SubSeq(es, 1, i)]
           Reached == {i \in 0..Len(es) : Alike(i)}
<1>1. Len(es) \in Nat /\ \A i \in 1..Len(es) : es[i] \in Recordings
  OBVIOUS
<1>2. Alike(0)
  <2>1. SubSeq(es, 1, 0) = <<>>
    OBVIOUS
  <2> QED  BY <2>1, ReplayChain, RerecordChain DEF Start0
<1>3. ASSUME NEW i \in 1..Len(es), Alike(i - 1)  PROVE Alike(i)
  <2> DEFINE s == After(es, base, i - 1)
             r == Taped(es, Start0(base), i - 1)
  <2>1. s \in StepStates /\ es[i] \in Recordings
    BY <1>1, ReplayTyped
  <2>2. /\ After(es, base, i) = Replay(s, es[i])
        /\ Taped(es, Start0(base), i) = Rerecord(r, es[i])
    BY ReplayNext, RerecordNext
  <2> HIDE DEF s, r
  <2>3. CASE Ended(s)
    BY <2>1, <2>2, <2>3, ReplayKeeps
  <2>4. CASE ~Ended(s) /\ Replay(s, es[i]).stage # "raised"
    <3>1. es[i].op = Ask(s) /\ Replay(s, es[i]) = Take(s, es[i].answer)
      BY <2>1, <2>4, ReplayKeeps
    <3>2. s.stage # "raised"
      BY <2>4 DEF Ended
    <3>3. r = [step |-> s, events |-> SubSeq(es, 1, i - 1)]
      BY <1>3, <3>2 DEF s, r
    <3>4. Rerecord(r, es[i])
            = [step |-> Take(s, es[i].answer),
               events |-> Append(SubSeq(es, 1, i - 1),
                                 [op |-> Ask(s), answer |-> es[i].answer])]
      BY <2>4, <3>3 DEF Rerecord
    <3>5. es[i] = [op |-> Ask(s), answer |-> es[i].answer]
      BY <2>1, <3>1 DEF Recordings
    <3>6. SubSeq(es, 1, i) = Append(SubSeq(es, 1, i - 1), es[i])
      BY <1>1
    <3> QED  BY <2>2, <3>1, <3>4, <3>5, <3>6
  <2>5. CASE Replay(s, es[i]).stage = "raised"
    BY <2>2, <2>5
  <2> QED  BY <2>3, <2>4, <2>5
<1> HIDE DEF Alike
<1>4. 0 \in Reached /\ \A i \in 1..Len(es) : i - 1 \in Reached => i \in Reached
  BY <1>1, <1>2, <1>3
<1>5. \A i \in 0..Len(es) : i \in Reached
  <2> HIDE DEF Reached
  <2> QED  BY <1>1, <1>4, Replaying!StepsInduction
<1> QED  BY <1>5 DEF Alike

-----------------------------------------------------------------------------
(* Rows.  A row holds the hash of the row before it, and a hash is content,   *)
(* so rows have a shape but no set; a log is a sequence of such rows.         *)

IsRow(row) ==
  LET c == row.content IN
  /\ row = [content |-> c, sha |-> row.sha]
  /\ c = [policy |-> c.policy, index |-> c.index, core |-> c.core,
          events |-> c.events, previous |-> c.previous]
  /\ c.core.after \in Texts /\ c.events \in Seq(Recordings)

Elements(s) == {s[i] : i \in DOMAIN s}
IsLog(rows) == rows \in Seq(Elements(rows)) /\ \A r \in Elements(rows) : IsRow(r)

LEMMA LogOf ==
  ASSUME NEW S, \A r \in S : IsRow(r), NEW rows \in Seq(S)
  PROVE  IsLog(rows)
<1>1. \A i \in 1..Len(rows) : rows[i] \in S
  OBVIOUS
<1>2. rows = [i \in 1..Len(rows) |-> rows[i]] /\ DOMAIN rows = 1..Len(rows) /\ Len(rows) \in Nat
  OBVIOUS
<1>3. rows \in Seq(Elements(rows))
  <2>1. \A i \in 1..Len(rows) : rows[i] \in Elements(rows)
    BY <1>2 DEF Elements
  <2> DEFINE R == Elements(rows)
  <2> HIDE DEF R
  <2>2. \A i \in 1..Len(rows) : rows[i] \in R
    BY <2>1 DEF R
  <2>3. rows \in Seq(R)
    BY <1>2, <2>2
  <2> QED  BY <2>3 DEF R
<1> QED  BY <1>1, <1>2, <1>3 DEF IsLog, Elements

LEMMA LogIs ==
  ASSUME NEW rows, IsLog(rows)
  PROVE  /\ Len(rows) \in Nat /\ DOMAIN rows = 1..Len(rows)
         /\ \A i \in 1..Len(rows) : IsRow(rows[i])
<1>1. \A S : rows \in Seq(S) => Len(rows) \in Nat /\ DOMAIN rows = 1..Len(rows)
  OBVIOUS
<1> QED  BY <1>1 DEF IsLog, Elements

LEMMA NoRowsLog == IsLog(<<>>)
<1>1. <<>> \in Seq({}) /\ \A r \in {} : IsRow(r)
  OBVIOUS
<1> QED  BY <1>1, LogOf

LEMMA LogGrows ==
  ASSUME NEW rows, IsLog(rows), NEW r, IsRow(r)
  PROVE  /\ IsLog(Append(rows, r))
         /\ Len(Append(rows, r)) = Len(rows) + 1
         /\ Append(rows, r)[Len(rows) + 1] = r
         /\ \A i \in 1..Len(rows) : Append(rows, r)[i] = rows[i]
<1> DEFINE S == Elements(rows) \cup {r}
<1>1. rows \in Seq(S) /\ r \in S /\ \A x \in S : IsRow(x)
  <2>1. rows \in Seq(Elements(rows))
    BY DEF IsLog
  <2>2. \A A, B : A \subseteq B /\ rows \in Seq(A) => rows \in Seq(B)
    OBVIOUS
  <2> QED  BY <2>1, <2>2 DEF IsLog
<1> HIDE DEF S
<1>2. \A s \in Seq(S) : /\ Append(s, r) \in Seq(S) /\ Len(Append(s, r)) = Len(s) + 1
                        /\ Append(s, r)[Len(s) + 1] = r
                        /\ \A i \in 1..Len(s) : Append(s, r)[i] = s[i]
  BY <1>1
<1>3. IsLog(Append(rows, r))
  BY <1>1, <1>2, LogOf
<1> QED  BY <1>1, <1>2, <1>3

-----------------------------------------------------------------------------
(* Damage leaves a log a log. *)

\* Losing, doubling or swapping elements, or exchanging one for another.
LEMMA EditsOf ==
  ASSUME NEW S, NEW s \in Seq(S)
  PROVE  /\ \A i \in DOMAIN s : Without(s, i) \in Seq(S) /\ Twice(s, i) \in Seq(S)
         /\ \A i \in 1..(Len(s) - 1) : Swapped(s, i) \in Seq(S)
         /\ \A i \in DOMAIN s, e \in S : [s EXCEPT ![i] = e] \in Seq(S)
<1>1. Len(s) \in Nat /\ DOMAIN s = 1..Len(s) /\ \A i \in 1..Len(s) : s[i] \in S
  OBVIOUS
<1>2. ASSUME NEW i \in DOMAIN s
      PROVE  Without(s, i) \in Seq(S) /\ Twice(s, i) \in Seq(S)
  <2>1. /\ SubSeq(s, 1, i - 1) \in Seq(S) /\ SubSeq(s, i + 1, Len(s)) \in Seq(S)
        /\ SubSeq(s, i, Len(s)) \in Seq(S) /\ <<s[i]>> \in Seq(S)
    BY <1>1
  <2>2. \A a, b \in Seq(S) : a \o b \in Seq(S)
    OBVIOUS
  <2> QED  BY <2>1, <2>2 DEF Without, Twice, RemoveAt, InsertAt
<1>3. ASSUME NEW i \in DOMAIN s, NEW e \in S
      PROVE  [s EXCEPT ![i] = e] \in Seq(S)
  BY <1>1
<1>4. ASSUME NEW i \in 1..(Len(s) - 1)
      PROVE  Swapped(s, i) \in Seq(S)
  <2>1. i \in 1..Len(s) /\ i + 1 \in 1..Len(s)
    BY <1>1
  <2> QED  BY <1>1, <2>1 DEF Swapped
<1> QED  BY <1>2, <1>3, <1>4

LEMMA EventsDamaged ==
  ASSUME NEW es \in Seq(Recordings), NEW fs \in Edits(es, OtherAnswers)
  PROVE  fs \in Seq(Recordings)
<1>1. \A i \in DOMAIN es : es[i] \in Recordings
  OBVIOUS
<1>2. ASSUME NEW e \in Recordings, NEW f \in OtherAnswers(e)
      PROVE  f \in Recordings
  <2>1. Answers \cup Sizes \subseteq Nat
    BY TapeLimits DEF Sizes
  <2> QED  BY <2>1 DEF OtherAnswers, Recordings
<1>3. \/ \E i \in DOMAIN es : fs = Without(es, i) \/ fs = Twice(es, i)
      \/ \E i \in 1..(Len(es) - 1) : fs = Swapped(es, i)
      \/ \E i \in DOMAIN es : \E e \in OtherAnswers(es[i]) : fs = [es EXCEPT ![i] = e]
  BY DEF Edits
<1>4. ASSUME NEW i \in DOMAIN es, NEW e \in OtherAnswers(es[i])
      PROVE  [es EXCEPT ![i] = e] \in Seq(Recordings)
  <2>1. e \in Recordings
    BY <1>1, <1>2
  <2> QED  BY <2>1, EditsOf
<1>5. /\ \A i \in DOMAIN es : Without(es, i) \in Seq(Recordings)
                              /\ Twice(es, i) \in Seq(Recordings)
      /\ \A i \in 1..(Len(es) - 1) : Swapped(es, i) \in Seq(Recordings)
  BY EditsOf
<1> QED  BY <1>3, <1>4, <1>5, Zenon

LEMMA RowDamaged ==
  ASSUME NEW row, IsRow(row), NEW other \in OtherRows(row)
  PROVE  IsRow(other)
<1> DEFINE c == row.content
<1>1. CASE \E a \in Answers : other = [row EXCEPT !.content.core.action = a]
  <2>1. PICK a \in Answers : other = [row EXCEPT !.content.core.action = a]
    BY <1>1
  <2> DEFINE core == [c.core EXCEPT !.action = a]
  <2>2. other.content = [c EXCEPT !.core = core] /\ other = [content |-> other.content, sha |-> row.sha]
    BY <2>1 DEF IsRow
  <2>3. core.after = c.core.after
    OBVIOUS
  <2> HIDE DEF core
  <2>4. other.content = [policy |-> c.policy, index |-> c.index, core |-> core,
                         events |-> c.events, previous |-> c.previous]
    BY <2>2 DEF IsRow
  <2> QED  BY <2>2, <2>3, <2>4 DEF IsRow
<1>2. CASE \E es \in Edits(c.events, OtherAnswers) : other = [row EXCEPT !.content.events = es]
  <2>1. PICK es \in Edits(c.events, OtherAnswers) : other = [row EXCEPT !.content.events = es]
    BY <1>2
  <2>2. es \in Seq(Recordings)
    BY EventsDamaged DEF IsRow
  <2>3. other.content = [c EXCEPT !.events = es] /\ other = [content |-> other.content, sha |-> row.sha]
    BY <2>1 DEF IsRow
  <2>4. other.content = [policy |-> c.policy, index |-> c.index, core |-> c.core,
                         events |-> es, previous |-> c.previous]
    BY <2>3 DEF IsRow
  <2> QED  BY <2>2, <2>3, <2>4 DEF IsRow
<1> QED  BY <1>1, <1>2 DEF OtherRows

LEMMA LogDamaged ==
  ASSUME NEW rows, IsLog(rows), NEW other \in Edits(rows, OtherRows)
  PROVE  IsLog(other)
<1>1. rows \in Seq(Elements(rows)) /\ \A r \in Elements(rows) : IsRow(r)
  BY DEF IsLog
<1>2. \/ \E i \in DOMAIN rows : other = Without(rows, i) \/ other = Twice(rows, i)
      \/ \E i \in 1..(Len(rows) - 1) : other = Swapped(rows, i)
      \/ \E i \in DOMAIN rows : \E e \in OtherRows(rows[i]) : other = [rows EXCEPT ![i] = e]
  BY DEF Edits
<1>3. CASE other \in Seq(Elements(rows))
  BY <1>1, <1>3, LogOf
<1>4. CASE \E i \in DOMAIN rows : \E e \in OtherRows(rows[i]) : other = [rows EXCEPT ![i] = e]
  <2>0. PICK i \in DOMAIN rows : \E e \in OtherRows(rows[i]) : other = [rows EXCEPT ![i] = e]
    BY <1>4
  <2>1. PICK e \in OtherRows(rows[i]) : other = [rows EXCEPT ![i] = e]
    BY <2>0
  <2> DEFINE S == Elements(rows) \cup {e}
  <2>2. IsRow(e)
    BY <1>1, RowDamaged DEF Elements
  <2>3. rows \in Seq(S) /\ e \in S /\ \A r \in S : IsRow(r)
    <3>1. \A A, B : A \subseteq B /\ rows \in Seq(A) => rows \in Seq(B)
      OBVIOUS
    <3> QED  BY <1>1, <2>2, <3>1
  <2> HIDE DEF S
  <2>4. other \in Seq(S)
    BY <2>1, <2>3, EditsOf
  <2> QED  BY <2>3, <2>4, LogOf
<1> QED  BY <1>1, <1>2, <1>3, <1>4, EditsOf

\* Recomputing every hash keeps the rows rows.
LinkedStep(row, done) == Append(done, Row([row.content EXCEPT !.previous = Tip(done)]))
Linking == INSTANCE FoldLemmas WITH op <- LinkedStep, pick <- Latest

LEMMA LogRehashed ==
  ASSUME NEW rows, IsLog(rows)
  PROVE  IsLog(Rehashed(rows))
<1> DEFINE n == Len(rows)
           Linked(i) == Linking!Fold(rows, <<>>, 1..i)
           Reached == {i \in 0..n : IsLog(Linked(i))}
<1>1. n \in Nat /\ DOMAIN rows = 1..n /\ \A i \in 1..n : IsRow(rows[i])
  BY LogIs
<1>2. \A t \in SUBSET (1..n) : Latest(t) = CHOOSE x \in t : \A y \in t : x >= y
  BY DEF Latest
<1> HIDE DEF n
<1>3. Linking!IsChain(rows, <<>>, n)
  BY <1>1, <1>2, Linking!FoldChain
<1>4. Rehashed(rows) = Linking!Fold(rows, <<>>, DOMAIN rows)
  BY DEF Rehashed, FoldLeft, MapThenFoldSet, Linking!Fold, Linking!Solves,
         Linking!Step, LinkedStep, Latest, Max
<1>5. Linked(0) = <<>> /\ \A i \in 1..n : Linked(i) = LinkedStep(rows[i], Linked(i - 1))
  BY <1>3 DEF Linking!IsChain
<1> HIDE DEF Linked
<1>6. ASSUME NEW i \in 1..n, IsLog(Linked(i - 1))  PROVE IsLog(Linked(i))
  <2> DEFINE c == rows[i].content
             p == Tip(Linked(i - 1))
             r == Row([c EXCEPT !.previous = p])
  <2>1. IsRow(rows[i])
    BY <1>1
  <2>2. [c EXCEPT !.previous = p]
          = [policy |-> c.policy, index |-> c.index, core |-> c.core,
             events |-> c.events, previous |-> p]
    BY <2>1 DEF IsRow
  <2> HIDE DEF p
  <2>3. IsRow(r)
    BY <2>1, <2>2 DEF Row, IsRow
  <2>4. Linked(i) = Append(Linked(i - 1), r)
    BY <1>5 DEF LinkedStep, p
  <2> HIDE DEF r
  <2> QED  BY <1>6, <2>3, <2>4, LogGrows
<1>7. 0 \in Reached /\ \A i \in 1..n : i - 1 \in Reached => i \in Reached
  BY <1>1, <1>5, <1>6, NoRowsLog
<1>8. \A i \in 0..n : i \in Reached
  <2> HIDE DEF Reached
  <2> QED  BY <1>1, <1>7, Replaying!StepsInduction
<1>9. IsLog(Linked(n))
  BY <1>1, <1>8
<1> QED  BY <1>1, <1>4, <1>9 DEF Linked

-----------------------------------------------------------------------------
(* The inductive invariant: what is recorded replays to where the run is, the *)
(* rows written verify, and what the step is about to store was counted.      *)

MemoryAt(rows, k) == IF k = 1 THEN Empty ELSE rows[k - 1].content.core.after

Fits(es, text) ==
  text = Empty \/ \E i \in DOMAIN es : es[i].op = Tokenize(text) /\ es[i].answer <= Budget

StageFits ==
  /\ step.stage = "check" => step.after = step.memory
  /\ step.stage = "actor"
       => step.after = step.memory /\ (step.policy = "summary" \/ Fits(events, step.memory))
  /\ step.stage \in {"card", "draft", "action"} => step.after = step.memory /\ Fits(events, step.memory)
  /\ step.stage = "represent"
       => Fits(events, Braces) /\ \E x, y \in Int : step.after = Ledger(x, y)
  /\ step.stage = "none" => step.after = Empty
  /\ step.stage = "store" => Fits(events, step.after)

Running ==
  /\ step \in StepStates /\ events \in Seq(Recordings)
  /\ step.policy = policy /\ step.index = Len(log) /\ step.index < Steps
  /\ step.memory = MemoryAt(log, Len(log) + 1)
  /\ Replayed(Step(policy, step.memory, step.index), events) = step
  /\ StageFits

TapeInv ==
  /\ policy \in Policies
  /\ IsLog(log) /\ IsLog(genuine)
  /\ \A k \in 1..Len(genuine) : RowVerifies(genuine, k, MemoryAt(genuine, k))
  /\ phase \in {"run", "aborted", "ended"} => log = genuine
  /\ phase = "run" => Running
  /\ phase \in {"ended", "kept", "judged"} => Len(genuine) = Steps
  /\ IF phase = "judged" THEN verdict = "pass" <=> Verified(log) ELSE verdict = "none"

LEMMA StepTyped ==
  ASSUME NEW q \in Policies, NEW m \in Texts, NEW i \in Nat
  PROVE  /\ Step(q, m, i) \in StepStates
         /\ Step(q, m, i).policy = q /\ Step(q, m, i).memory = m
         /\ Step(q, m, i).index = i /\ Step(q, m, i).after = m
         /\ Step(q, m, i).stage = IF q = "summary" THEN "actor"
                                    ELSE IF m = Empty THEN "card" ELSE "check"
BY DEF Step, StepStates, Stages

LEMMA MemoryTyped ==
  ASSUME NEW rows, IsLog(rows), NEW k \in 1..(Len(rows) + 1)
  PROVE  MemoryAt(rows, k) \in Texts
<1>1. CASE k = 1
  BY <1>1, TextsTyped DEF MemoryAt
<1>2. CASE k # 1
  <2>1. k - 1 \in 1..Len(rows)
    BY <1>2, LogIs
  <2>2. IsRow(rows[k - 1])
    BY <2>1, LogIs
  <2> QED  BY <1>2, <2>2 DEF MemoryAt, IsRow
<1> QED  BY <1>1, <1>2

-----------------------------------------------------------------------------
(* Acceptance. *)

LEMMA VerifiedRowIsHonest ==
  ASSUME policy \in Policies, NEW rows, IsLog(rows), NEW k \in 1..Len(rows),
         RowVerifies(rows, k, MemoryAt(rows, k))
  PROVE  HonestRow(rows, k)
<1> DEFINE c == rows[k].content
           base == Step(policy, MemoryAt(rows, k), k - 1)
           n == Len(c.events)
           tip == Tip(SubSeq(rows, 1, k - 1))
           s == Replayed(base, c.events)
           r == Rerecorded(Start0(base), c.events)
<1>1. IsRow(rows[k]) /\ Len(rows) \in Nat
  BY LogIs
<1>2. c.events \in Seq(Recordings) /\ n \in Nat
  BY <1>1 DEF IsRow
<1>3. k - 1 \in Nat /\ k \in 1..(Len(rows) + 1)
  BY <1>1
<1>4. base \in StepStates /\ base.policy = policy /\ base.index = k - 1
  BY <1>3, MemoryTyped, StepTyped
<1>5. /\ Chained(rows[k], tip) /\ c.policy = policy /\ c.index = k - 1
      /\ s.stage = "done" /\ Core(s) = c.core
  BY DEF RowVerifies, Replayed
<1> HIDE DEF base
<1>6. s = After(c.events, base, n) /\ r = Taped(c.events, Start0(base), n)
  BY <1>2, ReplayChain, RerecordChain
<1>7. n \in 0..n /\ SubSeq(c.events, 1, n) = c.events
  BY <1>2
<1>8. s.policy = policy /\ s.index = k - 1
  <2>1. s = After(c.events, base, n) /\ n \in 0..n
    BY <1>6, <1>7
  <2> QED  BY <1>2, <1>4, <2>1, ReplayTyped
<1>9. r = [step |-> s, events |-> c.events]
  <2>1. \/ After(c.events, base, n).stage = "raised"
        \/ Taped(c.events, Start0(base), n)
             = [step |-> After(c.events, base, n), events |-> SubSeq(c.events, 1, n)]
    BY <1>2, <1>4, <1>7, ReplayIsRecording
  <2> QED  BY <1>5, <1>6, <1>7, <2>1
<1> HIDE DEF s, r, tip, n
<1>10. r.step = s /\ r.events = c.events
  BY <1>9
<1>11. rows[k] = Row(Content(s, c.events, tip))
  <2>1. c.core = Core(s) /\ c.policy = s.policy /\ c.index = s.index
    BY <1>5, <1>8
  <2>2. rows[k] = [content |-> c, sha |-> c] /\ c.previous = tip
    BY <1>1, <1>5 DEF IsRow, Chained
  <2>3. c = Content(s, c.events, tip)
    BY <1>1, <2>1, <2>2 DEF IsRow, Content
  <2> QED  BY <2>2, <2>3 DEF Row
<1>12. r.step.stage = "done" /\ rows[k] = Row(Content(r.step, r.events, tip))
  BY <1>5, <1>10, <1>11
<1> QED  BY <1>12, Zenon DEF HonestRow, r, tip, base, Rerecorded, Start0, MemoryAt

LEMMA VerifiedIsHonest ==
  ASSUME policy \in Policies, IsLog(log), Verified(log)
  PROVE  Honest(log)
<1>1. Len(log) = Steps
  BY DEF Verified
<1>2. ASSUME NEW k \in 1..Steps
      PROVE  HonestRow(log, k)
  <2>1. RowVerifies(log, k, MemoryAt(log, k))
    BY DEF Verified, MemoryAt
  <2> QED  BY <1>1, <2>1, VerifiedRowIsHonest
<1> QED  BY <1>1, <1>2 DEF Honest

-----------------------------------------------------------------------------
(* The run. *)

LEMMA FitsGrows ==
  ASSUME events \in Seq(Recordings), NEW e \in Recordings, events' = Append(events, e),
         NEW x
  PROVE  /\ Fits(events, x) => Fits(events', x)
         /\ e.op = Tokenize(x) /\ e.answer <= Budget => Fits(events', x)
<1>1. /\ Len(events) \in Nat /\ DOMAIN events = 1..Len(events)
      /\ DOMAIN events' = 1..(Len(events) + 1)
      /\ \A i \in DOMAIN events : i \in DOMAIN events' /\ events'[i] = events[i]
      /\ Len(events) + 1 \in DOMAIN events' /\ events'[Len(events) + 1] = e
  OBVIOUS
<1> QED  BY <1>1 DEF Fits

LEMMA AnswersTyped ==
  ASSUME NEW op, NEW a \in AnswersTo(op, events)
  PROVE  a \in Nat
<1>1. Sizes \subseteq Nat
  BY BudgetAssumption DEF Sizes
<1>2. Answers \cup {0} \subseteq Nat /\ {1} \subseteq Nat
  BY AnswersAssumption
<1>3. a \in Sizes \/ a \in {1} \/ a \in Answers \cup {0}
  BY Zenon DEF AnswersTo
<1> QED  BY <1>1, <1>2, <1>3

LEMMA StageFitsAnswer ==
  ASSUME Running, ~Ended(step), NEW a \in Nat, NEW e \in Recordings,
         e = [op |-> Ask(step), answer |-> a],
         events' = Append(events, e), step' = Take(step, a)
  PROVE  StageFits'
<1>1. /\ step \in StepStates /\ events \in Seq(Recordings) /\ StageFits
      /\ step.policy \in Policies
  BY FieldsTyped DEF Running
<1>2. Moves(step, a, step')
  BY <1>1, TakeMoves
<1>3. \A x : Fits(events, x) => Fits(events', x)
  BY <1>1, FitsGrows
<1>4. ASSUME NEW x, Ask(step) = Tokenize(x), a <= Budget
      PROVE  Fits(events', x)
  BY <1>1, <1>4, FitsGrows
<1>5. CASE Goes(step, step', "raised", step.after)
  BY <1>5 DEF Goes, StageFits
<1>6. CASE step.stage = "check" /\ a <= Budget /\ Goes(step, step', "card", step.after)
  <2>1. Ask(step) = Tokenize(step.memory)
    BY <1>6 DEF Ask
  <2>2. Fits(events', step'.memory) /\ step.after = step.memory
    BY <1>1, <1>4, <1>6, <2>1 DEF StageFits, Goes
  <2> QED  BY <1>6, <2>2 DEF Goes, StageFits, Fits
<1>7. CASE step.stage = "card" /\ a <= Budget /\ Goes(step, step', "actor", step.after)
  BY <1>1, <1>3, <1>7 DEF Goes, StageFits, Fits
<1>8. CASE step.stage = "actor" /\ a <= Budget /\ Goes(step, step', "draft", step.after)
  <2>1. step.policy = "summary" => Ask(step) = Tokenize(step.memory)
    BY <1>8 DEF Ask, ActorMemory
  <2>2. step.policy = "summary" => Fits(events', step'.memory)
    BY <1>4, <1>8, <2>1 DEF Goes
  <2>3. Fits(events', step'.memory) /\ step.after = step.memory
    BY <1>1, <1>3, <1>8, <2>2 DEF StageFits, Goes
  <2> QED  BY <1>8, <2>3 DEF Goes, StageFits, Fits
<1>9. CASE step.stage = "draft" /\ Goes(step, step', "action", step.after)
  BY <1>1, <1>3, <1>9 DEF Goes, StageFits, Fits
<1>10. CASE /\ step.stage = "action"
            /\ \E st \in {"store", "memory", "braces"} : Goes(step, step', st, step.after)
  BY <1>1, <1>3, <1>10 DEF Goes, StageFits, Fits
<1>11. CASE /\ step.stage = "braces" /\ a <= Budget
            /\ \E x, y \in Int : Goes(step, step', "represent", Ledger(x, y))
  <2>1. Ask(step) = Tokenize(Braces)
    BY <1>11 DEF Ask
  <2>2. Fits(events', Braces)
    BY <1>4, <1>11, <2>1
  <2> QED  BY <1>11, <2>2 DEF Goes, StageFits, Fits
<1>12. CASE /\ step.stage = "represent"
            /\ \E x, y \in Int : Goes(step, step', "represent", Ledger(x, y))
  BY <1>1, <1>3, <1>12 DEF Goes, StageFits, Fits
<1>13. CASE step.stage = "memory" /\ \E x \in Texts : Goes(step, step', "cap", x)
  BY <1>13 DEF Goes, StageFits
<1>14. CASE /\ step.stage \in {"cap", "recount", "represent"} /\ a <= Budget
            /\ Goes(step, step', "store", step.after)
  <2>1. Ask(step) = Tokenize(step.after)
    BY <1>14 DEF Ask
  <2>2. Fits(events', step'.after)
    BY <1>4, <1>14, <2>1 DEF Goes
  <2> QED  BY <1>14, <2>2 DEF Goes, StageFits, Fits
<1>15. CASE step.stage \in {"cap", "recount"} /\ Goes(step, step', "none", Empty)
  BY <1>15 DEF Goes, StageFits
<1>16. CASE /\ step.stage \in {"cap", "recount"}
            /\ \E x \in Texts : Goes(step, step', "decode", x)
  BY <1>16 DEF Goes, StageFits
<1>17. CASE step.stage = "decode" /\ \E x \in Texts : Goes(step, step', "recount", x)
  BY <1>17 DEF Goes, StageFits
<1>18. CASE step.stage = "none" /\ Goes(step, step', "store", step.after)
  BY <1>1, <1>18 DEF Goes, StageFits, Fits
<1>19. CASE step.stage = "store" /\ a <= Budget /\ Goes(step, step', "done", step.after)
  BY <1>19 DEF Goes, StageFits
<1> QED
  BY <1>2, <1>5, <1>6, <1>7, <1>8, <1>9, <1>10, <1>11, <1>12, <1>13, <1>14, <1>15, <1>16,
     <1>17, <1>18, <1>19
  DEF Moves

LEMMA AnswerKeeps ==
  ASSUME TapeInv, phase = "run", ~Ended(step),
         NEW a \in AnswersTo(Ask(step), events), Answer(a)
  PROVE  TapeInv'
<1> DEFINE e == [op |-> Ask(step), answer |-> a]
           base == Step(policy, step.memory, step.index)
<1>1. Running /\ a \in Nat
  BY AnswersTyped DEF TapeInv
<1>2. /\ events \in Seq(Recordings) /\ step \in StepStates /\ Ask(step) \in Calls
      /\ e \in Recordings
  BY <1>1, AskTyped DEF Running, Recordings
<1>3. /\ events' = Append(events, e) /\ step' = Take(step, a)
      /\ UNCHANGED <<policy, log, genuine, phase, verdict>>
  BY <1>2 DEF Answer, Recorded
<1>4. StageFits'
  BY <1>1, <1>2, <1>3, StageFitsAnswer
<1>5. Moves(step, a, step')
  BY <1>1, <1>2, <1>3, TakeMoves
<1>6. /\ step' \in StepStates /\ step'.policy = step.policy
      /\ step'.memory = step.memory /\ step'.index = step.index
  BY <1>5 DEF Moves, Goes
<1>7. events' \in Seq(Recordings)
  BY <1>2, <1>3
<1>8. Replayed(base, events') = step'
  <2>1. Replayed(base, events') = Replay(Replayed(base, events), e)
    BY <1>2, <1>3, ReplayAppend
  <2>2. Replayed(base, events) = step
    BY <1>1 DEF Running
  <2>3. Replay(step, e) = Take(step, a)
    BY DEF Replay, SameCall
  <2> QED  BY <1>3, <2>1, <2>2, <2>3
<1>9. Running'
  <2>1. base = Step(policy', step'.memory, step'.index)
    BY <1>3, <1>6
  <2>2. Replayed(Step(policy', step'.memory, step'.index), events') = step'
    BY <1>8, <2>1
  <2> QED  BY <1>1, <1>3, <1>4, <1>6, <1>7, <2>2 DEF Running, MemoryAt, Replayed
<1> QED
  BY <1>3, <1>9
  DEF TapeInv, RowVerifies, MemoryAt, Verified

LEMMA ReplayNothing ==
  ASSUME NEW base
  PROVE  Replayed(base, <<>>) = base
<1> DEFINE es == <<>>
<1>1. es \in Seq(Recordings) /\ Len(es) = 0
  OBVIOUS
<1> HIDE DEF es
<1>2. Replayed(base, es) = After(es, base, Len(es)) /\ After(es, base, 0) = base
  BY <1>1, ReplayChain
<1>3. Replayed(base, es) = base
  BY <1>1, <1>2
<1> QED  BY <1>3 DEF es

LEMMA RowStillVerifies ==
  ASSUME NEW a, NEW b, NEW k, NEW m, a[k] = b[k],
         SubSeq(a, 1, k - 1) = SubSeq(b, 1, k - 1), RowVerifies(a, k, m)
  PROVE  RowVerifies(b, k, m)
BY DEF RowVerifies

LEMMA StepBegins ==
  ASSUME NEW q \in Policies, NEW rows, IsLog(rows), Len(rows) < Steps,
         policy' = q, log' = rows, events' = <<>>,
         step' = Step(q, MemoryAt(rows, Len(rows) + 1), Len(rows))
  PROVE  Running'
<1> DEFINE m == MemoryAt(rows, Len(rows) + 1)
<1>1. Len(rows) \in Nat /\ m \in Texts
  BY LogIs, MemoryTyped
<1> HIDE DEF m
<1>2. /\ step' \in StepStates /\ step'.policy = q /\ step'.memory = m
      /\ step'.index = Len(rows) /\ step'.after = m
      /\ step'.stage = IF q = "summary" THEN "actor" ELSE IF m = Empty THEN "card" ELSE "check"
  BY <1>1, StepTyped DEF m
<1>3. events' \in Seq(Recordings)
  OBVIOUS
<1>4. Replayed(step', events') = step'
  BY ReplayNothing
<1>5. StageFits'
  BY <1>2 DEF StageFits, Fits
<1>6. step' = Step(q, step'.memory, step'.index)
  BY <1>2 DEF m
<1>7. Replayed(Step(policy', step'.memory, step'.index), events') = step'
  BY <1>4, <1>6
<1> QED  BY <1>2, <1>3, <1>5, <1>7 DEF Running, Replayed, m, MemoryAt

LEMMA TapeStarts ==
  ASSUME TRInit
  PROVE  TapeInv
<1> DEFINE m == MemoryAt(<<>>, 1)
<1>1. policy \in Policies /\ events = <<>> /\ log = <<>> /\ genuine = <<>>
      /\ phase = "run" /\ verdict = "none" /\ step = Step(policy, Empty, 0)
  BY DEF TRInit
<1>2. IsLog(<<>>) /\ Len(<<>>) = 0 /\ 0 < Steps /\ 0 + 1 = 1
  BY NoRowsLog, TapeLimits
<1>3. /\ step \in StepStates /\ step.policy = policy /\ step.memory = Empty
      /\ step.index = 0 /\ step.after = Empty
      /\ step.stage = IF policy = "summary" THEN "actor" ELSE "card"
  <2>1. Empty \in Texts /\ 0 \in Nat
    BY TextsTyped
  <2> DEFINE s == Step(policy, Empty, 0)
  <2>2. /\ s \in StepStates /\ s.policy = policy /\ s.memory = Empty
        /\ s.index = 0 /\ s.after = Empty
        /\ s.stage = IF policy = "summary" THEN "actor"
                     ELSE IF Empty = Empty THEN "card" ELSE "check"
    BY <1>1, <2>1, StepTyped
  <2> HIDE DEF s
  <2> QED  BY <1>1, <2>2 DEF s
<1>4. Replayed(step, events) = step
  BY <1>1, ReplayNothing
<1>5. StageFits
  BY <1>3 DEF StageFits, Fits
<1>6. Replayed(Step(policy, step.memory, step.index), events) = step
  BY <1>1, <1>3, <1>4
<1>7. Running
  <2>1. events \in Seq(Recordings)
    BY <1>1
  <2> QED  BY <1>1, <1>2, <1>3, <1>5, <1>6, <2>1 DEF Running, MemoryAt
<1> QED  BY <1>1, <1>2, <1>7 DEF TapeInv

LEMMA AppendKeeps ==
  ASSUME TapeInv, AppendRow
  PROVE  TapeInv'
<1> DEFINE c == Content(step, events, Tip(log))
           row == Row(c)
           n == Len(log)
<1>1. /\ phase = "run" /\ step.stage = "done" /\ log' = Append(log, row) /\ genuine' = log'
      /\ events' = <<>> /\ UNCHANGED <<policy, verdict>>
      /\ IF step.index = Steps - 1 THEN phase' = "ended" /\ step' = step
         ELSE phase' = "run" /\ step' = Step(policy, step.after, step.index + 1)
  BY DEF AppendRow
<1>2. /\ Running /\ log = genuine /\ IsLog(log) /\ policy \in Policies /\ verdict = "none"
      /\ \A k \in 1..n : RowVerifies(log, k, MemoryAt(log, k))
  BY <1>1 DEF TapeInv
<1>3. /\ step \in StepStates /\ events \in Seq(Recordings) /\ step.policy = policy
      /\ step.index = n /\ n < Steps /\ step.memory = MemoryAt(log, n + 1)
      /\ Replayed(Step(policy, step.memory, n), events) = step
  BY <1>2 DEF Running
<1>4. n \in Nat /\ Steps \in Nat /\ step.after \in Texts
  BY <1>2, <1>3, LogIs, FieldsTyped, TapeLimits
<1>5. /\ row = [content |-> c, sha |-> c]
      /\ c = [policy |-> policy, index |-> n, core |-> Core(step), events |-> events,
              previous |-> Tip(log)]
      /\ Core(step).after = step.after
  BY <1>3 DEF Row, Content, Core
<1> HIDE DEF c, row
<1>6. IsRow(row) /\ row.content = c /\ row.sha = c
  BY <1>3, <1>4, <1>5 DEF IsRow
<1>7. /\ IsLog(log') /\ Len(log') = n + 1 /\ log'[n + 1] = row
      /\ \A i \in 1..n : log'[i] = log[i]
  BY <1>1, <1>2, <1>6, LogGrows
<1>8. \A k \in 1..(n + 1) : SubSeq(log', 1, k - 1) = SubSeq(log, 1, k - 1)
  <2>1. ASSUME NEW S, NEW s \in Seq(S), NEW r \in S
        PROVE  \A k \in 1..(Len(s) + 1) : SubSeq(Append(s, r), 1, k - 1) = SubSeq(s, 1, k - 1)
    OBVIOUS
  <2>2. log \in Seq(Elements(log) \cup {row}) /\ row \in Elements(log) \cup {row}
    <3>1. \A A, B : A \subseteq B /\ log \in Seq(A) => log \in Seq(B)
      OBVIOUS
    <3> QED  BY <1>2, <3>1 DEF IsLog
  <2> QED  BY <1>1, <2>1, <2>2
<1>9. SubSeq(log, 1, n + 1 - 1) = log
  <2>1. ASSUME NEW S, NEW s \in Seq(S)  PROVE SubSeq(s, 1, Len(s) + 1 - 1) = s
    OBVIOUS
  <2> QED  BY <1>2, <2>1 DEF IsLog
<1>10. \A k \in 1..(n + 1) : MemoryAt(log', k) = MemoryAt(log, k)
  <2>1. ASSUME NEW k \in 1..(n + 1), k # 1  PROVE k - 1 \in 1..n
    BY <1>4, <2>1
  <2> QED  BY <1>7, <2>1 DEF MemoryAt
<1>11. ASSUME NEW k \in 1..(n + 1)
       PROVE  RowVerifies(log', k, MemoryAt(log', k))
  <2>1. CASE k \in 1..n
    <3>1. RowVerifies(log, k, MemoryAt(log', k))
      BY <1>2, <1>10, <2>1
    <3>2. log[k] = log'[k] /\ SubSeq(log, 1, k - 1) = SubSeq(log', 1, k - 1)
      BY <1>7, <1>8, <2>1
    <3> QED  BY <3>1, <3>2, RowStillVerifies
  <2>2. CASE k = n + 1
    <3>1. MemoryAt(log', k) = step.memory /\ log'[k] = row /\ k - 1 = n
      BY <1>3, <1>4, <1>7, <1>10, <2>2
    <3>2. Tip(SubSeq(log', 1, k - 1)) = Tip(log)
      <4>1. k \in 1..(n + 1) /\ SubSeq(log, 1, k - 1) = log
        BY <1>4, <1>9, <2>2
      <4> QED  BY <1>8, <4>1
    <3>3. /\ c.policy = policy /\ c.index = n /\ c.events = events
          /\ c.core = Core(step) /\ c.previous = Tip(log)
      BY <1>5
    <3>4. Chained(log'[k], Tip(SubSeq(log', 1, k - 1)))
      BY <1>6, <3>1, <3>2, <3>3 DEF Chained
    <3> DEFINE s == FoldLeft(Replay, Step(policy, MemoryAt(log', k), k - 1),
                               log'[k].content.events)
    <3>5. s = step
      BY <1>3, <1>6, <3>1, <3>3, Zenon DEF Replayed
    <3> HIDE DEF s
    <3>6. /\ log'[k].content.policy = policy /\ log'[k].content.index = k - 1
          /\ s.stage = "done" /\ Core(s) = log'[k].content.core
      BY <1>1, <1>6, <3>1, <3>3, <3>5
    <3> QED  BY <3>4, <3>6, Zenon DEF RowVerifies, s
  <2> QED  BY <1>4, <2>1, <2>2
<1>12. policy' \in Policies /\ IsLog(log)' /\ IsLog(genuine)'
       /\ (verdict = "none")' /\ (log = genuine)'
  <2>1. policy' \in Policies /\ verdict' = "none" /\ log' = genuine'
    BY <1>1, <1>2
  <2>2. IsLog(log') /\ IsLog(genuine')
    BY <1>1, <1>7
  <2> QED  BY <2>1, <2>2
<1>13. ASSUME NEW k \in 1..Len(genuine')
       PROVE  RowVerifies(genuine, k, MemoryAt(genuine, k))'
  <2>1. RowVerifies(log', k, MemoryAt(log', k)) /\ policy' = policy /\ genuine' = log'
    BY <1>1, <1>7, <1>11, <1>13
  <2> QED  BY <2>1, Zenon DEF RowVerifies, MemoryAt
<1>14. CASE step.index = Steps - 1
  <2>1. phase' = "ended" /\ Len(genuine') = Steps
    BY <1>1, <1>3, <1>4, <1>7, <1>14
  <2> QED  BY <1>12, <1>13, <2>1 DEF TapeInv
<1>15. CASE step.index # Steps - 1
  <2>1. phase' = "run" /\ step' = Step(policy, step.after, n + 1) /\ n + 1 < Steps
    BY <1>1, <1>3, <1>4, <1>15
  <2>2. MemoryAt(log', Len(log') + 1) = step.after
    <3>1. Len(log') + 1 # 1 /\ Len(log') + 1 - 1 = n + 1
      BY <1>4, <1>7
    <3>2. MemoryAt(log', Len(log') + 1) = log'[n + 1].content.core.after
      BY <3>1 DEF MemoryAt
    <3> QED  BY <1>5, <1>6, <1>7, <3>2
  <2>3. Running'
    <3> DEFINE rows == log'
    <3>1. /\ IsLog(rows) /\ Len(rows) < Steps /\ policy' = policy /\ events' = <<>>
          /\ step' = Step(policy, MemoryAt(rows, Len(rows) + 1), Len(rows))
      BY <1>1, <1>7, <2>1, <2>2
    <3> QED  BY <1>2, <3>1, StepBegins
  <2> QED  BY <1>12, <1>13, <2>1, <2>3 DEF TapeInv
<1> QED  BY <1>14, <1>15

LEMMA TapeSteps ==
  ASSUME TapeInv, [TRNext]_TRvars
  PROVE  TapeInv'
<1> USE DEF TapeInv, RowVerifies, MemoryAt, Verified
<1>1. CASE /\ phase = "run" /\ ~Ended(step)
           /\ \E a \in AnswersTo(Ask(step), events) : Answer(a)
  BY <1>1, AnswerKeeps
<1>2. CASE AppendRow
  BY <1>2, AppendKeeps
<1>3. CASE AbortStep
  BY <1>3 DEF AbortStep
<1>4. CASE Keep
  BY <1>4 DEF Keep
<1>5. CASE Damage
  <2>1. IsLog(log')
    <3>1. PICK rows \in Edits(log, OtherRows) : log' \in {rows, Rehashed(rows)}
      BY <1>5 DEF Damage
    <3>2. IsLog(rows)
      BY <3>1, LogDamaged
    <3> QED  BY <3>1, <3>2, LogRehashed
  <2>2. phase = "ended" /\ phase' = "kept"
        /\ UNCHANGED <<policy, step, events, genuine, verdict>>
    BY <1>5 DEF Damage
  <2> QED  BY <2>1, <2>2
<1>6. CASE VerifyRun
  BY <1>6 DEF VerifyRun
<1>7. CASE UNCHANGED TRvars
  BY <1>7 DEF TRvars, Running, StageFits
<1> QED  BY <1>1, <1>2, <1>3, <1>4, <1>5, <1>6, <1>7 DEF TRNext

LEMMA TapeAlways == TRSpec => []TapeInv
<1>1. TRInit => TapeInv
  BY TapeStarts
<1>2. TapeInv /\ [TRNext]_TRvars => TapeInv'
  BY TapeSteps
<1> QED  BY <1>1, <1>2, PTL DEF TRSpec

\* What verify_run accepts is a recording (verify_run, ReplayClient): however
\* the log was damaged and rehashed, one that verifies is the log a run writes
\* when the model gives the answers it holds.
THEOREM TranscriptAcceptedIsHonest == TRSpec => []AcceptedIsHonest
<1>1. TapeInv => AcceptedIsHonest
  BY VerifiedIsHonest DEF TapeInv, AcceptedIsHonest
<1> QED  BY <1>1, TapeAlways, PTL

\* The undamaged log of a run that ended verifies: the recorded operations
\* drive the step program through the same steps, to the same rows.
THEOREM TranscriptGenuineVerifies == TRSpec => []GenuineVerifies
<1>1. TapeInv => GenuineVerifies
  BY DEF TapeInv, GenuineVerifies, Verified, MemoryAt
<1> QED  BY <1>1, TapeAlways, PTL

\* The compactors keep their promise (compact_structured, _capped_text): a text
\* on its way to the store was counted within the budget, and so passes the
\* last check of the cap, and the empty ledger passed it before any eviction.
THEOREM TranscriptCapNeverOverrun == TRSpec => []CapNeverOverrun
<1>1. ASSUME TapeInv, phase = "run",
             \/ step.stage \in {"store", "none"}
             \/ step.stage = "represent" /\ step.after.left = 0,
             NEW a \in AnswersTo(Ask(step), events)
      PROVE  a <= Budget
  <2> DEFINE text == IF step.stage = "none" THEN Empty ELSE step.after
  <2>1. Running /\ StageFits
    BY <1>1 DEF TapeInv, Running
  <2>2. Ask(step) = Tokenize(text)
    BY <1>1 DEF Ask
  <2>3. Fits(events, text)
    <3>1. CASE step.stage = "represent"
      <4>1. PICK x, y \in Int : step.after = Ledger(x, y)
        BY <2>1, <3>1 DEF StageFits
      <4>2. y = 0
        BY <1>1, <3>1, <4>1 DEF Ledger, Text
      <4>3. text = Braces
        BY <3>1, <4>1, <4>2 DEF Ledger
      <4> QED  BY <2>1, <3>1, <4>3 DEF StageFits
    <3> QED  BY <1>1, <2>1, <3>1 DEF StageFits, Fits
  <2> HIDE DEF text
  <2>4. Ask(step).method = "tokenize" /\ Ask(step).text = text
    BY <2>2 DEF Tokenize, Operation
  <2>5. /\ \A i \in DOMAIN events : events[i].op = Ask(step) => events[i].answer = a
        /\ text = Empty => a = 0
    BY <1>1, <2>4 DEF AnswersTo
  <2> QED  BY <2>2, <2>3, <2>5, TapeLimits DEF Fits
<1>2. TapeInv => CapNeverOverrun
  BY <1>1 DEF CapNeverOverrun
<1> QED  BY <1>2, TapeAlways, PTL
=============================================================================
