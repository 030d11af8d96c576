------------------------------- MODULE CohortRun -------------------------------
(***************************************************************************)
(* Cohort directories of the v4 experiment (rcwt_online_v4.py): prepare    *)
(* freezes inputs, run executes them once behind an exclusive marker, and  *)
(* verify_run replays what is there.  A confirmatory cohort may only be    *)
(* prepared from a verified development cohort that passed its gate, and   *)
(* carries a copy of it.  Several invocations may work on the directories, *)
(* raise anywhere or be killed anywhere; a kill can tear the file that is  *)
(* being written.                                                          *)
(***************************************************************************)
EXTENDS Naturals, FiniteSets

CONSTANTS
  Development, Confirmatory,  \* directories by mode
  Invocations,                \* command invocations alive at the same time
  Rows,                       \* trace rows scheduled in a cohort
  None

Directories == Development \cup Confirmatory

ASSUME RowsAssumption == Rows \in Nat \ {0}
ASSUME ModesAssumption == Development \cap Confirmatory = {} /\ None \notin Directories

VARIABLES
  files,   \* the files of each directory
  copy,    \* the development directory copied into a confirmatory one
  at,      \* where each invocation is
  dir,     \* the directory each invocation works on
  source,  \* the development directory an invocation prepares from
  killed,  \* history: directories whose run was killed before its end
  writers  \* history: the invocations that wrote rows of each directory

vars == <<files, copy, at, dir, source, killed, writers>>

\* started.json and completion.json are whole, torn, or not there.  The gate is
\* what the rows say: the structured arm gained and did no harm.
NoFiles == [exists |-> FALSE, frozen |-> FALSE, started |-> "no", rows |-> 0,
            torn |-> FALSE, gate |-> FALSE, completion |-> "no",
            partial |-> FALSE, aborted |-> FALSE]

Init ==
  /\ files = [d \in Directories |-> NoFiles]
  /\ copy = [d \in Confirmatory |-> NoFiles]
  /\ at = [p \in Invocations |-> "idle"]
  /\ dir = [p \in Invocations |-> None] /\ source = [p \in Invocations |-> None]
  /\ killed = {} /\ writers = [d \in Directories |-> {}]

Go(p, from, to) == at[p] = from /\ at' = [at EXCEPT ![p] = to]
Stop(p) == at' = [at EXCEPT ![p] = "idle"]
Set(d, field, value) == files' = [files EXCEPT ![d][field] = value]

-----------------------------------------------------------------------------
(* verify_run, in the order it reads *)

Unbroken(f) == f.frozen /\ ~f.aborted /\ ~f.partial
Full(f) ==
  /\ f.started = "whole" /\ f.completion = "whole"
  /\ f.rows = Rows /\ ~f.torn
Verifies(f) == Unbroken(f) /\ Full(f)

-----------------------------------------------------------------------------
(* prepare *)

Prepare(p, d, e) ==
  /\ ~files[d].exists
  /\ d \in Confirmatory => e \in Development /\ Unbroken(files[e])
  /\ d \in Development => e = None
  /\ Go(p, "idle", "screening")
  /\ dir' = [dir EXCEPT ![p] = d] /\ source' = [source EXCEPT ![p] = e]
  /\ UNCHANGED <<files, copy, killed, writers>>

Screen(f) == Full(f) /\ f.gate

\* The rest of the verification of the development cohort, and its gate.
Screened(p) ==
  /\ at[p] = "screening"
  /\ IF source[p] = None \/ Screen(files[source[p]])
       THEN Go(p, "screening", "making") ELSE Stop(p)
  /\ UNCHANGED <<files, copy, dir, source, killed, writers>>

\* mkdir raises if the directory exists by now.  The development directory is
\* copied as it is at this moment.
MakeDirectory(p) ==
  LET d == dir[p] IN
  /\ at[p] = "making"
  /\ IF files[d].exists THEN Stop(p) /\ UNCHANGED <<files, copy>>
     ELSE /\ Go(p, "making", "freezing")
          /\ Set(d, "exists", TRUE)
          /\ copy' = IF d \in Confirmatory THEN [copy EXCEPT ![d] = files[source[p]]] ELSE copy
  /\ UNCHANGED <<dir, source, killed, writers>>

Freeze(p) ==
  /\ at[p] = "freezing" /\ Stop(p)
  /\ Set(dir[p], "frozen", TRUE)
  /\ UNCHANGED <<copy, dir, source, killed, writers>>

-----------------------------------------------------------------------------
(* run *)

FrozenOnly(d) == files[d].frozen  \* mutant: the copy is trusted
ValidProtocol(d) ==
  files[d].frozen /\ (d \in Confirmatory => Verifies(copy[d]) /\ copy[d].gate)

Run(p, d) ==
  LET f == files[d] IN
  /\ f.started = "no" /\ f.rows = 0 /\ f.completion = "no" /\ ~f.aborted
  /\ ValidProtocol(d)
  /\ Go(p, "idle", "cleared")
  /\ dir' = [dir EXCEPT ![p] = d]
  /\ UNCHANGED <<files, copy, source, killed, writers>>

MarkerShared(d) == TRUE  \* mutant: the marker is opened "w", not "x"
MarkerFree(d) == files[d].started = "no"

\* The exclusive creation raises if another invocation was first; the marker
\* is empty until its line is written.
Start(p) ==
  LET d == dir[p] IN
  /\ at[p] = "cleared"
  /\ IF MarkerFree(d) THEN Go(p, "cleared", "marking") /\ Set(d, "started", "torn")
                      ELSE Stop(p) /\ UNCHANGED files
  /\ UNCHANGED <<copy, dir, source, killed, writers>>

Mark(p) ==
  /\ Go(p, "marking", "running")
  /\ Set(dir[p], "started", "whole")
  /\ UNCHANGED <<copy, dir, source, killed, writers>>

StepsLeft(d) == files[d].rows < Rows

WriteRow(p) ==
  LET d == dir[p] IN
  /\ at[p] = "running" /\ StepsLeft(d)
  /\ Set(d, "rows", files[d].rows + 1)
  /\ writers' = [writers EXCEPT ![d] = @ \cup {p}]
  /\ UNCHANGED <<copy, at, dir, source, killed>>

NeverDone(d) == files[d].rows > Rows  \* mutant: the schedule is never exhausted
EarlyEnd(d) == files[d].rows + 1 >= Rows  \* mutant: the last step is left out
ScheduleDone(d) == files[d].rows = Rows

\* The rows decide the gate; completion.json is created, then filled.
Finish(p) ==
  LET d == dir[p] IN
  /\ Go(p, "running", "completing") /\ ScheduleDone(d)
  /\ \E passed \in BOOLEAN :
       files' = [files EXCEPT ![d].completion = "torn", ![d].gate = passed]
  /\ UNCHANGED <<copy, dir, source, killed, writers>>

Seal(p) ==
  /\ Go(p, "completing", "sealed")
  /\ Set(dir[p], "completion", "whole")
  /\ UNCHANGED <<copy, dir, source, killed, writers>>

Leave(p) ==
  /\ Go(p, "sealed", "idle")
  /\ UNCHANGED <<files, copy, dir, source, killed, writers>>

InTry(p) == at[p] \in {"running", "completing", "sealed"}

\* A step that raises may leave its partial record, one that could be written.
Raise(p) ==
  /\ InTry(p) /\ at' = [at EXCEPT ![p] = "raised"]
  /\ \E left \in (IF at[p] = "running" THEN BOOLEAN ELSE {FALSE}) :
       Set(dir[p], "partial", files[dir[p]].partial \/ left)
  /\ UNCHANGED <<copy, dir, source, killed, writers>>

Abort(p) ==
  /\ Go(p, "raised", "idle")
  /\ Set(dir[p], "aborted", TRUE)
  /\ UNCHANGED <<copy, dir, source, killed, writers>>

\* Before the try nothing handles an exception, so that it is like a kill.  A
\* row that was being appended is torn.
Kill(p) ==
  /\ at[p] # "idle" /\ Stop(p)
  /\ killed' = IF at[p] \in {"marking", "running", "completing", "raised"}
                  /\ files[dir[p]].completion # "whole"
               THEN killed \cup {dir[p]} ELSE killed
  /\ \E torn \in (IF at[p] = "running" /\ files[dir[p]].rows < Rows THEN BOOLEAN ELSE {FALSE}) :
       files' = IF torn THEN [files EXCEPT ![dir[p]].torn = TRUE] ELSE files
  /\ UNCHANGED <<copy, dir, source, writers>>

-----------------------------------------------------------------------------
Proceed(p) ==
  \/ Screened(p) \/ MakeDirectory(p) \/ Freeze(p)
  \/ Start(p) \/ Mark(p) \/ WriteRow(p) \/ Finish(p) \/ Seal(p) \/ Leave(p) \/ Abort(p)

Next ==
  \E p \in Invocations :
    \/ \E d \in Directories, e \in Development \cup {None} : Prepare(p, d, e)
    \/ \E d \in Directories : Run(p, d)
    \/ Proceed(p) \/ Raise(p) \/ Kill(p)

Spec == Init /\ [][Next]_vars

\* A process that is not killed goes on: every model call has a timeout.
FairSpec == Spec /\ \A p \in Invocations : WF_vars(Proceed(p))
-----------------------------------------------------------------------------
(* Properties *)

Marks == {"no", "torn", "whole"}
Files == [exists: BOOLEAN, frozen: BOOLEAN, started: Marks, rows: 0..Rows, torn: BOOLEAN,
          gate: BOOLEAN, completion: Marks, partial: BOOLEAN, aborted: BOOLEAN]

TypeOK ==
  /\ files \in [Directories -> Files] /\ copy \in [Confirmatory -> Files]
  /\ dir \in [Invocations -> Directories \cup {None}]
  /\ source \in [Invocations -> Development \cup {None}]
  /\ killed \subseteq Directories /\ writers \in [Directories -> SUBSET Invocations]

\* The exclusive marker: whatever dies and whoever retries, the rows of one
\* directory are written by one invocation, so that no held-out call is re-run.
OneWriter == \A d \in Directories : Cardinality(writers[d]) <= 1

\* A confirmatory cohort runs only on a copy of a development cohort that is
\* whole, unbroken and passed its gate, even when the development run was
\* interrupted between its verification and the copy.
ConfirmsGatedWork ==
  \A d \in Confirmatory :
    files[d].rows > 0 => Verifies(copy[d]) /\ copy[d].gate

\* A cohort that verifies was run to its end by a process that was neither
\* killed before the completion nor left a torn or missing row.
VerifiedIsWhole ==
  \A d \in Directories :
    files[d].completion = "whole" => files[d].rows = Rows /\ ~files[d].torn
                                     /\ files[d].started = "whole"

\* A run that was killed before its completion is never made one that verifies,
\* by no later invocation.
BrokenNeverVerifies == \A d \in killed : ~Verifies(files[d])

\* Every run that marked its start comes to a receipt, unless it was killed.
RunsSettle ==
  \A d \in Directories :
    files[d].started = "whole"
      ~> files[d].completion = "whole" \/ files[d].aborted \/ d \in killed
=============================================================================
