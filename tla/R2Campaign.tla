------------------------------ MODULE R2Campaign ------------------------------
(***************************************************************************)
(* The R2 campaign directory (rcwt_r2.py): stages train, propose, validate *)
(* and test, each started by an exclusive marker and ended by a completion *)
(* or an abort file, then the report.  Several command invocations may run *)
(* at once, raise anywhere, or be killed anywhere; files are created once  *)
(* or appended to, never removed.  Stages are numbered in their order.     *)
(***************************************************************************)
EXTENDS Naturals, FiniteSets

CONSTANTS
  Invocations,  \* command invocations alive at the same time
  Rows          \* trace rows (decisions or proposals) registered per stage

Stages == 1..4
Train == 1
Propose == 2
Validate == 3
Test == 4

ASSUME RowsAssumption == Rows \in [Stages -> Nat \ {0}]

\* Two actor calls per decision, one critic call per proposal.
CallsPerRow(s) == IF s = Propose THEN 1 ELSE 2
ExpectedCalls(s) == Rows[s] * CallsPerRow(s)
Phases == Stages \ {Propose}   \* the stages with a corpus directory
Before(s) == 1..(s - 1)

ReportFiles == 4  \* report-started, analysis, verification, RESULTS

VARIABLES
  started, completed, aborted, partial,  \* stages with each receipt file
  corpus,                                \* phase directories generated
  begun, answered, failed,               \* lines of <stage>-requests.jsonl
  rows,                                  \* lines of traces or proposals
  selection,                             \* selection.json exists
  report,                                \* report files written, in order
  at, stage,                             \* where each invocation is
  meter,                                 \* its count of inference requests
  fresh,                                 \* answers since its last row
  seen,                                  \* its snapshot of the directory
  authors,                               \* history: whose report command wrote
  publications                           \* history: report commands that wrote

directory == <<started, completed, aborted, partial, corpus,
               begun, answered, failed, rows, selection, report>>
journal == <<begun, answered, failed>>
history == <<authors, publications>>
vars == <<directory, at, stage, meter, fresh, seen, history>>

Init ==
  /\ started = {} /\ completed = {} /\ aborted = {} /\ partial = {}
  /\ corpus = {}
  /\ begun = [s \in Stages |-> 0] /\ answered = [s \in Stages |-> 0]
  /\ failed = [s \in Stages |-> 0] /\ rows = [s \in Stages |-> 0]
  /\ selection = FALSE /\ report = 0
  /\ at = [p \in Invocations |-> "idle"]
  /\ stage = [p \in Invocations |-> Train]
  /\ meter = [p \in Invocations |-> 0] /\ fresh = [p \in Invocations |-> 0]
  /\ seen = [p \in Invocations |-> <<>>]
  /\ authors = {} /\ publications = 0

Go(p, from, to) == at[p] = from /\ at' = [at EXCEPT ![p] = to]
Look(p) == seen' = [seen EXCEPT ![p] = directory]
Forget(p) == seen' = [seen EXCEPT ![p] = <<>>]

-----------------------------------------------------------------------------
(* verify_run: the inventory is exactly that of the completed stages, which  *)
(* replay with their registered budgets, and nothing changed meanwhile.      *)

Reconciles(s) ==
  /\ rows[s] = Rows[s]
  /\ begun[s] = ExpectedCalls(s) /\ answered[s] = begun[s] /\ failed[s] = 0

Consistent ==
  /\ aborted = {} /\ partial = {}
  /\ started = completed
  /\ \A s \in completed : Before(s) \subseteq completed /\ Reconciles(s)
  /\ \A s \in Stages \ completed : rows[s] = 0 /\ begun[s] = 0
  /\ corpus = completed \cap Phases
  /\ selection <=> Validate \in completed
  /\ report > 0 => completed = Stages

Unchanged(p) == seen[p] = directory

-----------------------------------------------------------------------------
(* run_stage *)

PreviousIgnored(s) == TRUE  \* mutant: earlier completions are not required
PreviousCompleted(s) == Before(s) \subseteq completed

RunStage(p, s) ==
  /\ aborted = {}
  /\ s \notin started
  /\ PreviousCompleted(s)
  /\ Go(p, "idle", "checking")
  /\ stage' = [stage EXCEPT ![p] = s]
  /\ Look(p)
  /\ UNCHANGED <<directory, meter, fresh, history>>

\* Its verify_run passes, or raises without effect.
Checked(p) ==
  /\ IF Consistent /\ Unchanged(p) THEN Go(p, "checking", "cleared")
                                   ELSE Go(p, "checking", "idle")
  /\ Forget(p)
  /\ UNCHANGED <<directory, stage, meter, fresh, history>>

MarkerShared(s) == TRUE  \* mutant: the marker is opened "wb", not "xb"
MarkerFree(s) == s \notin started

\* The exclusive creation of <stage>-started.json raises if it exists.
Start(p) ==
  /\ IF MarkerFree(stage[p])
       THEN /\ started' = started \cup {stage[p]}
            /\ Go(p, "cleared", "entered")
       ELSE Go(p, "cleared", "idle") /\ UNCHANGED started
  /\ meter' = [meter EXCEPT ![p] = 0]
  /\ fresh' = [fresh EXCEPT ![p] = 0]
  /\ UNCHANGED <<completed, aborted, partial, corpus, journal, rows, selection,
                 report, stage, seen, history>>

PhaseDirectory(s) == {s} \cap Phases

\* The phase directory is created exclusively, its corpus and schedule frozen.
Expose(p) ==
  /\ IF stage[p] \in corpus
       THEN Go(p, "entered", "raised") /\ UNCHANGED corpus
       ELSE /\ Go(p, "entered", "working")
            /\ corpus' = corpus \cup PhaseDirectory(stage[p])
  /\ UNCHANGED <<started, completed, aborted, partial, journal, rows, selection,
                 report, stage, meter, fresh, seen, history>>

\* A metered call: the request is journalled before it is sent.
Ask(p) ==
  LET s == stage[p] IN
  /\ fresh[p] < CallsPerRow(s)
  /\ meter[p] < ExpectedCalls(s)
  /\ Go(p, "working", "waiting")
  /\ meter' = [meter EXCEPT ![p] = @ + 1]
  /\ begun' = [begun EXCEPT ![s] = @ + 1]
  /\ UNCHANGED <<started, completed, aborted, partial, corpus, answered, failed,
                 rows, selection, report, stage, fresh, seen, history>>

Answered(p) ==
  /\ Go(p, "waiting", "working")
  /\ answered' = [answered EXCEPT ![stage[p]] = @ + 1]
  /\ fresh' = [fresh EXCEPT ![p] = @ + 1]
  /\ UNCHANGED <<started, completed, aborted, partial, corpus, begun, failed,
                 rows, selection, report, stage, meter, seen, history>>

RowReadyEarly(p) == fresh[p] > 0  \* mutant: the draft alone makes a row
RowReady(p) == fresh[p] = CallsPerRow(stage[p])

WriteRow(p) ==
  /\ at[p] = "working"
  /\ RowReady(p)
  /\ rows' = [rows EXCEPT ![stage[p]] = @ + 1]
  /\ fresh' = [fresh EXCEPT ![p] = 0]
  /\ UNCHANGED <<started, completed, aborted, partial, corpus, journal, selection,
                 report, at, stage, meter, seen, history>>

\* Mutant: the stage may end before its registered requests are all made.
BudgetIgnored(p) == TRUE
BudgetSpent(p) == meter[p] = ExpectedCalls(stage[p]) /\ fresh[p] = 0

\* selection.json is created exclusively after the last validation row.
Select(p) ==
  /\ at[p] = "working" /\ stage[p] = Validate
  /\ BudgetSpent(p)
  /\ ~selection
  /\ selection' = TRUE
  /\ UNCHANGED <<started, completed, aborted, partial, corpus, journal, rows,
                 report, at, stage, meter, fresh, seen, history>>

\* The schedule is exhausted, its budget exactly consumed.
Seal(p) ==
  /\ BudgetSpent(p)
  /\ stage[p] = Validate => selection
  /\ Go(p, "working", "sealed")
  /\ completed' = completed \cup {stage[p]}
  /\ UNCHANGED <<started, aborted, partial, corpus, journal, rows, selection,
                 report, stage, meter, fresh, seen, history>>

\* The try block is left; the final verify_run only reads.
Leave(p) ==
  /\ Go(p, "sealed", "idle")
  /\ UNCHANGED <<directory, stage, meter, fresh, seen, history>>

\* Any exception or interrupt inside the try, the instant after the completion
\* receipt included: a call that fails is journalled unless the journal itself
\* fails, and a step under way may leave its partial record.
Raise(p) ==
  /\ \E from \in {"entered", "working", "waiting", "sealed"} : Go(p, from, "raised")
  /\ failed' \in {failed} \cup
       (IF at[p] = "waiting" THEN {[failed EXCEPT ![stage[p]] = @ + 1]} ELSE {})
  /\ partial' \in {partial} \cup
       (IF at[p] \in {"working", "waiting"} THEN {partial \cup {stage[p]}} ELSE {})
  /\ UNCHANGED <<started, completed, aborted, corpus, begun, answered, rows,
                 selection, report, stage, meter, fresh, seen, history>>

Abort(p) ==
  /\ Go(p, "raised", "idle")
  /\ aborted' = aborted \cup {stage[p]}
  /\ UNCHANGED <<started, completed, partial, corpus, journal, rows, selection,
                 report, stage, meter, fresh, seen, history>>

-----------------------------------------------------------------------------
(* report: recomputed from the verified rows, published once, never repaired *)

Report(p) ==
  /\ Consistent /\ completed = Stages
  /\ Go(p, "idle", "reporting")
  /\ Look(p)
  /\ authors' = authors \ {p}
  /\ UNCHANGED <<directory, stage, meter, fresh, publications>>

\* The history counts a command once, with the first report file it writes.
Author(p) ==
  /\ authors' = authors \cup {p}
  /\ publications' = IF p \in authors THEN publications ELSE publications + 1

MarkerOverwritten == TRUE  \* mutant: the marker of a report may be replaced
NothingPublished == report = 0

\* The directory must not have changed since; files already published are
\* compared, or refused when some are missing.
Recompute(p) ==
  /\ IF Unchanged(p) /\ report <= 1 THEN Go(p, "reporting", "composed")
                                    ELSE Go(p, "reporting", "idle")
  /\ Forget(p)
  /\ UNCHANGED <<directory, stage, meter, fresh, history>>

\* report-started.json is created exclusively: it raises if another publisher,
\* alive or dead, was first.
Publish(p) ==
  /\ IF NothingPublished
       THEN Go(p, "composed", "publishing") /\ report' = 1 /\ Author(p)
       ELSE Go(p, "composed", "idle") /\ UNCHANGED <<report, history>>
  /\ UNCHANGED <<started, completed, aborted, partial, corpus, journal, rows,
                 selection, stage, meter, fresh, seen>>

PublishFile(p) ==
  /\ IF report < ReportFiles
       THEN Go(p, "publishing", "publishing") /\ report' = report + 1 /\ Author(p)
       ELSE Go(p, "publishing", "idle") /\ UNCHANGED <<report, history>>
  /\ UNCHANGED <<started, completed, aborted, partial, corpus, journal, rows,
                 selection, stage, meter, fresh, seen>>

\* The process dies: no handler runs, and the directory stays as it is.
Kill(p) ==
  /\ at[p] # "idle"
  /\ at' = [at EXCEPT ![p] = "idle"]
  /\ Forget(p)
  /\ UNCHANGED <<directory, stage, meter, fresh, history>>

-----------------------------------------------------------------------------
Run(p) ==
  \/ \E s \in Stages : RunStage(p, s)
  \/ Checked(p) \/ Start(p) \/ Expose(p)
  \/ Ask(p) \/ Answered(p) \/ WriteRow(p) \/ Select(p)
  \/ Seal(p) \/ Leave(p) \/ Raise(p) \/ Abort(p)

Next == \E p \in Invocations :
  \/ Run(p)
  \/ Report(p) \/ Recompute(p) \/ Publish(p) \/ PublishFile(p)
  \/ Kill(p)

Spec == Init /\ [][Next]_vars
-----------------------------------------------------------------------------
(* Properties *)

Receipts == SUBSET Stages

TypeOK ==
  /\ started \in Receipts /\ completed \in Receipts
  /\ aborted \in Receipts /\ partial \in Receipts
  /\ corpus \subseteq Phases
  /\ begun \in [Stages -> Nat] /\ answered \in [Stages -> Nat]
  /\ failed \in [Stages -> Nat] /\ rows \in [Stages -> Nat]
  /\ selection \in BOOLEAN /\ report \in 0..ReportFiles
  /\ at \in [Invocations -> {"idle", "checking", "cleared", "entered", "working",
                             "waiting", "sealed", "raised", "reporting", "composed",
                             "publishing"}]
  /\ stage \in [Invocations -> Stages]
  /\ meter \in [Invocations -> Nat] /\ fresh \in [Invocations -> Nat]
  /\ authors \subseteq Invocations /\ publications \in Nat

InTry == {"entered", "working", "waiting"}
Running(s) == \E p \in Invocations : stage[p] = s /\ at[p] \in InTry

\* However invocations race through their checks, at most one of them is
\* generating, and it is the only owner of its stage.
OneInFlight ==
  \A p, q \in Invocations : at[p] \in InTry /\ at[q] \in InTry => p = q

\* No retry, resumption or second invocation can spend an inference call
\* beyond the registered plan, whatever was aborted or killed before.
BudgetsFinite == \A s \in Stages : begun[s] <= ExpectedCalls(s)

\* A completion receipt stands for the whole stage: every registered request
\* answered, every row written, and for validation the selection made.
CompletedIsWhole ==
  /\ \A s \in completed : Reconciles(s)
  /\ Validate \in completed => selection

\* The held-out corpus does not exist before all proposals and the global
\* selection are sealed, and no proposal is made once validation data exist.
TestExposedLast ==
  /\ Test \in corpus => selection /\ Before(Test) \subseteq completed
  /\ Validate \in corpus => rows[Propose] = Rows[Propose] /\ Propose \in completed

\* At any moment, thus after any kill, the evidence falls short of the calls
\* made by at most one row, and the journal by at most one unanswered call.
AtMostOneStepLost ==
  \A s \in Stages :
    /\ rows[s] * CallsPerRow(s) <= answered[s]
    /\ begun[s] <= (rows[s] + 1) * CallsPerRow(s)
    /\ answered[s] + failed[s] <= begun[s]
    /\ begun[s] <= answered[s] + failed[s] + 1

\* Over all commands ever typed, one alone has written report files, and it
\* found a whole campaign: what a publisher left that was killed, raced or done
\* is neither completed nor published again by a later one.
PublishedOnce ==
  /\ publications = IF report = 0 THEN 0 ELSE 1
  /\ report > 0 => completed = Stages /\ started = Stages

\* The evidence of a completed stage never changes, though other stages run,
\* raise and die in the same directory.
SealedStays ==
  [][\A s \in completed :
       /\ s \in completed' /\ (s \in corpus') = (s \in corpus)
       /\ begun'[s] = begun[s] /\ answered'[s] = answered[s]
       /\ failed'[s] = failed[s] /\ rows'[s] = rows[s]
       /\ s = Validate => selection']_vars

\* The campaign is a one-shot pipeline: a stage interrupted at any point stays
\* dead, and no later stage is ever entered.
StatusOf(s) == IF s \in completed THEN "sealed"
               ELSE IF Running(s) THEN "running"
               ELSE IF s \in started THEN "dead" ELSE "fresh"
Pipeline == INSTANCE OneShotPipeline WITH
  Length <- 4, status <- [s \in Stages |-> StatusOf(s)]
IsOneShot == Pipeline!Spec
=============================================================================
