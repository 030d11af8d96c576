------------------------------ MODULE Transcript -------------------------------
(***************************************************************************)
(* The transcript of a cohort and its offline replay (rcwt_online_v4.py):  *)
(* AuditedClient records every client operation of a step, the steps are   *)
(* chained by their hashes, and verify_run drives the same step program    *)
(* from the records with ReplayClient.  Between the two the log may be     *)
(* damaged once, and its hashes recomputed or not.                         *)
(***************************************************************************)
EXTENDS StepCalls, SequencesExt

VARIABLES
  policy,   \* the arm whose episode is recorded
  step,     \* the step that is being performed
  events,   \* the operations recorded of it
  log,      \* the rows of traces.jsonl
  genuine,  \* history: the rows that were written
  phase,    \* "run", "aborted", "ended", "kept", "judged"
  verdict   \* what verify_run says

TRvars == <<policy, step, events, log, genuine, phase, verdict>>

\* A row and its hash: the hash of a row is its own content.
Core(s) == [memory |-> s.memory, action |-> s.action, after |-> s.after, size |-> s.size]
Content(s, recorded, previous) ==
  [policy |-> s.policy, index |-> s.index, core |-> Core(s),
   events |-> recorded, previous |-> previous]
Row(content) == [content |-> content, sha |-> content]

Tip(rows) == IF rows = <<>> THEN <<>> ELSE <<rows[Len(rows)].sha>>

TRInit ==
  /\ policy \in Policies
  /\ step = Step(policy, Empty, 0)
  /\ events = <<>> /\ log = <<>> /\ genuine = <<>>
  /\ phase = "run" /\ verdict = "none"

NoDecodes(op, answer) ==  \* mutant: detokenize is not recorded
  IF op.method = "detokenize" THEN <<>> ELSE <<[op |-> op, answer |-> answer]>>
Recorded(op, answer) == <<[op |-> op, answer |-> answer]>>

\* The event is recorded before the completion is validated.
Answer(answer) ==
  /\ phase = "run" /\ ~Ended(step)
  /\ events' = events \o Recorded(Ask(step), answer)
  /\ step' = Take(step, answer)
  /\ UNCHANGED <<policy, log, genuine, phase, verdict>>

AppendRow ==
  /\ phase = "run" /\ step.stage = "done"
  /\ log' = Append(log, Row(Content(step, events, Tip(log))))
  /\ genuine' = log' /\ events' = <<>>
  /\ IF step.index = Steps - 1 THEN phase' = "ended" /\ step' = step
     ELSE phase' = "run" /\ step' = Step(policy, step.after, step.index + 1)
  /\ UNCHANGED <<policy, verdict>>

\* The step raised: its events go to partial-step.json and the run is aborted.
AbortStep ==
  /\ phase = "run" /\ step.stage = "raised"
  /\ phase' = "aborted"
  /\ UNCHANGED <<policy, step, events, log, genuine, verdict>>

-----------------------------------------------------------------------------
(* Damage to a finished log *)

Without(s, i) == RemoveAt(s, i)
Twice(s, i) == InsertAt(s, i, s[i])
Swapped(s, i) == [s EXCEPT ![i] = s[i + 1], ![i + 1] = s[i]]

Edits(s, altered(_)) ==
  {Without(s, i) : i \in DOMAIN s} \cup {Twice(s, i) : i \in DOMAIN s}
  \cup {Swapped(s, i) : i \in 1..(Len(s) - 1)}
  \cup UNION {{[s EXCEPT ![i] = e] : e \in altered(s[i])} : i \in DOMAIN s}

OtherAnswers(e) == {[e EXCEPT !.answer = a] : a \in Answers \cup Sizes}
OtherRows(row) ==
  {[row EXCEPT !.content.core.action = a] : a \in Answers}
  \cup {[row EXCEPT !.content.events = es] : es \in Edits(row.content.events, OtherAnswers)}

\* Every row takes its content as its hash and the row before it as its previous.
Rehashed(rows) ==
  FoldLeft(LAMBDA done, row : Append(done, Row([row.content EXCEPT !.previous = Tip(done)])),
           <<>>, rows)

Keep ==
  /\ phase = "ended" /\ phase' = "kept"
  /\ UNCHANGED <<policy, step, events, log, genuine, verdict>>

Damage ==
  /\ phase = "ended" /\ phase' = "kept"
  /\ \E rows \in Edits(log, OtherRows) : log' \in {rows, Rehashed(rows)}
  /\ UNCHANGED <<policy, step, events, genuine, verdict>>

-----------------------------------------------------------------------------
(* verify_run *)

AnyArguments(event, op) == event.op.method = op.method  \* mutant: only the method is compared
SameCall(event, op) == event.op = op

\* finish: an operation after the end of the step was never asked for.
Unused(s) == At(s, "raised")

\* ReplayClient: the next operation of the step is answered from the next event.
Replay(s, event) ==
  IF Ended(s) THEN Unused(s)
  ELSE IF SameCall(event, Ask(s)) THEN Take(s, event.answer)
  ELSE At(s, "raised")

Chained(row, previous) == row.sha = row.content /\ row.content.previous = previous

RowVerifies(rows, k, memory) ==
  LET c == rows[k].content
      s == FoldLeft(Replay, Step(policy, memory, k - 1), c.events)
  IN /\ Chained(rows[k], Tip(SubSeq(rows, 1, k - 1)))
     /\ c.policy = policy /\ c.index = k - 1
     /\ s.stage = "done" /\ Core(s) = c.core

Verified(rows) ==
  /\ Len(rows) = Steps
  /\ \A k \in 1..Steps :
       RowVerifies(rows, k, IF k = 1 THEN Empty ELSE rows[k - 1].content.core.after)

VerifyRun ==
  /\ phase = "kept" /\ phase' = "judged"
  /\ verdict' = IF Verified(log) THEN "pass" ELSE "refused"
  /\ UNCHANGED <<policy, step, events, log, genuine>>

TRNext ==
  \/ /\ phase = "run" /\ ~Ended(step)
     /\ \E a \in AnswersTo(Ask(step), events) : Answer(a)
  \/ AppendRow \/ AbortStep \/ Keep \/ Damage \/ VerifyRun

TRSpec == TRInit /\ [][TRNext]_TRvars

-----------------------------------------------------------------------------
(* Properties *)

\* The recorder and the rows have their shape, and no completion that breaks
\* the inference contract gets into a row.
TRTypeOK ==
  /\ policy \in Policies
  /\ phase \in {"run", "aborted", "ended", "kept", "judged"}
  /\ verdict \in {"none", "pass", "refused"}
  /\ \A i \in DOMAIN events : events[i].answer \in Answers \cup Sizes
  /\ \A i \in DOMAIN genuine :
       /\ genuine[i].content.index = i - 1
       /\ genuine[i].content.core.action \in Answers
       /\ genuine[i].content.core.size <= Budget

\* What AuditedClient records when the model gives these answers.
Rerecord(r, event) ==
  IF Ended(r.step) THEN r
  ELSE [step |-> Take(r.step, event.answer),
        events |-> Append(r.events, [op |-> Ask(r.step), answer |-> event.answer])]

HonestRow(rows, k) ==
  LET memory == IF k = 1 THEN Empty ELSE rows[k - 1].content.core.after
      r == FoldLeft(Rerecord, [step |-> Step(policy, memory, k - 1), events |-> <<>>],
                    rows[k].content.events)
  IN /\ r.step.stage = "done"
     /\ rows[k] = Row(Content(r.step, r.events, Tip(SubSeq(rows, 1, k - 1))))
Honest(rows) == Len(rows) = Steps /\ \A k \in 1..Steps : HonestRow(rows, k)

\* What passes is a recording: whichever row, operation, answer or action was
\* lost, doubled, swapped or changed, and even when every hash was recomputed,
\* a log that verifies is one a run would have written for these answers.
AcceptedIsHonest == verdict = "pass" => Honest(log)

\* An undamaged log of a run that ended verifies, without asking a model.
GenuineVerifies == phase = "judged" /\ log = genuine => verdict = "pass"

\* With a tokenizer that gives one count for one text, the compactors keep
\* their promise: what they return passes the last check of the cap, and the
\* eviction never has to go on from an empty ledger.
CapNeverOverrun ==
  /\ phase = "run"
  /\ \/ step.stage \in {"store", "none"}
     \/ step.stage = "represent" /\ step.after.left = 0
  => \A a \in AnswersTo(Ask(step), events) : a <= Budget
=============================================================================
