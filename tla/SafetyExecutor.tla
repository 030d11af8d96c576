---------------------------- MODULE SafetyExecutor ----------------------------
(***************************************************************************)
(* The R2 safety kernel (rcwt_safety_r2.py).  execute_step copies the      *)
(* trusted rows, folds the observations of one public step into the copy,  *)
(* decides on one proposal against that copy, and commits everything or    *)
(* nothing.  The call is modelled observation by observation, so that an   *)
(* exception can hit it after any of them; the committed fields change     *)
(* only in Commit.                                                         *)
(***************************************************************************)
EXTENDS Authorization, Sequences, FiniteSetsExt

CONSTANTS
  EventIds,     \* observation identifiers the host can use
  RequestIds,   \* request identifiers the host can use
  InvoiceRows,  \* the rows each source can return
  AccountRows,
  PaymentRows,
  ReturnRows,
  Proposals,    \* what the actor can answer
  MaxSteps,     \* bound: steps of an episode
  MaxObs        \* bound: observations of a step

ASSUME RowsAssumption ==
  /\ InvoiceRows \subseteq InvoiceRow
  /\ AccountRows \subseteq AccountRow
  /\ PaymentRows \subseteq PaymentStatus
  /\ ReturnRows \subseteq ReturnStatus
  /\ Proposals \subseteq RawAction \cup {Malformed}

ASSUME BoundsAssumption == MaxSteps \in Nat /\ MaxObs \in Nat

VARIABLES
  next_step, records, event_ids, request_ids,
  completed, ledger, payout_cents, refund_cents,
  task,             \* local: the request of the call in progress, or None
  staged,           \* local: the copy of records being updated
  staged_event_ids  \* local: the copy of event_ids being updated

committed == <<next_step, records, event_ids, request_ids,
               completed, ledger, payout_cents, refund_cents>>
locals == <<task, staged, staged_event_ids>>
vars == <<committed, locals>>

Task == [request_id: RequestIds, case: Cases, operation: Operations]

LedgerEntry == [step: 0..MaxSteps, request_id: RequestIds, case: Cases,
                operation: Operations, decision: Decisions,
                booked: 0..MaxCents]

-----------------------------------------------------------------------------
Init ==
  /\ next_step = 0
  /\ records = NoRecords
  /\ event_ids = {} /\ request_ids = {}
  /\ completed = {} /\ ledger = <<>>
  /\ payout_cents = 0 /\ refund_cents = 0
  /\ task = None /\ staged = NoRecords /\ staged_event_ids = {}

FreshRequest(t) == t.request_id \notin request_ids

\* A step out of order, or a request already consumed, raises here: no effect.
BeginStep(step_index, t) ==
  /\ task = None
  /\ step_index = next_step
  /\ next_step < MaxSteps
  /\ FreshRequest(t)
  /\ task' = t
  /\ staged' = records
  /\ staged_event_ids' = event_ids
  /\ UNCHANGED committed

\* Mutant: the identifiers consumed are not copied before they are updated.
WorkOnSharedIds ==
  /\ event_ids' = staged_event_ids'
  /\ UNCHANGED <<next_step, records, request_ids, completed, ledger,
                 payout_cents, refund_cents>>
WorkOnCopies == UNCHANGED committed

\* The envelope checks common to every observation.
FreshEvent(e) ==
  /\ task # None
  /\ e \notin staged_event_ids
  /\ Cardinality(staged_event_ids \ event_ids) < MaxObs
  /\ staged_event_ids' = staged_event_ids \cup {e}
  /\ UNCHANGED task
  /\ WorkOnCopies

\* Free-form messages use up their identifier and supply nothing.
StageMessage(e) == FreshEvent(e) /\ UNCHANGED staged

StageRecord(e, tool, id, row) ==
  /\ FreshEvent(e)
  /\ staged' = Replace(staged, tool, id, row)

Stage(e) ==
  \/ StageMessage(e)
  \/ \E c \in Cases, row \in InvoiceRows : StageRecord(e, "read_invoice", c, row)
  \/ \E a \in Accounts, row \in AccountRows : StageRecord(e, "read_account", a, row)
  \/ \E c \in Cases, row \in PaymentRows : StageRecord(e, "read_payment", c, row)
  \/ \E o \in Orders, row \in ReturnRows : StageRecord(e, "read_return", o, row)

\* A repeated identifier, an unknown tool, a malformed row or a proposal that
\* is not JSON raises: the locals are lost and nothing else changes.
Raise ==
  /\ task # None
  /\ task' = None
  /\ staged' = records
  /\ staged_event_ids' = event_ids
  /\ UNCHANGED committed

-----------------------------------------------------------------------------
\* The ledger entry of an allowed proposal; holds are entered with no money.
Entry(p) == [step |-> next_step, request_id |-> task.request_id,
             case |-> p.case, operation |-> task.operation,
             decision |-> p.decision,
             booked |-> IF p.decision \in Monetary THEN p.amount ELSE 0]

\* Mutants: the totals of the two operations are not kept apart.
PayoutPartOfAll(p) == p.amount
PayoutPartNet(p) == IF p.decision = "refund" THEN -p.amount ELSE p.amount
PayoutPart(p) == IF p.decision = "approve" THEN p.amount ELSE 0
RefundPart(p) == IF p.decision = "refund" THEN p.amount ELSE 0

Book(p) ==
  /\ completed' = IF p.decision \in Monetary
                    THEN completed \cup {<<p.case, task.operation>>} ELSE completed
  /\ payout_cents' = payout_cents + PayoutPart(p)
  /\ refund_cents' = refund_cents + RefundPart(p)
  /\ ledger' = Append(ledger, Entry(p))

PermittedByOldRows(p) == Allowed(p, task, records, completed)  \* mutant
Permitted(p) == Allowed(p, task, staged, completed)

\* All validation is done: the step is committed as one unit.  A denied
\* proposal still consumes the step, the events and the request.
Commit(p) ==
  /\ task # None
  /\ IF Permitted(p)
       THEN Book(p)
       ELSE UNCHANGED <<completed, payout_cents, refund_cents, ledger>>
  /\ records' = staged
  /\ event_ids' = staged_event_ids
  /\ request_ids' = request_ids \cup {task.request_id}
  /\ next_step' = next_step + 1
  /\ task' = None
  /\ UNCHANGED <<staged, staged_event_ids>>

Next ==
  \/ \E t \in Task, step_index \in 0..MaxSteps : BeginStep(step_index, t)
  \/ \E e \in EventIds : Stage(e)
  \/ Raise
  \/ \E p \in Proposals : Commit(p)

Spec == Init /\ [][Next]_vars
-----------------------------------------------------------------------------
(* Properties *)

TypeOK ==
  /\ next_step \in 0..MaxSteps
  /\ records \in Records /\ staged \in Records
  /\ event_ids \subseteq EventIds /\ staged_event_ids \subseteq EventIds
  /\ request_ids \subseteq RequestIds
  /\ completed \subseteq Keys
  /\ ledger \in Seq(LedgerEntry)
  /\ payout_cents \in Nat /\ refund_cents \in Nat
  /\ task \in Task \cup {None}

MonetaryEntries == {i \in DOMAIN ledger : ledger[i].decision \in Monetary}
KeyOf(entry) == <<entry.case, entry.operation>>

\* Over a whole episode no (case, operation) is booked twice, and the set the
\* kernel consults before booking is exactly what its ledger has booked.
BookedOnce ==
  /\ completed = {KeyOf(ledger[i]) : i \in MonetaryEntries}
  /\ \A i, j \in MonetaryEntries : KeyOf(ledger[i]) = KeyOf(ledger[j]) => i = j

TotalOf(decision) ==
  MapThenSumSet(LAMBDA i : ledger[i].booked,
                {i \in DOMAIN ledger : ledger[i].decision = decision})

\* The running totals are the sums of what the ledger says was booked, each on
\* its own side: money is neither lost, counted twice nor moved across.
TotalsReconcile ==
  /\ payout_cents = TotalOf("approve")
  /\ refund_cents = TotalOf("refund")

\* Every consumed step has its own request, and the ledger cites each at most
\* once and in the order of the steps, whatever was denied or raised between.
RequestsAccounted ==
  /\ Cardinality(request_ids) = next_step
  /\ \A i, j \in DOMAIN ledger : i < j =>
       /\ ledger[i].step < ledger[j].step
       /\ ledger[i].request_id # ledger[j].request_id

\* What an auditor reconciles at the end of an episode.
LedgerSound == BookedOnce /\ TotalsReconcile /\ RequestsAccounted

\* A call that raises, after however many observations, leaves every field of
\* the executor as it was: they change only when the step counter moves on.
StepAtomic ==
  [][\/ UNCHANGED committed
     \/ next_step' = next_step + 1 /\ task # None /\ task' = None]_vars

\* The kernel never pays what the reference rules, reading the rows known at
\* the end of the same step, would not pay, nor another amount: no unsafe
\* booking, although kernel and reference are separate code.
BookingsFollowRules ==
  [][\A i \in (DOMAIN ledger') \ DOMAIN ledger :
       LET entry == ledger'[i]
           due == ExpectedAction(Snapshot(records', entry.case, entry.operation),
                                 completed)
       IN entry.decision \in Monetary =>
            entry.decision = due.decision /\ entry.booked = due.amount]_vars

-----------------------------------------------------------------------------
(* The kernel keeps the promise of LedgerPromise. *)

BookedAt(k) ==
  LET at == {i \in MonetaryEntries : KeyOf(ledger[i]) = k}
  IN IF at = {} THEN 0 ELSE ledger[CHOOSE i \in at : TRUE].booked

Promise == INSTANCE LedgerPromise WITH
  known <- records,
  booked <- [k \in Keys |-> BookedAt(k)],
  paid <- [o \in Operations |-> IF o = "payout" THEN payout_cents ELSE refund_cents]

\* Seen from outside, a call is one step that learns rows and books at most one
\* free key for the amount due; raised calls cannot be seen at all.
KeepsPromise == Promise!Spec
=============================================================================
