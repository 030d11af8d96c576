------------------------------ MODULE AgentLoop ------------------------------
(***************************************************************************)
(* One R2 episode as the actor, the safety kernel and the memory see it    *)
(* (perform_step, rcwt_r2.py): a step shows observations and a task, the   *)
(* actor reads a card made of the bounded memory and the step, the kernel  *)
(* decides on every row it ever saw, and the memory ingests the step and   *)
(* forgets components until it fits.                                       *)
(* The memory is kept as a value: StructuredMemory checks that its text    *)
(* reads back as the same value.                                           *)
(***************************************************************************)
EXTENDS PublicCards, Authorization

CONSTANTS
  InvoiceRows, AccountRows, PaymentRows, ReturnRows,  \* what sources return
  Requests,   \* requested cases with their operation
  MaxSteps,   \* steps of an episode; 8 in the program
  MaxObserved \* bound: observations of one episode

ASSUME RowsAssumption ==
  /\ InvoiceRows \subseteq InvoiceRow /\ AccountRows \subseteq AccountRow
  /\ PaymentRows \subseteq PaymentStatus /\ ReturnRows \subseteq ReturnStatus
\* The fixtures fill in every merchant and holder and all amounts are positive.
ASSUME FixtureAssumption ==
  /\ \A row \in InvoiceRows : row.merchant_id # None /\ row.total_cents \notin {None, 0}
                              /\ row.currency = "BRL"
  /\ \A row \in AccountRows : row.holder # None
ASSUME RequestsAssumption == Requests \subseteq [case: Cases, operation: Operations]
ASSUME BoundsAssumption == MaxSteps \in Nat \ {0} /\ MaxObserved \in Nat

VARIABLES
  phase,      \* "acting" or "retaining"
  shown,      \* the observations of the current step, in order
  records,    \* kernel: the newest row of every identifier
  booked,     \* kernel: what it booked, by key
  memory,     \* the persistent memory of the actor
  forgot,     \* history: some component was evicted in this episode
  next_step,  \* completed steps
  observed    \* observations of the episode so far

vars == <<phase, shown, records, booked, memory, forgot, next_step, observed>>

Init ==
  /\ phase = "acting" /\ shown = <<>>
  /\ records = NoRecords /\ booked = NoBookings
  /\ memory = EmptyMemory /\ forgot = FALSE
  /\ next_step = 0 /\ observed = 0

Acting == phase = "acting" /\ next_step < MaxSteps

Observe(tool, id, row) ==
  /\ Acting /\ observed < MaxObserved
  /\ shown' = Append(shown, [tool |-> tool, id |-> id, row |-> row])
  /\ observed' = observed + 1
  /\ UNCHANGED <<phase, records, booked, memory, forgot, next_step>>

Card(t) == ContextCard(memory, shown, t)

\* The rows the kernel decides on, and the keys it booked.
Newest == FoldLeft(LAMBDA acc, o : Replace(acc, o.tool, o.id, o.row), records, shown)
Booked == {k \in Keys : booked[k] > 0}

\* The schema binds the case and the vocabulary only: the actor may propose any
\* amount of money or none, whatever the card and the guide say.
Proposals(t) ==
  {Act(t.case, "ask_info", 0, "missing_evidence")}
  \cup {Act(t.case, DecisionFor(t.operation), n, "missing_evidence") : n \in 1..MaxCents}

Ingested(m, seen) == FoldLeft(LAMBDA acc, o : PutRow(acc, o.tool, o.id, o.row), m, seen)

IngestedReceipt(m, p, t, accepted) ==
  IF accepted /\ p.decision \in Monetary
  THEN PutBooking(m, <<t.case, t.operation>>, p.amount) ELSE m

\* The last step retains nothing: no later step reads it.
Decide(t, p) ==
  /\ Acting /\ p \in Proposals(t)
  /\ records' = Newest
  /\ LET accepted == Allowed(p, t, Newest, Booked) IN
     /\ booked' = IF accepted /\ p.decision \in Monetary
                  THEN [booked EXCEPT ![<<t.case, t.operation>>] = p.amount] ELSE booked
     /\ memory' = IF next_step + 1 < MaxSteps
                  THEN IngestedReceipt(Ingested(memory, shown), p, t, accepted) ELSE memory
  /\ phase' = "retaining"
  /\ shown' = <<>> /\ next_step' = next_step + 1
  /\ UNCHANGED <<forgot, observed>>

\* A component that does not fit; which policy ranks the components is left
\* open here, so any may go first.
Forget(g) ==
  /\ phase = "retaining" /\ next_step < MaxSteps
  /\ g \in Range(memory.order)
  /\ memory' = EvictOldest(Promoted(memory, g))
  /\ forgot' = TRUE
  /\ UNCHANGED <<phase, shown, records, booked, next_step, observed>>

Fits ==
  /\ phase = "retaining" /\ phase' = "acting"
  /\ UNCHANGED <<shown, records, booked, memory, forgot, next_step, observed>>

Next ==
  \/ \E c \in Cases, row \in InvoiceRows : Observe("read_invoice", c, row)
  \/ \E a \in Accounts, row \in AccountRows : Observe("read_account", a, row)
  \/ \E c \in Cases, row \in PaymentRows : Observe("read_payment", c, row)
  \/ \E o \in Orders, row \in ReturnRows : Observe("read_return", o, row)
  \/ \E t \in Requests : \E p \in Proposals(t) : Decide(t, p)
  \/ \E g \in Components : Forget(g)
  \/ Fits

Spec == Init /\ [][Next]_vars
-----------------------------------------------------------------------------
(* Properties *)

\* What the rows of the kernel say about a request, in this step.
Truth(t) == Facts([memory EXCEPT !.rows = Newest, !.booked = booked], t)

NotKnown(f) == CASE f = "invoice_amount_cents" -> None
                 [] f = "operation_already_booked" -> "no_record"
                 [] OTHER -> "unknown"

\* The state of one episode; the memory's order has every component once.
TypeOK ==
  /\ phase \in {"acting", "retaining"}
  /\ next_step \in 0..MaxSteps /\ observed \in 0..MaxObserved
  /\ records \in Records /\ memory.rows \in Records
  /\ booked \in [Keys -> 0..MaxCents] /\ memory.booked \in [Keys -> 0..MaxCents]
  /\ Range(memory.order) = Groups(memory) /\ IsInjective(memory.order)

\* Whatever was forgotten, every fact the actor reads is the kernel's, or an
\* explicit unknown: forgetting never makes an older or a foreign fact appear.
CardNeverContradicts ==
  Acting =>
    \A t \in Requests :
      LET card == Card(t)
          truth == Truth(t)
      IN \A f \in DOMAIN card : card[f] \in {truth[f], NotKnown(f)}

\* The same of the v3 card, which may not look at the values of the step: what
\* it does not invalidate was not superseded by the step.
ReadCardIsFresh ==
  Acting =>
    \A t \in Requests :
      LET old == ReadCard(memory, shown, t)
          truth == Truth(t)
      IN \A f \in DOMAIN old : old[f] \in {truth[f], NotKnown(f)}

\* An actor that follows the guide proposes money only where the kernel would
\* book it, but for a booking that was forgotten.
GuideIsSafe ==
  Acting =>
    \A t \in Requests :
      LET p == Guided(Card(t), t)
          key == <<t.case, t.operation>>
      IN p.decision \in Monetary =>
           \/ Allowed(p, t, Newest, Booked)
           \/ forgot /\ key \in Booked /\ Allowed(p, t, Newest, Booked \ {key})

\* As long as nothing was forgotten the public guide on the public card is the
\* private reference: what it answers is what the grader expects.
GuideIsReference ==
  Acting /\ ~forgot =>
    \A t \in Requests :
      Guided(Card(t), t) = ExpectedAction(Snapshot(Newest, t.case, t.operation), Booked)
=============================================================================
