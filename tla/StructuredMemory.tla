--------------------------- MODULE StructuredMemory ---------------------------
(***************************************************************************)
(* compact_structured and compact_policy: one call loads the persistent    *)
(* text, ingests the observations of a step and at most one receipt, then  *)
(* evicts components until the text fits the token budget.  What fits is   *)
(* up to the tokenizer, so any number of evictions may be needed.          *)
(***************************************************************************)
EXTENDS MemoryLedger

CONSTANTS
  InvoiceRows, AccountRows, PaymentRows, ReturnRows,  \* what sources return
  Receipts,    \* accepted receipts: an idempotency key with an amount
  WeightSets,  \* retention policies; ZeroWeights is the default one
  MaxIngest    \* bound: observations of one call

ASSUME RowsAssumption ==
  /\ InvoiceRows \subseteq InvoiceRow
  /\ AccountRows \subseteq AccountRow
  /\ PaymentRows \subseteq PaymentStatus
  /\ ReturnRows \subseteq ReturnStatus
ASSUME ReceiptsAssumption == Receipts \subseteq Keys \X (1..MaxCents)
ASSUME WeightsAssumption == WeightSets \subseteq [Features -> -4..4]
ASSUME IngestAssumption == MaxIngest \in Nat
\* The identifiers of an experiment are finitely many.
ASSUME FiniteAssumption == IsFiniteSet(Cases) /\ IsFiniteSet(Accounts) /\ IsFiniteSet(Orders)

VARIABLES
  text,      \* the persistent memory between calls, as the records it holds
  state,     \* local: the decoded memory of the call in progress
  call,      \* where the call is: "none", "ingesting" or "fitting"
  ingested,  \* local: observations of the call so far
  weights,   \* the policy of the arm, fixed for an episode
  touched,   \* history: components observed in this call since they appeared
  newest     \* history: the last row and booking observed of what is retained

vars == <<text, state, call, ingested, weights, touched, newest>>

Init ==
  /\ text = <<>> /\ state = EmptyMemory
  /\ call = "none" /\ ingested = 0
  /\ weights \in WeightSets
  /\ touched = {}
  /\ newest = [rows |-> NoRecords, booked |-> NoBookings]

Begin ==
  /\ call = "none" /\ call' = "ingesting"
  /\ state' = Load(text) /\ text' = <<>>
  /\ UNCHANGED <<ingested, weights, touched, newest>>

IngestRow(tool, id, row) ==
  /\ call = "ingesting" /\ ingested < MaxIngest
  /\ ingested' = ingested + 1
  /\ state' = PutRow(state, tool, id, row)
  /\ touched' = (touched \cup Touched(state'.rows, tool, id)) \cap Groups(state')
  /\ newest' = [newest EXCEPT !.rows = Replace(@, tool, id, ExplicitRow(tool, row))]
  /\ UNCHANGED <<text, call, weights>>

Ingest ==
  \/ \E c \in Cases, row \in InvoiceRows : IngestRow("read_invoice", c, row)
  \/ \E a \in Accounts, row \in AccountRows : IngestRow("read_account", a, row)
  \/ \E c \in Cases, row \in PaymentRows : IngestRow("read_payment", c, row)
  \/ \E o \in Orders, row \in ReturnRows : IngestRow("read_return", o, row)

\* The receipt of an accepted monetary decision is a booking; any other is not.
IngestReceipt(key, amount) ==
  /\ call = "ingesting" /\ call' = "fitting"
  /\ state' = PutBooking(state, key, amount)
  /\ touched' = touched \cup {<<"invoice", key[1]>>}
  /\ newest' = [newest EXCEPT !.booked[key] = amount]
  /\ UNCHANGED <<text, ingested, weights>>

NoReceipt ==
  /\ call = "ingesting" /\ call' = "fitting"
  /\ UNCHANGED <<text, state, ingested, weights, touched, newest>>

TooLarge ==
  /\ call = "fitting" /\ state.order # <<>>
  /\ state' = EvictRanked(state, weights)
  /\ UNCHANGED <<text, call, ingested, weights, touched, newest>>

\* What is not retained can never be read again: a copy that came back later
\* would show as a row that was never observed.
Retained(known) ==
  [rows |-> [tool \in DOMAIN known.rows |-> [id \in DOMAIN known.rows[tool] |->
               IF state.rows[tool][id] = None THEN None ELSE known.rows[tool][id]]],
   booked |-> [k \in Keys |-> IF state.booked[k] = 0 THEN 0 ELSE known.booked[k]]]

\* The text that fits is read back before it is returned; a difference raises.
Fits ==
  /\ call = "fitting" /\ Load(DumpRecords(state)) = state
  /\ call' = "none" /\ text' = DumpRecords(state)
  /\ state' = EmptyMemory /\ ingested' = 0 /\ touched' = {}
  /\ newest' = Retained(newest)
  /\ UNCHANGED weights

Next ==
  \/ Begin \/ Ingest
  \/ \E receipt \in Receipts : IngestReceipt(receipt[1], receipt[2])
  \/ NoReceipt \/ TooLarge \/ Fits

Spec == Init /\ [][Next]_vars
-----------------------------------------------------------------------------
(* Properties *)

\* Rows are typed, and a stored status is always explicit.
TypeOK ==
  /\ state.rows \in Records
  /\ \A a \in Accounts : state.rows.read_account[a] # None
                           => state.rows.read_account[a].status # None
  /\ state.booked \in [Keys -> 0..MaxCents]
  /\ Range(state.order) \subseteq Components /\ touched \subseteq Components
  /\ call \in {"none", "ingesting", "fitting"} /\ ingested \in 0..MaxIngest
  /\ weights \in WeightSets

\* Whatever was ingested and evicted, the memory has a text that reads back as
\* the same memory: no legal history makes the reducer raise on its own text.
RoundTrip == Load(DumpRecords(state)) = state

\* What is remembered of an identifier is what was observed last of it, through
\* shared, detached, evicted and observed-again rows.
RemembersNewest ==
  /\ \A tool \in DOMAIN state.rows : \A id \in DOMAIN state.rows[tool] :
       state.rows[tool][id] \in {None, newest.rows[tool][id]}
  /\ \A k \in Keys : state.booked[k] \in {0, newest.booked[k]}

\* Evicting any component loses that component only: all others still show the
\* same facts, shared ones included.
EvictsOneComponent ==
  \A g \in Groups(state) :
    LET after == EvictOldest(Promoted(state, g))
    IN /\ after.order = Among(state.order, Components \ {g})
       /\ \A h \in Groups(after) : Record(after, h) = Record(state, h)

\* With the default policy a component that this call observed outlives every
\* component it did not observe.
ObservedOutlive ==
  [][/\ call = "fitting" /\ weights = ZeroWeights
     /\ (Range(state.order) \ Range(state'.order)) \cap touched # {}
     => Range(state'.order) \subseteq touched]_state

\* Ranked and unranked eviction are the same under zero weights, so that the
\* arms of the experiment differ by their weights only.
DefaultIsOldest ==
  state.order # <<>> => EvictRanked(state, ZeroWeights) = EvictOldest(state)
=============================================================================
