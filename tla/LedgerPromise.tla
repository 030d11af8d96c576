---------------------------- MODULE LedgerPromise ----------------------------
(***************************************************************************)
(* What an execution kernel promises, with no calls, identifiers or copies *)
(* in sight: a set of known rows, the amount booked under each idempotency *)
(* key, and the two totals.  One step learns any rows and then books at    *)
(* most one key, never booked before, for the amount the reference         *)
(* business rules give under the rows just learned.                        *)
(***************************************************************************)
EXTENDS WorkflowRules

VARIABLES
  known,    \* the current rows of the four sources
  booked,   \* cents booked under each key, 0 when it is free
  paid      \* total of each operation

vars == <<known, booked, paid>>

PromiseTypeOK ==
  /\ known \in Records
  /\ booked \in [Keys -> 0..MaxCents]
  /\ paid \in [Operations -> Nat]

Init ==
  /\ known = NoRecords
  /\ booked = [k \in Keys |-> 0]
  /\ paid = [o \in Operations |-> 0]

BookedKeys == {k \in Keys : booked[k] > 0}

\* What the rules allow to be booked for a key: nothing unless they pay it.
Due(rows, c, o) ==
  LET e == ExpectedAction(Snapshot(rows, c, o), BookedKeys) IN
  IF e.decision = DecisionFor(o) THEN e.amount ELSE 0

Learn == known' \in Records /\ UNCHANGED <<booked, paid>>

Book(c, o) ==
  /\ known' \in Records
  /\ Due(known', c, o) > 0
  /\ booked' = [booked EXCEPT ![<<c, o>>] = Due(known', c, o)]
  /\ paid' = [paid EXCEPT ![o] = @ + Due(known', c, o)]

Next == Learn \/ \E c \in Cases, o \in Operations : Book(c, o)

Spec == Init /\ [][Next]_vars
=============================================================================
