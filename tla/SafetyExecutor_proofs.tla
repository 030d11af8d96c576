----------------------- MODULE SafetyExecutor_proofs -----------------------
(* Proofs about the safety kernel, for all values of its constants. *)
EXTENDS SafetyExecutor, FiniteSetsExt, FiniteSetTheorems, TLAPS

USE MaxCentsAssumption, NoneAssumption, RowsAssumption, BoundsAssumption

-----------------------------------------------------------------------------
(* Typing.  TypeOK alone is not inductive: a call in progress must have been *)
(* admitted while there were steps left.                                     *)

TypeInv == TypeOK /\ (task # None => next_step < MaxSteps)

LEMMA NoRecordsTyped == NoRecords \in Records
BY DEF NoRecords, Records, PaymentStatus, ReturnStatus

\* Whole-row replacement keeps the store well formed, for each of the tools.
LEMMA ReplaceTyped ==
  ASSUME NEW recs \in Records
  PROVE  /\ \A c \in Cases, row \in InvoiceRows :
              Replace(recs, "read_invoice", c, row) \in Records
         /\ \A a \in Accounts, row \in AccountRows :
              Replace(recs, "read_account", a, row) \in Records
         /\ \A c \in Cases, row \in PaymentRows :
              Replace(recs, "read_payment", c, row) \in Records
         /\ \A o \in Orders, row \in ReturnRows :
              Replace(recs, "read_return", o, row) \in Records
BY DEF Records, Replace

\* Only a parsed proposal is ever permitted, so its fields have their types.
LEMMA PermittedTyped ==
  ASSUME NEW p \in Proposals, Permitted(p)
  PROVE  /\ p \in RawAction
         /\ p.decision \in Decisions
         /\ p.case = task.case
         /\ p.decision \in Monetary <=> p.amount > 0
BY DEF Permitted, Allowed, Parses, RawAction, Malformed, Decisions

LEMMA TypeInvInit == Init => TypeInv
BY NoRecordsTyped DEF Init, TypeInv, TypeOK

LEMMA TypeInvCommit ==
  ASSUME TypeInv, NEW p \in Proposals, Commit(p)
  PROVE  TypeInv'
<1> USE DEF TypeInv, TypeOK
<1>1. /\ task \in Task
      /\ next_step < MaxSteps
  BY DEF Commit
<1>2. /\ next_step' \in 0..MaxSteps
      /\ request_ids' \subseteq RequestIds
      /\ records' \in Records /\ staged' \in Records
      /\ event_ids' \subseteq EventIds /\ staged_event_ids' \subseteq EventIds
      /\ task' = None
  BY <1>1 DEF Commit, Task
<1>3. /\ completed' \subseteq Keys
      /\ ledger' \in Seq(LedgerEntry)
      /\ payout_cents' \in Nat /\ refund_cents' \in Nat
  <2>1. CASE Permitted(p)
    <3>1. /\ p \in RawAction
          /\ p.decision \in Decisions
      BY <2>1, PermittedTyped
    <3>2. Entry(p) \in LedgerEntry
      BY <1>1, <3>1 DEF Entry, LedgerEntry, Task, RawAction
    <3>3. <<p.case, task.operation>> \in Keys
      BY <1>1, <3>1 DEF Keys, Task, RawAction
    <3>4. PayoutPart(p) \in Nat /\ RefundPart(p) \in Nat
      BY <3>1 DEF PayoutPart, RefundPart, RawAction
    <3>5. Book(p)
      BY <2>1 DEF Commit
    <3>6. ledger' \in Seq(LedgerEntry)
      <4>1. ledger' = Append(ledger, Entry(p))
        BY <3>5 DEF Book
      <4>2. ledger \in Seq(LedgerEntry)
        OBVIOUS
      <4>3. QED
        BY <3>2, <4>1, <4>2
    <3>7. completed' \subseteq Keys
      BY <3>3, <3>5 DEF Book
    <3>8. QED
      BY <3>4, <3>5, <3>6, <3>7 DEF Book
  <2>2. CASE ~Permitted(p)
    BY <2>2 DEF Commit
  <2>3. QED
    BY <2>1, <2>2
<1>4. QED
  BY <1>2, <1>3

LEMMA TypeInvStep == TypeInv /\ [Next]_vars => TypeInv'
<1> SUFFICES ASSUME TypeInv, [Next]_vars PROVE TypeInv'
  OBVIOUS
<1>1. ASSUME NEW t \in Task, NEW i \in 0..MaxSteps, BeginStep(i, t)
      PROVE  TypeInv'
  BY <1>1 DEF BeginStep, TypeInv, TypeOK, committed
<1>2. ASSUME NEW e \in EventIds, Stage(e)
      PROVE  TypeInv'
  <2>1. FreshEvent(e) /\ staged' \in Records
    BY <1>2, ReplaceTyped DEF Stage, StageMessage, StageRecord, TypeInv, TypeOK
  <2>2. QED
    BY <2>1 DEF FreshEvent, WorkOnCopies, committed, TypeInv, TypeOK
<1>3. CASE Raise
  BY <1>3 DEF Raise, TypeInv, TypeOK, committed
<1>4. ASSUME NEW p \in Proposals, Commit(p)
      PROVE  TypeInv'
  BY <1>4, TypeInvCommit
<1>5. CASE UNCHANGED vars
  BY <1>5 DEF vars, committed, locals, TypeInv, TypeOK
<1>6. QED
  BY <1>1, <1>2, <1>3, <1>4, <1>5 DEF Next

\* In every reachable state the executor's fields and the locals of a call in
\* progress have the types the Python code gives them.
THEOREM KernelTypeCorrect == Spec => []TypeOK
<1>1. TypeInv => TypeOK
  BY DEF TypeInv
<1>2. QED
  BY <1>1, TypeInvInit, TypeInvStep, PTL DEF Spec

-----------------------------------------------------------------------------
(* Bookings.  BookedOnce is inductive once the types are known: its first    *)
(* conjunct ties the set that Commit consults to the ledger it protects.     *)

\* A step other than an allowed Commit leaves the ledger and its keys alone.
LEMMA OnlyCommitBooks ==
  ASSUME [Next]_vars
  PROVE  \/ UNCHANGED <<completed, ledger, payout_cents, refund_cents>>
         \/ \E p \in Proposals : Commit(p) /\ Permitted(p) /\ Book(p)
<1>1. ASSUME NEW p \in Proposals, Commit(p)
      PROVE  \/ UNCHANGED <<completed, ledger, payout_cents, refund_cents>>
             \/ Permitted(p) /\ Book(p)
  BY <1>1 DEF Commit
<1>2. ASSUME NEW e \in EventIds, Stage(e)
      PROVE  UNCHANGED <<completed, ledger, payout_cents, refund_cents>>
  BY <1>2 DEF Stage, StageMessage, StageRecord, FreshEvent, WorkOnCopies, committed
<1>3. QED
  BY <1>1, <1>2 DEF Next, BeginStep, Raise, vars, committed

\* What an allowed Commit appends, and where.
LEMMA BookAppends ==
  ASSUME TypeInv, NEW p \in Proposals, Commit(p), Permitted(p), Book(p)
  PROVE  /\ ledger \in Seq(LedgerEntry) /\ Entry(p) \in LedgerEntry
         /\ DOMAIN ledger = 1..Len(ledger) /\ Len(ledger) \in Nat
         /\ DOMAIN ledger' = 1..(Len(ledger) + 1)
         /\ \A i \in DOMAIN ledger : ledger'[i] = ledger[i]
         /\ ledger'[Len(ledger) + 1] = Entry(p)
         /\ KeyOf(Entry(p)) = <<p.case, task.operation>>
         /\ Entry(p).decision = p.decision
<1>1. task \in Task /\ ledger \in Seq(LedgerEntry)
  BY DEF TypeInv, TypeOK, Commit
<1>2. p \in RawAction /\ p.decision \in Decisions
  BY PermittedTyped
<1>3. Entry(p) \in LedgerEntry
  BY <1>1, <1>2 DEF TypeInv, TypeOK, Entry, LedgerEntry, Task, RawAction
<1>4. ledger' = Append(ledger, Entry(p))
  BY DEF Book
<1>5. KeyOf(Entry(p)) = <<p.case, task.operation>> /\ Entry(p).decision = p.decision
  BY DEF Entry, KeyOf
<1>6. QED
  BY <1>1, <1>3, <1>4, <1>5

LEMMA BookedOnceBook ==
  ASSUME TypeInv, BookedOnce, NEW p \in Proposals,
         Commit(p), Permitted(p), Book(p)
  PROVE  BookedOnce'
<1> DEFINE n == Len(ledger)
<1> DEFINE key == <<p.case, task.operation>>
<1>1. CASE p.decision \in Monetary
  <2>1. key \notin completed /\ completed' = completed \cup {key}
    BY <1>1 DEF Permitted, Allowed, MonetaryAllowed, NotBooked, Book
  <2>2. MonetaryEntries' = MonetaryEntries \cup {n + 1}
    BY <1>1, BookAppends DEF MonetaryEntries
  <2>3. \A i \in MonetaryEntries : ledger'[i] = ledger[i] /\ KeyOf(ledger[i]) \in completed
    BY BookAppends DEF MonetaryEntries, BookedOnce
  <2>4. KeyOf(ledger'[n + 1]) = key
    BY BookAppends
  <2>5. completed' = {KeyOf(ledger'[i]) : i \in MonetaryEntries'}
    BY <2>1, <2>2, <2>3, <2>4 DEF BookedOnce
  <2>6. \A i, j \in MonetaryEntries' : KeyOf(ledger'[i]) = KeyOf(ledger'[j]) => i = j
    BY <2>1, <2>2, <2>3, <2>4 DEF BookedOnce
  <2>7. QED
    BY <2>5, <2>6 DEF BookedOnce, KeyOf
<1>2. CASE p.decision \notin Monetary
  <2>1. completed' = completed
    BY <1>2 DEF Book
  <2>2. MonetaryEntries' = MonetaryEntries
    BY <1>2, BookAppends DEF MonetaryEntries
  <2>3. \A i \in MonetaryEntries : ledger'[i] = ledger[i]
    BY BookAppends DEF MonetaryEntries
  <2>4. QED
    BY <2>1, <2>2, <2>3 DEF BookedOnce, KeyOf
<1>3. QED
  BY <1>1, <1>2

LEMMA BookedOnceStep == TypeInv /\ BookedOnce /\ [Next]_vars => BookedOnce'
<1> SUFFICES ASSUME TypeInv, BookedOnce, [Next]_vars PROVE BookedOnce'
  OBVIOUS
<1>1. CASE UNCHANGED <<completed, ledger, payout_cents, refund_cents>>
  BY <1>1 DEF BookedOnce, MonetaryEntries, KeyOf
<1>2. ASSUME NEW p \in Proposals, Commit(p), Permitted(p), Book(p)
      PROVE  BookedOnce'
  BY <1>2, BookedOnceBook
<1>3. QED
  BY <1>1, <1>2, OnlyCommitBooks

\* However long the episode and whatever the actor answers, no payout and no
\* refund of a case is booked twice, and completed is exactly what was booked.
THEOREM KernelBookedOnce == Spec => []BookedOnce
<1>1. Init => BookedOnce
  BY DEF Init, BookedOnce, MonetaryEntries
<1>2. QED
  BY <1>1, TypeInvInit, TypeInvStep, BookedOnceStep, PTL DEF Spec

-----------------------------------------------------------------------------
(* Authorization against the reference rules. *)

\* What the kernel lets through is what the reference rules expect: the two
\* pieces of code, written apart, agree wherever money moves.
LEMMA AuthorizedIsExpected ==
  ASSUME NEW p \in Proposals, NEW t \in Task, NEW recs \in Records,
         NEW done \in SUBSET Keys,
         Allowed(p, t, recs, done), p.decision \in Monetary
  PROVE  LET due == ExpectedAction(Snapshot(recs, p.case, t.operation), done)
         IN due.decision = p.decision /\ due.amount = p.amount
<1> DEFINE invoice == recs.read_invoice[p.case]
<1> DEFINE account == recs.read_account[invoice.account_id]
<1> DEFINE snap == Snapshot(recs, p.case, t.operation)
<1>1. /\ p \in RawAction /\ p.case = t.case
      /\ MonetaryAllowed(p, t.operation, recs, done)
  BY DEF Allowed, Parses, RawAction, Malformed, Decisions
<1>2. /\ p.decision = DecisionFor(t.operation) /\ t.operation \in Operations
      /\ <<p.case, t.operation>> \notin done
      /\ invoice # None /\ invoice.account_id # None
      /\ invoice.total_cents # None /\ invoice.total_cents = p.amount
      /\ account # None /\ account.status = "active"
      /\ account.holder = invoice.merchant_id
      /\ recs.read_payment[p.case] = "cleared"
      /\ t.operation = "refund" => /\ invoice.order_id # None
                                   /\ recs.read_return[invoice.order_id] = "accepted"
  BY <1>1 DEF MonetaryAllowed, NotBooked, InvoicePayable, ExactAmount, AccountClears,
              ReturnNeeded, Task
<1>3. LinkedAccount(recs, p.case) = account
  BY <1>2 DEF LinkedAccount
<1>4. /\ snap.case = p.case /\ snap.operation = t.operation
      /\ snap.amount_cents = p.amount /\ snap.amount_cents # None
      /\ snap.account_status = "active"
      /\ snap.ownership_match = "match"
      /\ snap.payment_status = "cleared"
      /\ t.operation = "refund" => snap.return_status = "accepted"
  BY <1>2, <1>3 DEF Snapshot
<1>5. ~MissingEvidence(snap)
  <2>1. None \notin {"active", "cleared", "accepted"}
    BY NoneAssumption
  <2>2. QED
    BY <1>4, <2>1 DEF MissingEvidence
<1>6. ExpectedAction(snap, done) =
        IF t.operation = "payout"
          THEN Act(p.case, "approve", p.amount, "authorized_payout")
          ELSE Act(p.case, "refund", p.amount, "eligible_refund")
  BY <1>2, <1>4, <1>5 DEF ExpectedAction
<1>7. QED
  BY <1>2, <1>6 DEF Act, DecisionFor, Operations

-----------------------------------------------------------------------------
(* Action properties. *)

\* An exception, after however many observations, changes nothing: the fields
\* change only together, with the step counter, when a call ends.
THEOREM KernelStepAtomic == Spec => StepAtomic
<1>1. [Next]_vars =>
        \/ UNCHANGED committed
        \/ next_step' = next_step + 1 /\ task # None /\ task' = None
  BY DEF Next, BeginStep, Stage, StageMessage, StageRecord, FreshEvent,
         WorkOnCopies, Raise, Commit, vars
<1>2. QED
  BY <1>1, PTL DEF Spec, StepAtomic

\* The types of the rows and of the request when Commit decides.
LEMMA BookedIsExpected ==
  ASSUME TypeInv, NEW p \in Proposals, Commit(p), Permitted(p), Book(p),
         p.decision \in Monetary
  PROVE  /\ records' = staged
         /\ p.case = task.case
         /\ LET due == ExpectedAction(Snapshot(staged, p.case, task.operation), completed)
            IN due.decision = p.decision /\ due.amount = p.amount
<1>1. task \in Task /\ staged \in Records /\ completed \in SUBSET Keys
  BY DEF Commit, TypeInv, TypeOK
<1>2. Allowed(p, task, staged, completed)
  BY DEF Permitted
<1>3. QED
  BY <1>1, <1>2, AuthorizedIsExpected, PermittedTyped DEF Commit

\* One step of BookingsFollowRules.
BookingFollowsRules ==
  \A i \in (DOMAIN ledger') \ DOMAIN ledger :
    LET entry == ledger'[i]
        due == ExpectedAction(Snapshot(records', entry.case, entry.operation),
                              completed)
    IN entry.decision \in Monetary =>
         entry.decision = due.decision /\ entry.booked = due.amount

LEMMA BookingStep == TypeInv /\ [Next]_vars => BookingFollowsRules
<1> SUFFICES ASSUME TypeInv, [Next]_vars PROVE BookingFollowsRules
  OBVIOUS
<1>1. CASE UNCHANGED <<completed, ledger, payout_cents, refund_cents>>
  BY <1>1 DEF BookingFollowsRules
<1>2. ASSUME NEW p \in Proposals, Commit(p), Permitted(p), Book(p)
      PROVE  BookingFollowsRules
  <2>1. (DOMAIN ledger') \ DOMAIN ledger = {Len(ledger) + 1}
    BY <1>2, BookAppends
  <2>2. ledger'[Len(ledger) + 1] = Entry(p)
    BY <1>2, BookAppends
  <2>3. /\ Entry(p).case = p.case /\ Entry(p).operation = task.operation
        /\ Entry(p).decision = p.decision
        /\ p.decision \in Monetary => Entry(p).booked = p.amount
    BY DEF Entry
  <2>4. QED
    BY <1>2, <2>1, <2>2, <2>3, BookedIsExpected DEF BookingFollowsRules
<1>3. QED
  BY <1>1, <1>2, OnlyCommitBooks

\* No unsafe booking, for all rows, proposals and schedules: whatever the
\* kernel books is what the reference rules expect under the rows of that step.
THEOREM KernelBookingsFollowRules == Spec => BookingsFollowRules
<1>1. [][BookingFollowsRules]_vars => BookingsFollowRules
  BY PTL DEF BookingsFollowRules, BookingFollowsRules
<1>2. TypeInv /\ [Next]_vars => [BookingFollowsRules]_vars
  BY BookingStep
<1>3. QED
  BY <1>1, <1>2, TypeInvInit, TypeInvStep, PTL DEF Spec

-----------------------------------------------------------------------------
(* The refinement.  The promise reads the booked keys off the amounts, so a  *)
(* monetary entry of zero cents would break the correspondence: the          *)
(* invariant adds that there is none.                                        *)

PositiveBookings == \A i \in MonetaryEntries : ledger[i].booked > 0

IInv == TypeInv /\ BookedOnce /\ PositiveBookings

LEMMA PositiveStep == TypeInv /\ PositiveBookings /\ [Next]_vars => PositiveBookings'
<1> SUFFICES ASSUME TypeInv, PositiveBookings, [Next]_vars PROVE PositiveBookings'
  OBVIOUS
<1>1. CASE UNCHANGED <<completed, ledger, payout_cents, refund_cents>>
  BY <1>1 DEF PositiveBookings, MonetaryEntries
<1>2. ASSUME NEW p \in Proposals, Commit(p), Permitted(p), Book(p)
      PROVE  PositiveBookings'
  <2>1. p.decision \in Monetary => Entry(p).booked = p.amount /\ p.amount > 0
    BY <1>2, PermittedTyped DEF Entry
  <2>2. MonetaryEntries' \subseteq MonetaryEntries \cup {Len(ledger) + 1}
    BY <1>2, BookAppends DEF MonetaryEntries
  <2>3. \A i \in MonetaryEntries : ledger'[i] = ledger[i]
    BY <1>2, BookAppends DEF MonetaryEntries
  <2>4. Len(ledger) + 1 \in MonetaryEntries' => p.decision \in Monetary
    BY <1>2, BookAppends DEF MonetaryEntries
  <2>5. QED
    BY <1>2, <2>1, <2>2, <2>3, <2>4, BookAppends DEF PositiveBookings
<1>3. QED
  BY <1>1, <1>2, OnlyCommitBooks

LEMMA IInvInit == Init => IInv
BY TypeInvInit DEF IInv, Init, BookedOnce, PositiveBookings, MonetaryEntries

LEMMA IInvStep == IInv /\ [Next]_vars => IInv'
BY TypeInvStep, BookedOnceStep, PositiveStep DEF IInv

EntriesAt(k) == {i \in MonetaryEntries : KeyOf(ledger[i]) = k}

\* The amounts of the promise are the amounts of the ledger.
LEMMA BookedAtEntry ==
  ASSUME IInv
  PROVE  /\ \A k \in Keys : k \notin completed => BookedAt(k) = 0
         /\ \A i \in MonetaryEntries :
              /\ BookedAt(KeyOf(ledger[i])) = ledger[i].booked
              /\ KeyOf(ledger[i]) \in completed
<1>1. ASSUME NEW i \in MonetaryEntries
      PROVE  EntriesAt(KeyOf(ledger[i])) = {i}
  BY <1>1 DEF IInv, BookedOnce, EntriesAt
<1>2. ASSUME NEW k \in Keys, k \notin completed
      PROVE  EntriesAt(k) = {}
  BY <1>2 DEF IInv, BookedOnce, EntriesAt
<1>3. QED
  BY <1>1, <1>2 DEF BookedAt, EntriesAt, IInv, BookedOnce

\* The promise has its own copy of the workflow vocabulary: it is the same.
LEMMA PromiseVocabulary ==
  /\ Promise!Keys = Keys
  /\ Promise!Operations = Operations
  /\ Promise!Records = Records
  /\ Promise!NoRecords = NoRecords
  /\ \A o \in Operations : Promise!DecisionFor(o) = DecisionFor(o)
BY DEF Promise!Keys, Keys, Promise!Operations, Operations,
       Promise!Records, Records, Promise!NoRecords, NoRecords,
       Promise!InvoiceRow, InvoiceRow, Promise!AccountRow, AccountRow,
       Promise!AccountStatus, AccountStatus, Promise!PaymentStatus, PaymentStatus,
       Promise!ReturnStatus, ReturnStatus, Promise!DecisionFor, DecisionFor

LEMMA PromiseRules ==
  \A recs, c, o, done :
    Promise!ExpectedAction(Promise!Snapshot(recs, c, o), done)
      = ExpectedAction(Snapshot(recs, c, o), done)
<1>1. \A case, decision, amount, reason :
        Promise!Act(case, decision, amount, reason) = Act(case, decision, amount, reason)
  BY Zenon DEF Promise!Act, Act
<1>2. \A recs, c, o : Promise!Snapshot(recs, c, o) = Snapshot(recs, c, o)
  <2>1. \A recs, c : Promise!LinkedAccount(recs, c) = LinkedAccount(recs, c)
    BY Zenon DEF Promise!LinkedAccount, LinkedAccount
  <2>2. QED
    BY <2>1, Zenon DEF Promise!Snapshot, Snapshot
<1>3. \A snap : Promise!MissingEvidence(snap) <=> MissingEvidence(snap)
  BY Zenon DEF Promise!MissingEvidence, MissingEvidence
<1>4. \A snap, done : Promise!ExpectedAction(snap, done) = ExpectedAction(snap, done)
  BY <1>1, <1>3, Zenon DEF Promise!ExpectedAction, ExpectedAction
<1>5. QED
  BY <1>2, <1>4, Zenon

LEMMA PromiseBookedKeys == IInv => Promise!BookedKeys = completed
<1> SUFFICES ASSUME IInv PROVE Promise!BookedKeys = completed
  OBVIOUS
<1>1. completed \subseteq Keys
  BY DEF IInv, TypeInv, TypeOK
<1>2. ASSUME NEW k \in completed
      PROVE  BookedAt(k) > 0
  <2>1. PICK i \in MonetaryEntries : k = KeyOf(ledger[i])
    BY DEF IInv, BookedOnce
  <2>2. QED
    BY <2>1, BookedAtEntry DEF IInv, PositiveBookings
<1>3. ASSUME NEW k \in Keys, k \notin completed
      PROVE  ~(BookedAt(k) > 0)
  BY <1>3, BookedAtEntry
<1>4. QED
  BY <1>1, <1>2, <1>3, PromiseVocabulary DEF Promise!BookedKeys

\* Abbreviations of the mapped variables.
Booked == [k \in Keys |-> BookedAt(k)]
Paid == [o \in Operations |-> IF o = "payout" THEN payout_cents ELSE refund_cents]

LEMMA PromiseInit == Init => Promise!Init
<1> SUFFICES ASSUME Init PROVE Promise!Init
  OBVIOUS
<1>1. \A k \in Keys : BookedAt(k) = 0
  BY IInvInit, BookedAtEntry DEF Init
<1>2. QED
  BY <1>1, PromiseVocabulary DEF Init, Promise!Init, Operations

\* A step that books nothing is a stutter or learns rows.
LEMMA PromiseIdle ==
  ASSUME IInv, [Next]_vars, UNCHANGED <<completed, ledger, payout_cents, refund_cents>>
  PROVE  [Promise!Next]_Promise!vars
<1>1. Booked' = Booked /\ Paid' = Paid
  BY DEF Booked, Paid, BookedAt, MonetaryEntries, KeyOf
<1>2. records' \in Records
  BY IInvStep DEF IInv, TypeInv, TypeOK
<1>3. QED
  BY <1>1, <1>2, PromiseVocabulary
  DEF Promise!Next, Promise!Learn, Promise!vars, Booked, Paid

\* An allowed hold or ask_info is entered in the ledger and pays nothing.
LEMMA PromiseHold ==
  ASSUME IInv, [Next]_vars, NEW p \in Proposals,
         Commit(p), Permitted(p), Book(p), p.decision \notin Monetary
  PROVE  [Promise!Next]_Promise!vars
<1>1. /\ MonetaryEntries' = MonetaryEntries
      /\ \A i \in MonetaryEntries : ledger'[i] = ledger[i]
  BY BookAppends DEF MonetaryEntries, IInv
<1>2. Booked' = Booked
  <2>1. ASSUME NEW k \in Keys
        PROVE  EntriesAt(k)' = EntriesAt(k) /\ BookedAt(k)' = BookedAt(k)
    <3>1. EntriesAt(k)' = EntriesAt(k)
      BY <1>1 DEF EntriesAt, KeyOf
    <3>2. BookedAt(k) = IF EntriesAt(k) = {} THEN 0
                        ELSE ledger[CHOOSE i \in EntriesAt(k) : TRUE].booked
      BY DEF BookedAt, EntriesAt
    <3>3. BookedAt(k)' = IF EntriesAt(k)' = {} THEN 0
                         ELSE ledger'[CHOOSE i \in EntriesAt(k)' : TRUE].booked
      BY DEF BookedAt, EntriesAt
    <3>4. \A i \in EntriesAt(k) : ledger'[i] = ledger[i]
      BY <1>1 DEF EntriesAt
    <3>5. QED
      BY <3>1, <3>2, <3>3, <3>4
  <2>2. QED
    BY <2>1 DEF Booked
<1>3. Paid' = Paid
  <2>1. payout_cents \in Nat /\ refund_cents \in Nat
    BY DEF IInv, TypeInv, TypeOK
  <2>2. payout_cents' = payout_cents /\ refund_cents' = refund_cents
    BY <2>1 DEF Book, PayoutPart, RefundPart, Monetary
  <2>3. QED
    BY <2>2 DEF Paid
<1>4. records' \in Records
  BY IInvStep DEF IInv, TypeInv, TypeOK
<1>5. QED
  BY <1>2, <1>3, <1>4, PromiseVocabulary
  DEF Promise!Next, Promise!Learn, Promise!vars, Booked, Paid

\* An allowed approve or refund is the booking of one free key, for the amount due.
LEMMA PromiseBook ==
  ASSUME IInv, [Next]_vars, NEW p \in Proposals,
         Commit(p), Permitted(p), Book(p), p.decision \in Monetary
  PROVE  [Promise!Next]_Promise!vars
<1> DEFINE c == p.case
<1> DEFINE n == Len(ledger)
<1>0. PICK o \in Operations : o = task.operation
  BY DEF Commit, IInv, TypeInv, TypeOK, Task
<1>1. /\ c \in Cases /\ o \in Operations /\ <<c, o>> \in Keys
      /\ p.decision = DecisionFor(o) /\ p.amount > 0
      /\ p.amount \in Nat
      /\ <<c, o>> \notin completed
  <2>1. p \in RawAction /\ p.amount > 0
    BY PermittedTyped
  <2>2. MonetaryAllowed(p, o, staged, completed)
    BY <1>0 DEF Permitted, Allowed
  <2>3. p.decision = DecisionFor(o) /\ <<c, o>> \notin completed
    BY <1>0, <2>2 DEF MonetaryAllowed, NotBooked
  <2>4. QED
    BY <2>1, <2>3 DEF RawAction, Keys
<1>2. Promise!Due(records', c, o) = p.amount
  <2>1. LET e == ExpectedAction(Snapshot(records', c, o), completed)
        IN e.decision = p.decision /\ e.amount = p.amount
    BY <1>0, BookedIsExpected DEF IInv
  <2>2. QED
    BY <1>1, <2>1, PromiseRules, PromiseVocabulary, PromiseBookedKeys DEF Promise!Due
<1>3. /\ MonetaryEntries' = MonetaryEntries \cup {n + 1}
      /\ n + 1 \notin MonetaryEntries
      /\ \A i \in MonetaryEntries : ledger'[i] = ledger[i]
      /\ ledger'[n + 1] = Entry(p)
      /\ KeyOf(Entry(p)) = <<c, o>> /\ Entry(p).booked = p.amount
  <2>1. Entry(p).booked = p.amount
    BY DEF Entry
  <2>2. QED
    BY <1>0, <2>1, BookAppends DEF MonetaryEntries, IInv
<1>4. ASSUME NEW k \in Keys, k # <<c, o>>
      PROVE  BookedAt(k)' = BookedAt(k)
  <2>1. EntriesAt(k)' = EntriesAt(k)
    BY <1>3, <1>4 DEF EntriesAt, KeyOf
  <2>2. BookedAt(k) = IF EntriesAt(k) = {} THEN 0
                      ELSE ledger[CHOOSE i \in EntriesAt(k) : TRUE].booked
    BY DEF BookedAt, EntriesAt
  <2>3. BookedAt(k)' = IF EntriesAt(k)' = {} THEN 0
                       ELSE ledger'[CHOOSE i \in EntriesAt(k)' : TRUE].booked
    BY DEF BookedAt, EntriesAt
  <2>4. \A i \in EntriesAt(k) : ledger'[i] = ledger[i]
    BY <1>3 DEF EntriesAt
  <2>5. QED
    BY <2>1, <2>2, <2>3, <2>4
<1>5. BookedAt(<<c, o>>)' = p.amount
  <2>1. \A i \in MonetaryEntries : KeyOf(ledger[i]) # <<c, o>>
    BY <1>1, BookedAtEntry
  <2>2. EntriesAt(<<c, o>>)' = {n + 1}
    BY <1>3, <2>1 DEF EntriesAt, KeyOf
  <2>3. BookedAt(<<c, o>>)' = ledger'[CHOOSE i \in EntriesAt(<<c, o>>)' : TRUE].booked
    BY <2>2 DEF BookedAt, EntriesAt
  <2>4. QED
    BY <1>3, <2>2, <2>3
<1>6. Booked' = [Booked EXCEPT ![<<c, o>>] = p.amount]
  BY <1>1, <1>4, <1>5 DEF Booked
<1>7. Paid' = [Paid EXCEPT ![o] = @ + p.amount]
  <2>1. payout_cents \in Nat /\ refund_cents \in Nat
    BY DEF IInv, TypeInv, TypeOK
  <2>2. /\ payout_cents' = IF o = "payout" THEN payout_cents + p.amount ELSE payout_cents
        /\ refund_cents' = IF o = "payout" THEN refund_cents ELSE refund_cents + p.amount
    BY <1>0, <1>1, <2>1 DEF Book, PayoutPart, RefundPart, DecisionFor
  <2>3. QED
    BY <1>1, <2>2 DEF Paid, Operations
<1>8. records' \in Records
  BY IInvStep DEF IInv, TypeInv, TypeOK
<1>9. Promise!Book(c, o)
  BY <1>1, <1>2, <1>6, <1>7, <1>8, PromiseVocabulary DEF Promise!Book, Booked, Paid
<1>10. QED
  BY <1>1, <1>9, PromiseVocabulary DEF Promise!Next

LEMMA PromiseStep == IInv /\ [Next]_vars => [Promise!Next]_Promise!vars
<1> SUFFICES ASSUME IInv, [Next]_vars PROVE [Promise!Next]_Promise!vars
  OBVIOUS
<1>1. CASE UNCHANGED <<completed, ledger, payout_cents, refund_cents>>
  BY <1>1, PromiseIdle
<1>2. ASSUME NEW p \in Proposals, Commit(p), Permitted(p), Book(p)
      PROVE  [Promise!Next]_Promise!vars
  <2>1. CASE p.decision \in Monetary
    BY <1>2, <2>1, PromiseBook
  <2>2. CASE p.decision \notin Monetary
    BY <1>2, <2>2, PromiseHold
  <2>3. QED
    BY <2>1, <2>2
<1>3. QED
  BY <1>1, <1>2, OnlyCommitBooks

\* For all constants the kernel refines the promise: every call, whatever it
\* raised or denied before, is one step that learns rows and books at most one
\* free key for the amount due, or cannot be seen.
THEOREM KernelKeepsPromise == Spec => KeepsPromise
<1>1. Init /\ [][Next]_vars => Promise!Init /\ [][Promise!Next]_Promise!vars
  BY IInvInit, IInvStep, PromiseInit, PromiseStep, PTL
<1>2. QED
  BY <1>1, PTL DEF Spec, KeepsPromise, Promise!Spec

-----------------------------------------------------------------------------
(* The accounts.  The auditor's sums run over the entries of one decision, so *)
(* an appended entry joins one sum or neither; the requests are counted with  *)
(* the one of the call in progress, which is still fresh.                     *)

(* Sums are folds of + that take any element next. *)
Plus(x, y) == x + y
AnyOf(S) == CHOOSE x \in S : TRUE
Sums == INSTANCE FoldLemmas WITH op <- Plus, pick <- AnyOf
SumOver(f, S) == Sums!Fold(f, 0, S)

LEMMA AnyPicks ==
  ASSUME NEW S, IsFiniteSet(S)
  PROVE  Sums!Picks(S) /\ Sums!IsFiniteSet(S)
<1>1. Sums!Picks(S)
  BY DEF Sums!Picks, AnyOf
<1>2. Sums!IsFiniteSet(S)
  BY DEF Sums!IsFiniteSet, IsFiniteSet
<1> QED  BY <1>1, <1>2

LEMMA SumOfNaturals ==
  ASSUME NEW S, IsFiniteSet(S), NEW f, \A x \in S : f[x] \in Nat
  PROVE  SumOver(f, S) \in Nat
<1>1. \A a \in Nat, b \in Nat : Plus(a, b) \in Nat
  BY DEF Plus
<1>2. Sums!Picks(S) /\ Sums!IsFiniteSet(S)
  BY AnyPicks
<1>3. Sums!Fold(f, 0, S) \in Nat
  BY <1>1, <1>2, 0 \in Nat, Sums!FoldTyped, Zenon
<1> QED  BY <1>3 DEF SumOver

LEMMA SumRemove ==
  ASSUME NEW S, IsFiniteSet(S), NEW f, \A x \in S : f[x] \in Nat, NEW x \in S
  PROVE  SumOver(f, S) = f[x] + SumOver(f, S \ {x})
<1>1. Sums!Commutes(Nat)
  BY DEF Sums!Commutes, Plus
<1>2. Sums!Picks(S) /\ Sums!IsFiniteSet(S)
  BY AnyPicks
<1>3. Sums!Fold(f, 0, S) = Plus(f[x], Sums!Fold(f, 0, S \ {x}))
  BY <1>1, <1>2, 0 \in Nat, Sums!FoldRemove
<1> QED  BY <1>3 DEF SumOver, Plus

LEMMA SumSame ==
  ASSUME NEW S, IsFiniteSet(S), NEW f, NEW e, \A x \in S : f[x] = e[x]
  PROVE  SumOver(f, S) = SumOver(e, S)
<1>1. Sums!Picks(S) /\ Sums!IsFiniteSet(S)
  BY AnyPicks
<1> QED  BY <1>1, Sums!FoldSame, Zenon DEF SumOver

Booking(q) == [i \in DOMAIN q |-> q[i].booked]
EntriesOf(q, decision) == {i \in DOMAIN q : q[i].decision = decision}
BookedIn(q, S) == MapThenSumSet(LAMBDA i : q[i].booked, S)

LEMMA BookedInIs ==
  ASSUME NEW q, NEW S, IsFiniteSet(S), S \subseteq DOMAIN q
  PROVE  BookedIn(q, S) = SumOver(Booking(q), S)
<1> DEFINE Direct(s, g) == IF s = {} THEN 0
                           ELSE q[CHOOSE x \in s : TRUE].booked + g[s \ {CHOOSE x \in s : TRUE}]
           Right(g) == g = [s \in SUBSET S |-> Direct(s, g)]
           Step(s, g) == Sums!Step(Booking(q), 0, s, g)
           Solves(g) == Sums!Solves(Booking(q), 0, S, g)
<1>0. Sums!Picks(S) /\ Sums!IsFiniteSet(S)
  BY AnyPicks
<1>1. ASSUME NEW g, NEW s \in SUBSET S  PROVE Direct(s, g) = Step(s, g)
  <2>1. s # {} => AnyOf(s) \in DOMAIN q
    BY DEF AnyOf
  <2> QED  BY <2>1 DEF Sums!Step, Plus, AnyOf, Booking
<1>2. \A g : [s \in SUBSET S |-> Direct(s, g)] = [s \in SUBSET S |-> Step(s, g)]
  BY <1>1
<1>3. \A g : Right(g) <=> Solves(g)
  BY <1>2, Zenon DEF Sums!Solves
<1>4. \E g : Right(g)
  <2>1. \E g : Solves(g)
    BY <1>0, Sums!FoldExists
  <2> HIDE DEF Right, Solves
  <2> QED  BY <1>3, <2>1, Zenon
<1>5. BookedIn(q, S) = (CHOOSE g : Right(g))[S]
  BY DEF BookedIn, MapThenSumSet, MapThenFoldSet
<1>6. Right(CHOOSE g : Right(g))
  <2> HIDE DEF Right
  <2> QED  BY <1>4, Zenon
<1>7. Solves(CHOOSE g : Right(g))
  BY <1>3, <1>6
<1>8. (CHOOSE g : Right(g))[S] = Sums!Fold(Booking(q), 0, S)
  <2>1. S \in SUBSET S
    OBVIOUS
  <2> HIDE DEF Right
  <2> QED  BY <1>0, <1>7, <2>1, Sums!FoldInside
<1> HIDE DEF Right
<1> QED  BY <1>5, <1>8 DEF SumOver

LEMMA EntriesFinite ==
  ASSUME NEW q \in Seq(LedgerEntry), NEW d
  PROVE  EntriesOf(q, d) \subseteq DOMAIN q /\ IsFiniteSet(EntriesOf(q, d))
<1>1. IsFiniteSet(DOMAIN q)
  <2>1. DOMAIN q = 1..Len(q) /\ Len(q) \in Int /\ 1 \in Int
    OBVIOUS
  <2>2. IsFiniteSet(1..Len(q))
    BY <2>1, FS_Interval
  <2> QED  BY <2>1, <2>2
<1>2. EntriesOf(q, d) \in SUBSET DOMAIN q
  BY DEF EntriesOf
<1> QED  BY <1>1, <1>2, FS_Subset

LEMMA EntriesSum ==
  ASSUME NEW q \in Seq(LedgerEntry), NEW d
  PROVE  BookedIn(q, EntriesOf(q, d)) = SumOver(Booking(q), EntriesOf(q, d))
BY EntriesFinite, BookedInIs

LEMMA TotalsAreSums ==
  ASSUME TypeInv, TypeInv'
  PROVE  \A d : /\ TotalOf(d) = SumOver(Booking(ledger), EntriesOf(ledger, d))
                /\ TotalOf(d)' = SumOver(Booking(ledger)', EntriesOf(ledger, d)')
<1>1. ledger \in Seq(LedgerEntry) /\ ledger' \in Seq(LedgerEntry)
  BY DEF TypeInv, TypeOK
<1>2. \A d : TotalOf(d) = BookedIn(ledger, EntriesOf(ledger, d))
  BY DEF TotalOf, BookedIn, EntriesOf, MapThenSumSet, MapThenFoldSet
<1>3. \A d : TotalOf(d)' = BookedIn(ledger', EntriesOf(ledger', d))
  BY DEF TotalOf, BookedIn, EntriesOf, MapThenSumSet, MapThenFoldSet
<1>4. \A d : /\ Booking(ledger)' = Booking(ledger')
             /\ EntriesOf(ledger, d)' = EntriesOf(ledger', d)
  BY DEF Booking, EntriesOf
<1> QED  BY <1>1, <1>2, <1>3, <1>4, EntriesSum

\* An allowed Commit adds its amount to the sum of its own decision only.
LEMMA SumsOfBook ==
  ASSUME TypeInv, NEW p \in Proposals, Commit(p), Permitted(p), Book(p), NEW d
  PROVE  /\ SumOver(Booking(ledger)', EntriesOf(ledger, d)')
              = SumOver(Booking(ledger), EntriesOf(ledger, d))
                + IF p.decision = d THEN Entry(p).booked ELSE 0
         /\ SumOver(Booking(ledger), EntriesOf(ledger, d)) \in Nat
<1> DEFINE n == Len(ledger)
           E == EntriesOf(ledger, d)
           F == EntriesOf(ledger, d)'
           f == Booking(ledger)
           g == Booking(ledger)'
<1>1. /\ \A i \in DOMAIN ledger : f[i] \in Nat /\ g[i] = f[i]
      /\ g[n + 1] = Entry(p).booked /\ Entry(p).booked \in Nat
      /\ n + 1 \notin DOMAIN ledger
  <2>1. \A e \in LedgerEntry : e.booked \in Nat
    BY DEF LedgerEntry
  <2>2. /\ \A i \in DOMAIN ledger : i \in DOMAIN ledger' /\ ledger'[i] = ledger[i]
                                     /\ ledger[i] \in LedgerEntry
        /\ n + 1 \in DOMAIN ledger' /\ n + 1 \notin DOMAIN ledger
        /\ ledger'[n + 1] = Entry(p) /\ Entry(p) \in LedgerEntry
    BY BookAppends
  <2> HIDE DEF n
  <2> QED  BY <2>1, <2>2 DEF Booking
<1>2. /\ p.decision = d => F = E \cup {n + 1}
      /\ p.decision # d => F = E
  BY BookAppends DEF EntriesOf
<1>3. E \subseteq DOMAIN ledger /\ IsFiniteSet(E) /\ IsFiniteSet(E \cup {n + 1})
  <2>1. E \subseteq DOMAIN ledger /\ IsFiniteSet(E)
    BY EntriesFinite DEF TypeInv, TypeOK
  <2> HIDE DEF E
  <2> QED  BY <2>1, FS_AddElement
<1>4. \A i \in E \cup {n + 1} : g[i] \in Nat
  BY <1>1, <1>3
<1>5. SumOver(g, E) = SumOver(f, E) /\ SumOver(f, E) \in Nat
  <2>1. \A i \in E : g[i] = f[i] /\ f[i] \in Nat
    BY <1>1, <1>3
  <2> HIDE DEF E, F, f, g
  <2> QED  BY <1>3, <2>1, SumSame, SumOfNaturals
<1>6. SumOver(g, E \cup {n + 1}) = g[n + 1] + SumOver(g, E)
  <2>1. (E \cup {n + 1}) \ {n + 1} = E
    BY <1>1, <1>3
  <2>2. n + 1 \in E \cup {n + 1}
    OBVIOUS
  <2> HIDE DEF E, F, f, g, n
  <2> QED  BY <1>3, <1>4, <2>1, <2>2, SumRemove
<1>7. SumOver(g, F) = SumOver(f, E) + IF p.decision = d THEN Entry(p).booked ELSE 0
  <2> HIDE DEF E, F, f, g, n
  <2>1. CASE p.decision = d
    <3>1. SumOver(g, F) = Entry(p).booked + SumOver(f, E)
      BY <1>1, <1>2, <1>5, <1>6, <2>1, Zenon
    <3>2. Entry(p).booked \in Nat /\ SumOver(f, E) \in Nat
      BY <1>1, <1>5
    <3> QED  BY <2>1, <3>1, <3>2
  <2>2. CASE p.decision # d
    BY <1>2, <1>5, <2>2
  <2> QED  BY <2>1, <2>2
<1> QED  BY <1>5, <1>7

LEMMA TotalsStep ==
  ASSUME TypeInv, TypeInv', TotalsReconcile, [Next]_vars
  PROVE  TotalsReconcile'
<1>1. /\ payout_cents = SumOver(Booking(ledger), EntriesOf(ledger, "approve"))
      /\ refund_cents = SumOver(Booking(ledger), EntriesOf(ledger, "refund"))
  BY TotalsAreSums DEF TotalsReconcile
<1>2. /\ payout_cents' = SumOver(Booking(ledger)', EntriesOf(ledger, "approve")')
      /\ refund_cents' = SumOver(Booking(ledger)', EntriesOf(ledger, "refund")')
  <2>1. CASE UNCHANGED <<completed, ledger, payout_cents, refund_cents>>
    BY <1>1, <2>1 DEF Booking, EntriesOf
  <2>2. ASSUME NEW p \in Proposals, Commit(p), Permitted(p), Book(p)
        PROVE  <1>2!1 /\ <1>2!2
    <3>1. /\ p.decision \in Monetary => Entry(p).booked = p.amount
          /\ p.amount \in Nat
      BY <2>2, PermittedTyped DEF Entry, RawAction
    <3>2. /\ payout_cents' = payout_cents + (IF p.decision = "approve" THEN Entry(p).booked ELSE 0)
          /\ refund_cents' = refund_cents + (IF p.decision = "refund" THEN Entry(p).booked ELSE 0)
      BY <2>2, <3>1 DEF Book, PayoutPart, RefundPart, Monetary
    <3> QED  BY <1>1, <2>2, <3>2, SumsOfBook
  <2> QED  BY <2>1, <2>2, OnlyCommitBooks
<1> QED  BY <1>2, TotalsAreSums DEF TotalsReconcile

\* The requests consumed are counted by the steps, the one of the call in
\* progress is not among them, and the ledger cites only consumed ones.
RequestsKnown ==
  /\ IsFiniteSet(request_ids)
  /\ task # None => task.request_id \notin request_ids
  /\ \A i \in DOMAIN ledger : /\ ledger[i].step < next_step
                              /\ ledger[i].request_id \in request_ids

SoundInv == TypeInv /\ LedgerSound /\ RequestsKnown

LEMMA RequestsQuietStep ==
  ASSUME TypeInv, RequestsKnown, RequestsAccounted, [Next]_vars,
         \A p \in Proposals : ~Commit(p)
  PROVE  RequestsKnown' /\ RequestsAccounted'
<1>1. UNCHANGED committed
  BY DEF Next, BeginStep, Stage, StageMessage, StageRecord, FreshEvent, WorkOnCopies, Raise, vars
<1>2. task' # None => task'.request_id \notin request_ids
  <2>1. ASSUME NEW t \in Task, NEW i \in 0 .. MaxSteps, BeginStep(i, t)
        PROVE  task'.request_id \notin request_ids
    BY <2>1 DEF BeginStep, FreshRequest
  <2>2. (\E e \in EventIds : Stage(e)) \/ Raise \/ UNCHANGED vars => task' \in {task, None}
    BY DEF Stage, StageMessage, StageRecord, FreshEvent, Raise, vars, locals
  <2> QED  BY <2>1, <2>2 DEF Next, RequestsKnown
<1> QED  BY <1>1, <1>2 DEF RequestsKnown, RequestsAccounted, committed

LEMMA RequestsCommit ==
  ASSUME TypeInv, RequestsKnown, RequestsAccounted, [Next]_vars,
         NEW p \in Proposals, Commit(p)
  PROVE  RequestsKnown' /\ RequestsAccounted'
<1> DEFINE r == task.request_id
<1>1. /\ request_ids' = request_ids \cup {r} /\ next_step' = next_step + 1
      /\ task' = None /\ r \notin request_ids
      /\ next_step \in Nat
  BY DEF Commit, RequestsKnown, TypeInv, TypeOK
<1>2. IsFiniteSet(request_ids') /\ Cardinality(request_ids') = next_step'
  <2>1. IsFiniteSet(request_ids) /\ Cardinality(request_ids) = next_step
    BY DEF RequestsKnown, RequestsAccounted
  <2>2. /\ IsFiniteSet(request_ids \cup {r})
        /\ Cardinality(request_ids \cup {r}) = Cardinality(request_ids) + 1
    BY <1>1, <2>1, FS_AddElement
  <2> QED  BY <1>1, <2>1, <2>2
<1>3. \A i \in DOMAIN ledger : ledger[i].step \in Nat
  <2>1. ledger \in Seq(LedgerEntry)
    BY DEF TypeInv, TypeOK
  <2>2. \A e \in LedgerEntry : e.step \in Nat
    BY DEF LedgerEntry
  <2> QED  BY <2>1, <2>2
<1>4. CASE UNCHANGED ledger
  BY <1>1, <1>2, <1>3, <1>4 DEF RequestsKnown, RequestsAccounted
<1>5. CASE Permitted(p) /\ Book(p)
  <2> DEFINE n == Len(ledger)
  <2>1. /\ DOMAIN ledger' = (DOMAIN ledger) \cup {n + 1} /\ DOMAIN ledger = 1 .. n
        /\ n \in Nat
        /\ \A i \in DOMAIN ledger : ledger'[i] = ledger[i]
        /\ ledger'[n + 1].step = next_step /\ ledger'[n + 1].request_id = r
    <3>1. Entry(p).step = next_step /\ Entry(p).request_id = r
      BY DEF Entry
    <3>2. /\ DOMAIN ledger = 1 .. n /\ n \in Nat /\ DOMAIN ledger' = 1 .. (n + 1)
          /\ \A i \in DOMAIN ledger : ledger'[i] = ledger[i]
          /\ ledger'[n + 1] = Entry(p)
      BY <1>5, BookAppends
    <3> HIDE DEF n, r
    <3>3. DOMAIN ledger' = (DOMAIN ledger) \cup {n + 1}
      BY <3>2
    <3> QED  BY <3>1, <3>2, <3>3 DEF r
  <2>2. \A i \in DOMAIN ledger : /\ ledger[i].step < next_step
                                 /\ ledger[i].request_id \in request_ids
    BY DEF RequestsKnown
  <2>3. \A i, j \in DOMAIN ledger' : i < j =>
          i \in DOMAIN ledger /\ (j \in DOMAIN ledger \/ j = n + 1)
    BY <2>1
  <2>4. \A i, j \in DOMAIN ledger : i < j =>
          /\ ledger[i].step < ledger[j].step
          /\ ledger[i].request_id # ledger[j].request_id
    BY DEF RequestsAccounted
  <2> HIDE DEF n, r
  <2>5. ASSUME NEW i \in DOMAIN ledger', NEW j \in DOMAIN ledger', i < j
        PROVE  /\ ledger'[i].step < ledger'[j].step
               /\ ledger'[i].request_id # ledger'[j].request_id
    <3>1. CASE j \in DOMAIN ledger
      BY <2>1, <2>3, <2>4, <2>5, <3>1
    <3>2. CASE j = n + 1
      BY <1>1, <2>1, <2>2, <2>3, <2>5, <3>2
    <3> QED  BY <2>3, <2>5, <3>1, <3>2
  <2>6. \A i \in DOMAIN ledger' : /\ ledger'[i].step < next_step'
                                  /\ ledger'[i].request_id \in request_ids'
    BY <1>1, <1>3, <2>1, <2>2
  <2> QED  BY <1>1, <1>2, <2>5, <2>6 DEF RequestsKnown, RequestsAccounted
<1> QED  BY <1>4, <1>5 DEF Commit

LEMMA SoundInit == Init => SoundInv
<1> SUFFICES ASSUME Init  PROVE SoundInv
  OBVIOUS
<1>1. TypeInv /\ BookedOnce
  BY TypeInvInit DEF Init, BookedOnce, MonetaryEntries
<1>2. \A d : TotalOf(d) = 0
  <2>1. ledger \in Seq(LedgerEntry) /\ \A d : EntriesOf(ledger, d) = {}
    BY DEF Init, EntriesOf
  <2>2. \A d : TotalOf(d) = BookedIn(ledger, EntriesOf(ledger, d))
    BY DEF TotalOf, BookedIn, EntriesOf, MapThenSumSet, MapThenFoldSet
  <2>3. \A d : SumOver(Booking(ledger), {}) = 0
    BY FS_EmptySet, Sums!FoldOfNone DEF SumOver
  <2> QED  BY <2>1, <2>2, <2>3, EntriesSum
<1>3. RequestsKnown /\ RequestsAccounted
  BY FS_EmptySet DEF Init, RequestsKnown, RequestsAccounted
<1> QED  BY <1>1, <1>2, <1>3 DEF Init, SoundInv, LedgerSound, TotalsReconcile

LEMMA SoundStep == SoundInv /\ [Next]_vars => SoundInv'
<1> SUFFICES ASSUME SoundInv, [Next]_vars  PROVE SoundInv'
  OBVIOUS
<1>1. TypeInv' /\ BookedOnce'
  BY TypeInvStep, BookedOnceStep DEF SoundInv, LedgerSound
<1>2. TotalsReconcile'
  BY <1>1, TotalsStep DEF SoundInv, LedgerSound
<1>3. RequestsKnown' /\ RequestsAccounted'
  BY RequestsQuietStep, RequestsCommit DEF SoundInv, LedgerSound
<1> QED  BY <1>1, <1>2, <1>3 DEF SoundInv, LedgerSound

\* Whatever the actor proposes and whichever calls raise, an auditor finds the
\* ledger sound: each key booked once, the totals its sums, a request per step.
THEOREM KernelLedgerSound == Spec => []LedgerSound
<1>1. SoundInv => LedgerSound
  BY DEF SoundInv
<1> QED  BY <1>1, SoundInit, SoundStep, PTL DEF Spec

=============================================================================
