---------------------------- MODULE WorkflowRules ----------------------------
(***************************************************************************)
(* The vocabulary of the fictional BRL workflow: the four record sources,  *)
(* the record_decision action with its strict parser, and the reference    *)
(* business rules (rcwt_agent_env.py) that grade an action.                *)
(*                                                                         *)
(* Identifiers are members of small sets.  None stands for an absent row,  *)
(* an absent field and a JSON null, which the program treats alike.        *)
(***************************************************************************)
EXTENDS Integers, FiniteSets

CONSTANTS
  Cases,      \* invoice identifiers; a case is an invoice
  Accounts,   \* settlement account identifiers
  Merchants,  \* merchant identifiers
  Orders,     \* order identifiers
  MaxCents,   \* largest amount, in cents, that occurs
  None        \* absent row, field or value

ASSUME MaxCentsAssumption == MaxCents \in Nat \ {0}

ASSUME NoneAssumption ==
  /\ None \notin Accounts \cup Merchants \cup Orders
  /\ None \notin 0..MaxCents
  /\ None \notin {"active", "blocked", "revoked", "unknown",
                  "pending", "cleared", "accepted", "rejected"}

-----------------------------------------------------------------------------
(* Requests and actions *)

Operations == {"payout", "refund"}
Decisions  == {"approve", "hold", "refund", "ask_info"}
Monetary   == {"approve", "refund"}

ReasonCodes == {"authorized_payout", "eligible_refund", "already_completed",
                "account_restricted", "ownership_mismatch", "missing_evidence",
                "funds_unsettled", "return_rejected"}

\* The idempotency keys: a payout and a refund of one invoice are separate.
Keys == Cases \X Operations

DecisionFor(operation) == IF operation = "payout" THEN "approve" ELSE "refund"

\* The shapes json.loads can hand to parse_action, field types aside.
RawAction == [case: Cases, decision: Decisions, amount: 0..MaxCents,
              reason: ReasonCodes]

\* Text that is not one JSON record_decision call at all.
Malformed == [case |-> None, decision |-> "malformed", amount |-> 0,
              reason |-> "none"]

\* parse_action: hold and ask_info carry no money, approve and refund do.
Parses(a) ==
  /\ a.decision \in Decisions
  /\ a.decision \in Monetary <=> a.amount > 0

-----------------------------------------------------------------------------
(* The rows of the four read_* sources *)

AccountStatus == {"active", "blocked", "revoked", "unknown", None}
PaymentStatus == {"pending", "cleared", "unknown", None}
ReturnStatus  == {"accepted", "rejected", "unknown", None}

InvoiceRow == [account_id: Accounts \cup {None},
               merchant_id: Merchants \cup {None},
               order_id: Orders \cup {None},
               total_cents: (0..MaxCents) \cup {None},
               currency: {"BRL", "other", None}]

AccountRow == [status: AccountStatus, holder: Merchants \cup {None}]

ASSUME NoRowAssumption == None \notin InvoiceRow /\ None \notin AccountRow

Records == [read_invoice: [Cases -> InvoiceRow \cup {None}],
            read_account: [Accounts -> AccountRow \cup {None}],
            read_payment: [Cases -> PaymentStatus],
            read_return:  [Orders -> ReturnStatus]]

NoRecords == [read_invoice |-> [c \in Cases |-> None],
              read_account |-> [a \in Accounts |-> None],
              read_payment |-> [c \in Cases |-> None],
              read_return  |-> [o \in Orders |-> None]]

\* A source row replaces the previous row of its identifier as a whole.
Replace(recs, tool, id, row) == [recs EXCEPT ![tool][id] = row]

-----------------------------------------------------------------------------
(* The private reference: what the known rows say about one request. *)

LinkedAccount(recs, case) ==
  LET invoice == recs.read_invoice[case] IN
  IF invoice = None \/ invoice.account_id = None
    THEN None ELSE recs.read_account[invoice.account_id]

Snapshot(recs, case, operation) ==
  LET invoice == recs.read_invoice[case]
      account == LinkedAccount(recs, case)
  IN [case |-> case,
      operation |-> operation,
      amount_cents |-> IF invoice = None THEN None ELSE invoice.total_cents,
      account_status |-> IF account = None THEN None ELSE account.status,
      ownership_match |-> IF invoice = None \/ account = None THEN "unknown"
                          ELSE IF account.holder = invoice.merchant_id
                                 THEN "match" ELSE "mismatch",
      payment_status |-> recs.read_payment[case],
      return_status |-> IF invoice = None \/ invoice.order_id = None THEN None
                        ELSE recs.read_return[invoice.order_id]]

MissingEvidence(snap) ==
  \/ snap.amount_cents = None
  \/ snap.account_status \in {None, "unknown"}
  \/ snap.ownership_match = "unknown"
  \/ snap.payment_status \in {None, "unknown"}
  \/ snap.operation = "refund" /\ snap.return_status \in {None, "unknown"}

Act(case, decision, amount, reason) ==
  [case |-> case, decision |-> decision, amount |-> amount, reason |-> reason]

\* The priority order of PUBLIC_RULES: the first rule that applies decides.
ExpectedAction(snap, completed) ==
  IF <<snap.case, snap.operation>> \in completed
    THEN Act(snap.case, "hold", 0, "already_completed")
  ELSE IF snap.account_status \in {"revoked", "blocked"}
    THEN Act(snap.case, "hold", 0, "account_restricted")
  ELSE IF snap.ownership_match = "mismatch"
    THEN Act(snap.case, "hold", 0, "ownership_mismatch")
  ELSE IF MissingEvidence(snap)
    THEN Act(snap.case, "ask_info", 0, "missing_evidence")
  ELSE IF snap.payment_status # "cleared"
    THEN Act(snap.case, "hold", 0, "funds_unsettled")
  ELSE IF snap.operation = "refund" /\ snap.return_status = "rejected"
    THEN Act(snap.case, "hold", 0, "return_rejected")
  ELSE IF snap.operation = "payout"
    THEN Act(snap.case, "approve", snap.amount_cents, "authorized_payout")
  ELSE Act(snap.case, "refund", snap.amount_cents, "eligible_refund")

=============================================================================
