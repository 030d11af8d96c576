------------------------------ MODULE PublicCards ------------------------------
(***************************************************************************)
(* What the actor reads: the v3 card over retained facts only              *)
(* (rcwt_retrieval_v3.py), the v4 card of retained facts overlaid with the *)
(* current step (rcwt_context_v4.py), and the ordered guide that the actor *)
(* is told to apply to the card (rcwt_decision_v4.py).                     *)
(* An observation is a record of a tool, an identifier and a row.          *)
(***************************************************************************)
EXTENDS MemoryLedger

\* Facts and links by explicit joins; what is not known is unknown or null.
Facts(m, t) ==
  LET invoice == m.rows.read_invoice[t.case]
      link(field) == IF invoice = None THEN None ELSE invoice[field]
      account == IF link("account_id") = None THEN None
                 ELSE m.rows.read_account[link("account_id")]
      holder == IF account = None THEN None ELSE account.holder
      returned == IF link("order_id") = None THEN None ELSE m.rows.read_return[link("order_id")]
      known(status) == IF status = None THEN "unknown" ELSE status
  IN [invoice_amount_cents |-> link("total_cents"),
      account_status |-> IF account = None THEN "unknown" ELSE known(account.status),
      ownership_match |-> IF None \in {link("merchant_id"), holder} THEN "unknown"
                          ELSE IF link("merchant_id") = holder THEN "yes" ELSE "no",
      payment_status |-> known(m.rows.read_payment[t.case]),
      return_status |-> known(returned),
      operation_already_booked |->
        IF m.booked[<<t.case, t.operation>>] > 0 THEN "yes" ELSE "no_record"]

-----------------------------------------------------------------------------
(* v4: the current observations replace retained rows before any join *)

OverlayMissing(m, shown) ==  \* mutant: only what is not retained is taken over
  LET newer(acc, o) ==
        IF acc.rows[o.tool][o.id] # None THEN acc
        ELSE [acc EXCEPT !.rows = Replace(@, o.tool, o.id, ExplicitRow(o.tool, o.row))]
  IN FoldLeft(newer, m, shown)

OverlayCurrent(m, shown) ==
  LET newer(acc, o) ==
        [acc EXCEPT !.rows = Replace(@, o.tool, o.id, ExplicitRow(o.tool, o.row))]
  IN FoldLeft(newer, m, shown)

ContextCard(m, shown, t) == Facts(OverlayCurrent(m, shown), t)

-----------------------------------------------------------------------------
(* v3: the current observations only invalidate what they may supersede *)

Updated(shown, tool, id) == \E i \in DOMAIN shown : shown[i].tool = tool /\ shown[i].id = id

\* Mutant: each source invalidates its own fields, not what was joined through it.
OwnFieldsMasked(m, shown, t) ==
  {f \in {"invoice_amount_cents", "payment_status"} :
     Updated(shown, IF f = "payment_status" THEN "read_payment" ELSE "read_invoice", t.case)}

Masked(m, shown, t) ==
  LET invoice == m.rows.read_invoice[t.case] IN
  (IF Updated(shown, "read_invoice", t.case)
     THEN {"invoice_amount_cents", "account_status", "ownership_match", "return_status"} ELSE {})
  \cup (IF invoice # None /\ invoice.account_id # None
           /\ Updated(shown, "read_account", invoice.account_id)
          THEN {"account_status", "ownership_match"} ELSE {})
  \cup (IF Updated(shown, "read_payment", t.case) THEN {"payment_status"} ELSE {})
  \cup (IF invoice # None /\ invoice.order_id # None
           /\ Updated(shown, "read_return", invoice.order_id)
          THEN {"return_status"} ELSE {})

\* A case that no component of the memory is anchored by has no card at all.
ReadCard(m, shown, t) ==
  IF ~Anchored(m, t.case) THEN <<>>
  ELSE LET facts == Facts(m, t)
       IN [f \in DOMAIN facts \ Masked(m, shown, t) |-> facts[f]]

-----------------------------------------------------------------------------
(* The ordered rule guide: the first true condition decides *)

Missing(card, t) ==
  \/ card.invoice_amount_cents = None
  \/ "unknown" \in {card.account_status, card.ownership_match, card.payment_status}
  \/ t.operation = "refund" /\ card.return_status = "unknown"

\* The last condition always holds: it is rule 6.
Conditions(card, t) ==
  <<card.operation_already_booked = "yes",
    card.account_status \in {"blocked", "revoked"},
    card.ownership_match = "no",
    Missing(card, t),
    card.payment_status = "pending",
    t.operation = "refund" /\ card.return_status = "rejected",
    TRUE>>

Outcomes(card, t) ==
  LET refused(decision, reason) == Act(t.case, decision, 0, reason) IN
  <<refused("hold", "already_completed"),
    refused("hold", "account_restricted"),
    refused("hold", "ownership_mismatch"),
    refused("ask_info", "missing_evidence"),
    refused("hold", "funds_unsettled"),
    refused("hold", "return_rejected"),
    Act(t.case, DecisionFor(t.operation), card.invoice_amount_cents,
        IF t.operation = "payout" THEN "authorized_payout" ELSE "eligible_refund")>>

\* Mutants: the last true condition but rule 6 decides; a payment or a return
\* that is not settled does not stop the money.
GuidedByLast(card, t) ==
  LET true == {i \in 1..6 : Conditions(card, t)[i]}
  IN Outcomes(card, t)[IF true = {} THEN 7 ELSE CHOOSE i \in true : \A j \in true : j <= i]
GuidedUnsettled(card, t) ==
  Outcomes(card, t)[SelectInSeq([Conditions(card, t) EXCEPT ![5] = FALSE, ![6] = FALSE],
                                LAMBDA holds : holds)]

Guided(card, t) == Outcomes(card, t)[SelectInSeq(Conditions(card, t), LAMBDA holds : holds)]
=============================================================================
