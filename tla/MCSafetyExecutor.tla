-------------------------- MODULE MCSafetyExecutor --------------------------
(* Small instances of the safety kernel for TLC. *)
EXTENDS SafetyExecutor, TLC

CONSTANTS c1, c2, a1, a2, m1, m2, o1, o2

Bill(account, merchant, order, cents, currency) ==
  [account_id |-> account, merchant_id |-> merchant, order_id |-> order,
   total_cents |-> cents, currency |-> currency]

Holder(status, merchant) == [status |-> status, holder |-> merchant]

\* One invoice, every kind of row: each guard of authorize_action decides.
OneInvoiceRows == {Bill(a1, m1, o1, 2, "BRL"), Bill(a1, m1, o1, 1, "BRL"),
                   Bill(a1, m1, None, 2, "BRL"), Bill(a1, m1, o1, 2, "other"),
                   Bill(None, m1, o1, 2, "BRL"), Bill(a1, m1, o1, 0, "BRL")}
OneAccountRows == {Holder("active", m1), Holder("active", m2),
                   Holder("revoked", m1), Holder("active", None)}

\* Two invoices sharing an account and an order: only the joins differ.
TwoInvoiceRows == {Bill(a1, m1, o1, 1, "BRL"), Bill(a1, m2, o1, 2, "BRL")}
TwoAccountRows == {Holder("active", m1), Holder("active", m2)}

\* The reason code never reaches the kernel's decision, so one is enough.
Proposed(amounts) ==
  {Malformed} \cup
  {[case |-> c, decision |-> d, amount |-> n, reason |-> "missing_evidence"] :
     c \in Cases, d \in Decisions, n \in amounts}
AllProposals == Proposed(0..MaxCents)
PayOrHold == {p \in AllProposals : /\ Parses(p)
                                   /\ \/ p.decision \in Monetary
                                      \/ p.decision = "hold" /\ p.case = c1}

\* Identifiers are opaque, so using them in order loses no behaviour but those
\* equal to a kept one up to renaming: symmetry by hand, cheaper than SYMMETRY.
IdsInOrder ==
  /\ staged_event_ids = 1..Cardinality(staged_event_ids)
  /\ request_ids = 1..Cardinality(request_ids)
  /\ task # None => task.request_id <= Cardinality(request_ids) + 1
=============================================================================
