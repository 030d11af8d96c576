----------------------------- MODULE MCAgentLoop -----------------------------
(* Two invoices of one account, the second without an order. *)
EXTENDS AgentLoop

CONSTANTS c1, c2, a1, m1, m2, o1

Invoice(account, order) ==
  [account_id |-> account, merchant_id |-> m1, order_id |-> order,
   total_cents |-> 1, currency |-> "BRL"]
SmallInvoiceRows == {Invoice(a1, o1), Invoice(a1, None)}
SmallAccountRows == {[status |-> "active", holder |-> m1], [status |-> "active", holder |-> m2],
                     [status |-> "revoked", holder |-> m1]}
SmallPaymentRows == {"cleared", "pending"}
SmallReturnRows == {"accepted", "rejected"}
SmallRequests == {[case |-> c1, operation |-> op] : op \in Operations}
=============================================================================
