-------------------------- MODULE MCStructuredMemory --------------------------
(* Two invoices that may share or change their account and order. *)
EXTENDS StructuredMemory

CONSTANTS c1, c2, a1, m1, o1

Invoice(account, order) ==
  [account_id |-> account, merchant_id |-> m1, order_id |-> order,
   total_cents |-> 1, currency |-> "BRL"]
SmallInvoiceRows == {Invoice(a1, o1), Invoice(None, None)}
SmallAccountRows == {[status |-> s, holder |-> m1] : s \in {"active", None}}
SmallReturnRows == {"accepted"}
SmallPaymentRows == {"cleared"}
SmallReceipts == {<<<<c1, "payout">>, 1>>}

KeepIncomplete == [f \in Features |-> IF f = "incomplete" THEN 2
                                      ELSE IF f = "booked" THEN -1 ELSE 0]
Policies == {ZeroWeights, KeepIncomplete}
=============================================================================
