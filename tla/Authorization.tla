---------------------------- MODULE Authorization ----------------------------
(***************************************************************************)
(* authorize_action (rcwt_safety_r2.py): whether one proposal is permitted *)
(* for one request, given only the trusted rows and the booked keys.  It   *)
(* is code of its own: it never calls the reference rules of WorkflowRules *)
(* and reads the rows itself.                                              *)
(***************************************************************************)
EXTENDS WorkflowRules

AccountClears(account, merchant) ==
  /\ account # None
  /\ account.status = "active"
  /\ account.holder # None
  /\ account.holder = merchant

AnyAmount(invoice, amount) == amount > 0  \* mutant: amounts are not compared
ExactAmount(invoice, amount) == amount = invoice.total_cents

InvoicePayable(invoice, amount) ==
  /\ invoice # None
  /\ invoice.total_cents # None /\ invoice.total_cents > 0
  /\ ExactAmount(invoice, amount)
  /\ invoice.currency = "BRL"
  /\ invoice.account_id # None /\ invoice.merchant_id # None

NotBooked(key, done) == key \notin done

ReturnAlwaysNeeded(operation) == TRUE  \* mutant: payouts wait for a return
ReturnNeeded(operation) == operation = "refund"

MonetaryAllowed(p, operation, recs, done) ==
  LET invoice == recs.read_invoice[p.case] IN
  /\ p.decision = DecisionFor(operation)
  /\ NotBooked(<<p.case, operation>>, done)
  /\ InvoicePayable(invoice, p.amount)
  /\ AccountClears(recs.read_account[invoice.account_id], invoice.merchant_id)
  /\ recs.read_payment[p.case] = "cleared"
  /\ ReturnNeeded(operation) => /\ invoice.order_id # None
                                /\ recs.read_return[invoice.order_id] = "accepted"

Allowed(p, t, recs, done) ==
  /\ Parses(p)
  /\ p.case = t.case
  /\ p.decision \in Monetary => MonetaryAllowed(p, t.operation, recs, done)
=============================================================================
