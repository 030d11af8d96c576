SPECIFICATION Spec
CONSTANTS
  None = None
  c1 = c1  c2 = c2  a1 = a1  m1 = m1  m2 = m2  o1 = o1
  Cases = {c1, c2}  Accounts = {a1}  Merchants = {m1, m2}  Orders = {o1}
  MaxCents = 1
  InvoiceRows <- SmallInvoiceRows
  AccountRows <- SmallAccountRows
  PaymentRows <- SmallPaymentRows
  ReturnRows <- SmallReturnRows
  Requests <- SmallRequests
  MaxSteps = 3
  MaxObserved = 4
INVARIANTS CardNeverContradicts ReadCardIsFresh GuideIsSafe GuideIsReference
CHECK_DEADLOCK FALSE
