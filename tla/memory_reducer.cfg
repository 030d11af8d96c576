SPECIFICATION Spec
CONSTANTS
  None = None
  c1 = c1  c2 = c2  a1 = a1  m1 = m1  o1 = o1
  Cases = {c1, c2}  Accounts = {a1}  Merchants = {m1}  Orders = {o1}
  MaxCents = 1
  InvoiceRows <- SmallInvoiceRows
  AccountRows <- SmallAccountRows
  PaymentRows <- SmallPaymentRows
  ReturnRows <- SmallReturnRows
  Receipts <- SmallReceipts
  WeightSets <- Policies
  MaxIngest = 3
INVARIANTS RoundTrip RemembersNewest EvictsOneComponent DefaultIsOldest
PROPERTY ObservedOutlive
CHECK_DEADLOCK FALSE
