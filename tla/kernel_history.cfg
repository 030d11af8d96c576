SPECIFICATION Spec
CONSTANTS
  None = None
  c1 = c1  c2 = c2  a1 = a1  a2 = a2  m1 = m1  m2 = m2  o1 = o1  o2 = o2
  Cases = {c1, c2}
  Accounts = {a1}
  Merchants = {m1, m2}
  Orders = {o1}
  MaxCents = 2
  EventIds = {1, 2, 3, 4, 5}
  RequestIds = {1, 2, 3}
  InvoiceRows <- TwoInvoiceRows
  AccountRows <- TwoAccountRows
  PaymentRows = {"cleared"}
  ReturnRows = {"accepted"}
  Proposals <- PayOrHold
  MaxSteps = 3
  MaxObs = 3
CONSTRAINT IdsInOrder
INVARIANT LedgerSound
PROPERTY KeepsPromise
CHECK_DEADLOCK FALSE
