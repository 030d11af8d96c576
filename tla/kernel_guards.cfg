SPECIFICATION Spec
CONSTANTS
  None = None
  c1 = c1  c2 = c2  a1 = a1  a2 = a2  m1 = m1  m2 = m2  o1 = o1  o2 = o2
  Cases = {c1}
  Accounts = {a1}
  Merchants = {m1, m2}
  Orders = {o1}
  MaxCents = 2
  EventIds = {1, 2, 3, 4}
  RequestIds = {1, 2}
  InvoiceRows <- OneInvoiceRows
  AccountRows <- OneAccountRows
  PaymentRows = {"cleared", "pending"}
  ReturnRows = {"accepted", "rejected"}
  Proposals <- AllProposals
  MaxSteps = 2
  MaxObs = 4
CONSTRAINT IdsInOrder
INVARIANT TypeOK
PROPERTIES StepAtomic BookingsFollowRules
CHECK_DEADLOCK FALSE
