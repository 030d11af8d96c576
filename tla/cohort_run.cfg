SPECIFICATION FairSpec
CONSTANTS
  None = None
  p1 = p1  p2 = p2  dev = dev  test = test
  Development = {dev}
  Confirmatory = {test}
  Invocations = {p1, p2}
  Rows = 2
INVARIANTS OneWriter ConfirmsGatedWork VerifiedIsWhole BrokenNeverVerifies
PROPERTY RunsSettle
CHECK_DEADLOCK FALSE
