SPECIFICATION Spec
CONSTANTS
  p1 = p1  p2 = p2  p3 = p3
  Invocations = {p1, p2, p3}
  Rows <- FewRows
INVARIANTS BudgetsFinite CompletedIsWhole TestExposedLast AtMostOneStepLost PublishedOnce
PROPERTIES SealedStays IsOneShot
CHECK_DEADLOCK FALSE
SYMMETRY Interchangeable
