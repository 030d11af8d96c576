SPECIFICATION Spec
CONSTANTS
  Corpora = {c1, c2}
  None = None
  MaxRuns = 2
SYMMETRY Renamings
INVARIANT PublishedTogether
CHECK_DEADLOCK FALSE
