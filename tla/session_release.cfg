SPECIFICATION Spec
CONSTANTS
  Corpora = {c1, c2}
  None = None
  MaxRuns = 5
SYMMETRY Renamings
INVARIANT ScoredIsCoherent
CHECK_DEADLOCK FALSE
