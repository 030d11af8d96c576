SPECIFICATION SCSpec
CONSTANTS
  a = a  b = b  absent = absent
  Entities = {a, b}
  Queries <- Questions
  Absent = absent
  MaxTurns = 4
  Budgets = {2, 3, 4, 5, 6}
INVARIANTS EvidenceComesFirst LatestIsNeverStale NoFabricatedSufficiency TailNeverBeatsState
CHECK_DEADLOCK FALSE
