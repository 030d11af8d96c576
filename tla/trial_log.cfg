SPECIFICATION Spec
CONSTANTS
  NumTrials = 5
  NumShards = 2
  MaxNewCalls = 2
  MaxRetries = 1
  MaxKills = 2
  MaxErrors = 2
INVARIANTS
  PaidAgainOnlyAfterFailure
  MergeIsWhole
PROPERTY ShardsSettle
CHECK_DEADLOCK FALSE
