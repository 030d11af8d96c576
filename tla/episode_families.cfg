SPECIFICATION EPSpec
CONSTANTS
  None = None
  Cases = {0, 1, 2, 3}
  Accounts = {0, 1, 2, 3}
  Merchants = {0, 1, 2, 3}
  Orders = {0, 1, 2, 3}
  MaxCents = 2
  Amounts <- TwoTotals
INVARIANTS NoFalseBlocks KernelCoversSimulator SafeRunsAgree
CHECK_DEADLOCK FALSE
