SPECIFICATION TRSpec
CONSTANTS
  Budget = 2
  Answers = {1, 2}
  Steps = 2
  Components = 2
INVARIANTS AcceptedIsHonest GenuineVerifies CapNeverOverrun
CHECK_DEADLOCK FALSE
