SPECIFICATION FairSpec
CONSTANTS
  Stacks = 3
  Pid = {1}
  Sid = {0}
  AllocInc = 2
  MaxChurn = 1
  Serial = FALSE
  Requests <- OnePod
  Callers = 1
  MaxCalls = 3
PROPERTIES CallsReturn ServiceSpec
CHECK_DEADLOCK FALSE
