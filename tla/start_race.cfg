SPECIFICATION Spec
CONSTANTS
  Stacks = 2
  Pid = {1, 2}
  Sid = {0}
  AllocInc = 2
  MaxChurn = 0
  Serial = FALSE
  Requests <- TwoContainers
  Callers = 1
  MaxCalls = 1
INVARIANT OwnPaths
CHECK_DEADLOCK FALSE
