SPECIFICATION Spec
CONSTANTS
  Stacks = 2
  Pid = {1}
  Sid = {0}
  AllocInc = 2
  MaxChurn = 0
  Serial = FALSE
  Requests <- OnePod
  Callers = 1
  MaxCalls = 2
INVARIANT OneWatcher
CHECK_DEADLOCK FALSE
