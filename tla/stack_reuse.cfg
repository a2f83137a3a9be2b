SPECIFICATION Spec
CONSTANTS
  Stacks = 4
  Pid = {1, 2}
  Sid = {0}
  AllocInc = 2
  MaxChurn = 0
  Serial = TRUE
  Requests <- TwoPods
  Callers = 1
  MaxCalls = 4
INVARIANT FreeSlot
CHECK_DEADLOCK FALSE
