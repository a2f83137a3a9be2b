SPECIFICATION Spec
CONSTANTS
  Stacks = 4
  Pid = {1}
  Sid = {0, 1}
  AllocInc = 2
  MaxChurn = 0
  Serial = FALSE
  Requests <- TwoSubjects
  Callers = 1
  MaxCalls = 2
INVARIANT NoWaitForNobody
CHECK_DEADLOCK FALSE
