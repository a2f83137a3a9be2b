SPECIFICATION Spec
CONSTANTS
  Stacks = 3
  Pid = {1, 2}
  Sid = {0}
  AllocInc = 2
  MaxChurn = 1
  Serial = FALSE
  Requests <- TwoPods
  Callers = 1
  MaxCalls = 3
INVARIANTS DaemonTypeOK OnlyAsked ListExact NoWaitForNobody
CHECK_DEADLOCK FALSE
