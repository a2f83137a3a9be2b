SPECIFICATION Spec
CONSTANTS
  d1 = d1 d2 = d2 d3 = d3 d4 = d4
  Inode = {d1, d2}
  Name = {"r", "s", "a"}
  Empty = ""
  InitTrees <- SubTree
  FsOps = {"mkdir", "rmdir", "modify"}
  Pinned = {d1}
  OpBudget = 2
  QueueLimit = 4
  MaxWatches = 3
  AllocInc = 2
  RootPaths <- OneRoot
  EventMask <- AllKinds
  Recursive = TRUE
  FollowFlags = {FALSE}
  MaxDepth = 0
  Ignores = {}
  ReadMax = 3
  FdFailures = FALSE
  InitWlcache <- FullSlots
INVARIANT QuietCovered
CHECK_DEADLOCK FALSE
