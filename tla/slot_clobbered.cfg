SPECIFICATION Spec
CONSTANTS
  d1 = d1 d2 = d2 d3 = d3 d4 = d4
  Inode = {d1, d2, d3}
  Name = {"r", "a"}
  Empty = ""
  InitTrees <- SubTree
  FsOps = {"mkdir", "rmdir", "rename"}
  Pinned = {}
  OpBudget = 2
  QueueLimit = 3
  MaxWatches = 2
  AllocInc = 2
  RootPaths <- OneRoot
  EventMask <- TreeKinds
  Recursive = TRUE
  FollowFlags = {FALSE}
  MaxDepth = 0
  Ignores = {}
  ReadMax = 2
  FdFailures = TRUE
  InitWlcache <- Slots
PROPERTY OtherSlotsKept
CHECK_DEADLOCK FALSE
