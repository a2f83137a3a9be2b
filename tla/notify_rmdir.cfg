SPECIFICATION Spec
CONSTANTS
  d1 = d1 d2 = d2 d3 = d3 d4 = d4
  Inode = {d1, d2, d3}
  Name = {"r", "s", "a"}
  Empty = ""
  InitTrees <- RootsTree
  FsOps = {"mkdir", "rmdir", "modify"}
  Pinned = {}
  OpBudget = 4
  QueueLimit = 4
  MaxWatches = 3
  AllocInc = 2
  RootPaths <- TwoRoots
  EventMask <- AllKinds
  Recursive = TRUE
  FollowFlags = {FALSE}
  MaxDepth = 0
  Ignores = {}
  ReadMax = 3
  FdFailures = FALSE
  InitWlcache <- FullSlots
INVARIANTS TypeOK ReportedPath NoDuplicateWd
PROPERTY OtherSlotsKept
CHECK_DEADLOCK FALSE
