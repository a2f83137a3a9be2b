SPECIFICATION FairSpec
CONSTANTS
  d1 = d1 d2 = d2 d3 = d3 d4 = d4
  Inode = {d1, d2, d3, d4}
  Name = {"r", "a", "g"}
  Empty = ""
  InitTrees <- RootTree
  FsOps = {"mkdir", "modify"}
  Pinned = {}
  OpBudget = 2
  QueueLimit = 1
  MaxWatches = 4
  AllocInc = 2
  RootPaths <- OneRoot
  EventMask <- AllKinds
  Recursive = TRUE
  FollowFlags = {FALSE}
  MaxDepth = 3
  Ignores = {"g"}
  ReadMax = 2
  FdFailures = FALSE
  InitWlcache <- Slots
INVARIANT QuietCovered
CHECK_DEADLOCK FALSE
