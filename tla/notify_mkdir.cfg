SPECIFICATION FairSpec
CONSTANTS
  d1 = d1 d2 = d2 d3 = d3 d4 = d4
  Inode = {d1, d2, d3, d4}
  Name = {"r", "a", "g"}
  Empty = ""
  InitTrees <- RootTree
  FsOps = {"mkdir", "modify"}
  Pinned = {}
  OpBudget = 3
  QueueLimit = 4
  MaxWatches = 4
  AllocInc = 2
  RootPaths <- OneRoot
  EventMask <- AllKinds
  Recursive = TRUE
  FollowFlags = {FALSE}
  MaxDepth = 3
  Ignores = {"g"}
  ReadMax = 2
  FdFailures = FALSE
  InitWlcache <- Slots
INVARIANTS Coverage NothingUnknown
PROPERTY EventuallyCovered
CHECK_DEADLOCK FALSE
