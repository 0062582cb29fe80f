SPECIFICATION Spec
CONSTANTS
  a = a
  b = b
  c = c
  Node = {a, b}
  Topology <- PairTopology
  MaxPosts <- OneEach
  MaxDrops = 0
  Notices = {"closed"}
  MaxReloads = 1
  MaxWipes = 0
  MaxAborts = 1
  MaxDelta = 1
  MaxFrame = 4
  BanDepth = 50
INVARIANT SentIsSaved
PROPERTIES SavedStays ImplementsPromise
CHECK_DEADLOCK FALSE
