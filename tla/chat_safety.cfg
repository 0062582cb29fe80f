SPECIFICATION Spec
CONSTANTS
  a = a
  b = b
  c = c
  Node = {a, b}
  Topology <- PairTopology
  MaxPosts <- TwoByOne
  MaxDrops = 1
  Notices = {"keepalive_timeout"}
  MaxReloads = 0
  MaxWipes = 1
  MaxAborts = 0
  MaxDelta = 4
  MaxFrame = 1
  BanDepth = 500
INVARIANTS TypeOK IdsUnique NothingInvented SeqFollowsClock VersionVectorExact
PROPERTY ImplementsPromise
