SPECIFICATION FairSpec
CONSTANTS
  a = a
  b = b
  c = c
  Node = {a, b}
  Topology <- PairTopology
  MaxPosts <- TwoByOne
  MaxDrops = 1
  Notices = {"closed"}
  MaxReloads = 0
  MaxWipes = 0
  MaxAborts = 0
  MaxDelta = 4
  MaxFrame = 4
  BanDepth = 500
PROPERTY Converges
