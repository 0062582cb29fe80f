SPECIFICATION Spec
CONSTANTS
  a = a
  b = b
  c = c
  Node = {a, b}
  Topology <- PairTopology
  MaxPosts <- TwoByOne
  MaxDrops = 0
  Notices = {"closed"}
  MaxReloads = 1
  MaxWipes = 0
  MaxAborts = 0
  MaxDelta = 4
  MaxFrame = 4
  BanDepth = 500
INVARIANT IdsUnique
