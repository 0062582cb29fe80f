SPECIFICATION FairSpec
CONSTANTS
  a = a
  b = b
  w = w
  x = x
  Node = {a, b}
  Net = {w, x}
  Conn = {c1, c2}
  Ip = {ip1}
  SubId = {s1}
  Filters <- ClientFilters
  Ttl <- OneSecond
  Kinds <- ManyKinds
  Skew <- AheadA
  JoinTtl = 1
  MaxNetworks = 1
  MaxEvents = 3
  MaxPerNode = 4
  MaxSignals = 1
  MaxJoins = 1
  MaxConnections = 1
  MaxPerIp = 1
  MaxSubs = 1
  MaxDelay = 0
  MaxReceived = 4
  MaxTime = 1
CHECK_DEADLOCK FALSE
INVARIANTS TypeOK SubscribersUpToDate SignalsGoToTarget StoreBounded GateIsClamped CountersExact
PROPERTIES EvictionIsFair GoneAreReaped
