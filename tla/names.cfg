SPECIFICATION Spec
CONSTANTS
  a = a
  b = b
  g = g
  m = m
  Node = {a, b}
  Key = {a, b, g, m}
  Invite = {"a", "b", "more", "third"}
  Foreign <- Others
  NoRecord = NoRecord
  Period = 1
  Ttl = 2
  MaxTime = 5
  MaxFaults = 1
  MaxLinks = 1
  Right = {"join", "invite", "chat"}
  Genesis = g
  Cert <- Issued
  MaxChain = 2
INVARIANTS TypeOK BackWithin ChainsGrantAuthority
PROPERTY RevocationSticks
CHECK_DEADLOCK FALSE
