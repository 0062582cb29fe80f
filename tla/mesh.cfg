SPECIFICATION Spec
CONSTANTS
  Node = {1, 2}
  MaxActive = 1
  MaxTotal = 2
  MaxDials = 8
  MaxFaults = 2
INVARIANT TypeOK
PROPERTIES LiveLinkKept StaysConnected
CHECK_DEADLOCK FALSE
