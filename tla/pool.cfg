SPECIFICATION Spec
CONSTANTS
  Url = {u1, u2}
  Own = {u1}
  Others = {e}
  JoinTtl = 5
  Period = 4
  RenewAt = 1
  MaxTotal = 2
  MaxQueued = 2
  MaxFaults = 2
INVARIANTS TypeOK ProcessedOnce QueuedWhileDown JoinKnown LapseBounded
PROPERTIES ComesBack
