SPECIFICATION Spec
CONSTANTS
  whole = whole
  damaged = damaged
  none = none
  c = c
  Peer = {whole, damaged, none}
  Cid = {c}
  Size <- OneSize
  Copy <- Copies
  NoBlob = NoBlob
  NoTransfer = NoTransfer
  MaxFetches = 2
  MaxFaults = 1
  BanDepth = 50
INVARIANTS TypeOK StoredIsOriginal GatheredIsPeersCopy
PROPERTIES FetchEnds ProviderIsFound
CHECK_DEADLOCK FALSE
