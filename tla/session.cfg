SPECIFICATION Spec
CONSTANTS
  general = general
  dm = dm
  u = u
  Net = {general, dm}
  Channels = {general}
  General = general
  Url = {u}
  MaxConvs = 6
  MaxRejoins = 2
  MaxOps = 3
  NoConv = NoConv
INVARIANTS ListedRuns ListSaved NothingLost
CHECK_DEADLOCK FALSE
