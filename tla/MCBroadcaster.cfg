\* Every stream may have been used and dropped: then nothing is left to do.
CHECK_DEADLOCK FALSE
SPECIFICATION FairSpec
CONSTANTS
  Keys = {k1}
  Streams = {s1, s2}
  Chans = {c1, c2}
  Callers = {u1, u2}
  Capacity = 1
  None = None
  MaxSent = 2
INVARIANTS TypeOK NoSilentGap
PROPERTIES OnlyRemoveDisconnects DisconnectedStreamsEnd
