\* Two JWT calls at a time, no cookie requests.
CHECK_DEADLOCK FALSE
SPECIFICATION Spec
CONSTANTS
  Ids = {i1}
  Tokens = {t1, t2, t3}
  Users = {u1}
  Values = {v1}
  Browsers = {b1}
  Requests = {}
  Calls = {c1, c2}
  MaxSessions = 1
  Ttl = 1
  AccessTtl = 1
  TouchInterval = 1
  None = None
  NoData = NoData
  MaxOps = 0
  MaxTime = 0
SYMMETRY Symmetry
INVARIANTS RefreshTokenUsedOnce
