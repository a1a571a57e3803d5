\* One request of one browser, with two operations in its handler.
CHECK_DEADLOCK FALSE
SPECIFICATION Spec
CONSTANTS
  Ids = {i1}
  Tokens = {t1, t2}
  Users = {u1}
  Values = {v1}
  Browsers = {b1}
  Requests = {r1}
  Calls = {}
  MaxSessions = 1
  Ttl = 1
  AccessTtl = 1
  TouchInterval = 1
  None = None
  NoData = NoData
  MaxOps = 2
  MaxTime = 0
PROPERTIES SetIsFlushed
