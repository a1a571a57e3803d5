\* Every id and token may have been used and every session gone.
CHECK_DEADLOCK FALSE
SPECIFICATION Spec
CONSTANTS
  Ids = {i1, i2}
  Tokens = {t1, t2, t3}
  Users = {u1}
  Values = {v1}
  Browsers = {b1}
  Requests = {r1, r2}
  Calls = {c1}
  MaxSessions = 1
  Ttl = 1
  AccessTtl = 1
  TouchInterval = 1
  None = None
  NoData = NoData
  MaxOps = 1
  MaxTime = 2
SYMMETRY Symmetry
INVARIANTS TypeOK OldTokenEnds
PROPERTIES DeadTokensStayDead
