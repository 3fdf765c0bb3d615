CONSTANTS
  App = {a1, a2}
  WConn = {c1, c2}
  Fd = {f1, f2}
  Proc = {p1}
  Req = {r1}
  WorkerId = {i1}
  GroupId = {g1}
  IdOf <- SameWorker
  GroupOf <- OneService
  Content = {g1}
  Mortal <- Everyone
  Failure = {}
  MaxQueue = 1
  MaxFailed = 9
  MaxTimeout = 9
  MaxRegister = 1
  None = None
SPECIFICATION Spec
CHECK_DEADLOCK FALSE
SYMMETRY MCSymmetry
INVARIANTS
  TablesFollowSockets
PROPERTIES
  ElsewhereOnlyAfterEnd
