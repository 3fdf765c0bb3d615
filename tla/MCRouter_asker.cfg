CONSTANTS
  App = {a1, a2}
  WConn = {c1}
  Fd = {f1, f2}
  Proc = {p1}
  Req = {r1}
  WorkerId = {i1}
  GroupId = {g1}
  IdOf <- OwnWorker
  GroupOf <- OneService
  Content = {g1}
  Mortal = {a1, a2}
  Failure = {}
  MaxQueue = 1
  MaxFailed = 9
  MaxTimeout = 9
  MaxRegister = 1
  None = None
SPECIFICATION Spec
CHECK_DEADLOCK FALSE
SYMMETRY MCSymmetry
INVARIANTS
  RepliesReachTheAsker
