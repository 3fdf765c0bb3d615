CONSTANTS
  App = {a1}
  WConn = {c1, c2}
  Fd = {f1, f2}
  Proc = {p1, p2}
  Req = {r1, r2}
  WorkerId = {i1, i2}
  GroupId = {g1}
  IdOf <- OwnWorker
  GroupOf <- OneService
  Content = {g1}
  Mortal <- Everyone
  Failure <- AlmostSent
  MaxQueue = 1
  MaxFailed = 1
  MaxTimeout = 1
  MaxRegister = 1
  None = None
SPECIFICATION Spec
CHECK_DEADLOCK FALSE
SYMMETRY MCSymmetry
INVARIANTS
  ClosesItsOwn
