CONSTANTS
  App = {a1}
  WConn = {c1, c2}
  Fd = {f1, f2}
  Proc = {p1, p2}
  Req = {r1, r2}
  WorkerId = {i1}
  GroupId = {g1}
  IdOf <- SameWorker
  GroupOf <- OneService
  Content = {g1, "invalid"}
  Mortal = {c1}
  Failure <- PartlySent
  MaxQueue = 1
  MaxFailed = 2
  MaxTimeout = 1
  MaxRegister = 1
  None = None
SPECIFICATION Spec
CHECK_DEADLOCK FALSE
SYMMETRY MCSymmetry
INVARIANTS
  TypeOK
  NothingVanishes
  OneHandler
  ReplyFindsPending
PROPERTIES
  ImplementsService
