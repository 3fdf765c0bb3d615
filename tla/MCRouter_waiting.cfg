CONSTANTS
  App = {a1}
  WConn = {c1}
  Fd = {f1, f2}
  Proc = {p1}
  Req = {r1}
  WorkerId = {i1}
  GroupId = {g1}
  IdOf <- OwnWorker
  GroupOf <- OneService
  Content = {g1}
  Mortal = {c1}
  Failure = {}
  MaxQueue = 1
  MaxFailed = 9
  MaxTimeout = 9
  MaxRegister = 1
  None = None
SPECIFICATION FairSpec
CHECK_DEADLOCK FALSE
PROPERTIES
  WaitingEnds
