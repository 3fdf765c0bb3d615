CONSTANTS
  App = {a1}
  WConn = {c1}
  Fd = {f1, f2}
  Proc = {p1, p2}
  Req = {r1, r2}
  WorkerId = {i1}
  GroupId = {g1}
  IdOf <- OwnWorker
  GroupOf <- OneService
  Content = {g1, "toolong"}
  Mortal = {c1}
  Failure <- AlmostSent
  MaxQueue = 1
  MaxFailed = 2
  MaxTimeout = 1
  MaxRegister = 1
  None = None
SPECIFICATION FairSpec
CHECK_DEADLOCK FALSE
PROPERTIES
  EveryRequestEnds
  ProcessorsReturn
  TheGoneAreForgotten
