SPECIFICATION FairSpec
CONSTANTS
  r1 = r1
  r2 = r2
  p1 = p1
  p2 = p2
  None = None
  Req = {r1}
  Proc = {p1}
  Size <- MCSize
  Clean <- MCClean
  ShortBuf = 7
  LongBuf = 8
  Plugin <- MCPlugin
  Asked <- MCAsked
  Protocols <- MCProtocols
  UserList <- MCUserList
  GroupList <- MCGroupList
  Reply <- MCReply
  Page <- MCPage
  MaxLen = 10
  Growth = 1
  MaxQueue = 1
  Slow = FALSE
  Breaks = 1
PROPERTY RefreshRenews
CHECK_DEADLOCK FALSE
