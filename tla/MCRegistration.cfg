SPECIFICATION FairSpec
CONSTANTS
  w1 = w1
  g1 = g1
  None = None
  Life = {1, 2}
  WorkerId = {w1}
  GroupId = {g1}
  Fd = {1, 2}
  IdOf <- MCIdOf
  GroupOf <- MCGroupOf
  Mortal = {1}
  Sent = {"all", "part", "nothing"}
  RouterCrashes = 1
  MaxConn = 2
  MaxWire = 1
INVARIANTS TypeOK  DrainedIsGone
PROPERTIES ImplementsMembership  TheDeadAreForgotten
CHECK_DEADLOCK FALSE
