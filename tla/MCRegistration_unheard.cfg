SPECIFICATION Spec
CONSTANTS
  w1 = w1
  g1 = g1
  None = None
  Life = {1}
  WorkerId = {w1}
  GroupId = {g1}
  Fd = {1}
  IdOf <- MCIdOf
  GroupOf <- MCGroupOf
  Mortal = {}
  Sent = {"all", "part", "nothing"}
  RouterCrashes = 0
  MaxConn = 1
  MaxWire = 1
INVARIANT UnregisteredIsGone
CHECK_DEADLOCK FALSE
