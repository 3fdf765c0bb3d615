SPECIFICATION FairSpec
CONSTANTS
  None = None
  Main <- MCMain
  Side <- MCSide
  Ip = {"a", "c"}
  MinQueue = 100
  Cpus = 4
  Loops = 2
  Edits = 1
  Refreshes = 2
  Backlog = 2
  Hands = 1
INVARIANTS TypeOK OneVersion OnlyListed RunningIsConfigured OrderlyDrain
PROPERTIES TermEnds
CHECK_DEADLOCK FALSE
