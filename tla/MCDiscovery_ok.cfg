CONSTANTS
  Boards = {m, a, b}
  Master = m
  IFNUM = 2
  NODES_NUM = 6
  MASTER_ID = 1
  Family = "all"
  Cablings <- CablingFamily
  StaleIds = {0}
  MaxFaults = 1
SPECIFICATION Spec
INVARIANT OkMeansSuccess
CHECK_DEADLOCK FALSE
