CONSTANTS
  Boards = {m, a, b, c}
  Master = m
  IFNUM = 2
  NODES_NUM = 6
  MASTER_ID = 1
  Family = "all"
  Cablings <- CablingFamily
  StaleIds = {0}
  MaxFaults = 0
SPECIFICATION Spec
INVARIANT LowerIdsReachable
CHECK_DEADLOCK FALSE
