CONSTANTS
  Boards = {1, 2, 3, 4}
  Master = 1
  IFNUM = 4
  NODES_NUM = 5
  MASTER_ID = 1
  MultiBoards = {1, 2, 3, 4}
  MaxCables = 2
  Networks <- AllNetworks
SPECIFICATION FairSpec
INVARIANT CompletedOnExit
CHECK_DEADLOCK FALSE
