CONSTANTS
  Boards = {1, 2, 3, 4, 5}
  Master = 1
  IFNUM = 4
  NODES_NUM = 6
  MASTER_ID = 1
  MultiBoards = {1, 2, 3, 4}
  MaxCables = 2
  Networks <- AllNetworks
SPECIFICATION FairSpec
INVARIANTS RoutesShorten TablesComplete LevelByLevel
 
CHECK_DEADLOCK FALSE
