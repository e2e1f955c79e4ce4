CONSTANTS
  Boards = {m, a, b, c}
  Master = m
  IFNUM = 3
  NODES_NUM = 5
  MASTER_ID = 1
  Cablings <- CablingFamily
  StaleIds = {0}
  MaxFaults = 0
  MaxErrors = 2
SPECIFICATION MCSpec
INVARIANTS NoPacketUnderSwitch SwitchesToComputed NothingLeftOver AllReachAll
PROPERTIES AllEnd
CHECK_DEADLOCK FALSE
