CONSTANTS
  Boards = {m, a, b, c}
  Master = m
  IFNUM = 3
  NODES_NUM = 6
  MASTER_ID = 1
  Family = "every"
  Cablings <- CablingFamily
  StaleIds = {0, 3}
  MaxFaults = 2
SPECIFICATION MCSpec
INVARIANTS OneToken UniqueIds TopologyTrue RemoteInterfaceFound FinishedLeftAlone MasterComplete InterimRoutes
PROPERTIES DfsSpec MasterFinishes
CHECK_DEADLOCK FALSE
