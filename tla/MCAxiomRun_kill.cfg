SPECIFICATION Spec
CONSTANTS
  Nodes = {0, 2}
  Setups <- CommandLines
  Leftovers <- OldQueues
  Codes = {0, 3}
  MaxWrites = 0
  MaxSignals = 0
  MaxFaults = 1
PROPERTIES KillService
CHECK_DEADLOCK FALSE
