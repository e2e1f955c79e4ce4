SPECIFICATION Spec
CONSTANTS
  Nodes = {0, 2}
  Setups <- CommandLines
  Leftovers <- OldQueues
  Codes = {0, 3}
  MaxWrites = 1
  MaxSignals = 1
  MaxFaults = 1
INVARIANTS    OnlyThisRun
  
CHECK_DEADLOCK FALSE
