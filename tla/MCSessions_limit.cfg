SPECIFICATION Spec
CONSTANTS
  c1 = c1
  c2 = c2
  c3 = c3
  Clients = {c1, c2, c3}
  AllNodes = {c3}
  NumNodes = 3
  NSessions = 3
  NSlots = 2
  MaxFaults = 0
  MaxQueue = 2
  Self <- SelfOf
  First <- FirstOf
  Flags <- FlagsOf
SYMMETRY Alike
INVARIANT SuccessMeansStarted
CHECK_DEADLOCK FALSE
