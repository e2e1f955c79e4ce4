SPECIFICATION MCSpec
CONSTANTS
  Nodes = {1, 2, 3}
  Ids = {15}
  Services = {"barrier", "kill"}
  MaxCalls = 3
  MaxLosses = 1
  Threads = {t1, t2}
  Allocators = {t1, t2}
  Hasty = {t2}
  NoRequest = NoRequest
  MaxRpcs = 2
  MaxRpcLosses = 1
  Pair = {1, 4}
  Options <- CommandLines
  Null = 255
  Region = {0, 1, 2, 3, 4}
  Old = 0
  Parts = {"netperf"}
  Writers = {1, 2}
  Pieces <- ShortPieces
  MAX_BUFFER_SIZE = 2
  MaxChars = 4
  Counts = {0, 2}
  PingMax = 2
  Routes <- NextHops
  Here = 1
  There = 4
  Unreachable = Unreachable
  NODES_MAX = 5
  MaxLost = 1
  Streams <- ThreadedServer
  NpThreads = {1}
  NpServers = {1, 2}
  ScaleStep = 1
  LengthWrap = 8
  PayloadMax <- Cut
  RdmaSize = 3
  TokenLen = 2
  MaxNpErrors = 0
  SendLines <- Sends
  RecvLines <- Recvs
  RAW_MAX = 4
  LONG_MAX = 6
  MAX_IOVEC = 4
PROPERTIES ThreadedServerAnswers
CHECK_DEADLOCK FALSE
