CONSTANTS
  Callers = {c1}
  MaxCalls = 3
  ListenAgain = FALSE
  NoMemory = TRUE
  AcceptErrors = TRUE
  Senders = {s1, s2}
  Nodes = {n1}
  MaxHandles = 2
  CloseNew = TRUE
  OutOfMemory = TRUE
  SysLen = 1
  HeaderLen = 2
  MaxLen = 5
  Peers <- MCPeers
  NoMemoryLeft = TRUE
SPECIFICATION MCSpec
INVARIANTS ListenSound HandlesSound 
PROPERTIES Recovers
CHECK_DEADLOCK FALSE
