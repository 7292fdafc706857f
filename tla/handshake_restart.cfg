\* Node and root restart in the middle of a handshake, one packet is lost and one
\* timer runs out too early.
SPECIFICATION Spec
CONSTANTS
  SESSION_MAX_RETRIES = 1
  MsgIdMod = 256
  PkFrags = 2
  CtFrags = 2
  NackMax = 16
  Node = {n1}
  Nobody = Nobody
  MaxSessions = 10
  RxSlots = 2
  PQC_TX_QUEUE_SIZE = 4
  MetricsGroups = 1
  ReorderWindow = 1
  ChannelCap = 3
  MaxLoss = 1
  MaxDup = 0
  MaxEarly = 1
  MaxNodeReboots = 1
  MaxRootReboots = 1
  MaxAttempts = 2
INVARIANTS
  GetpkInFlightMatches
  CtMatchesSecret
  ImpactWindowIsOpen
  RootQueueMatchesSession
  NodeQueueMatchesSession
PROPERTIES
  ImplementsKeyExchange
\* The handshakes come to an end when every node is established.
CHECK_DEADLOCK FALSE
