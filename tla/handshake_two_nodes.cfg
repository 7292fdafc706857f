\* Two nodes, one receive slot and a queue that cannot hold two messages.
SPECIFICATION Spec
CONSTANTS
  SESSION_MAX_RETRIES = 1
  MsgIdMod = 256
  PkFrags = 2
  CtFrags = 2
  NackMax = 16
  Node = {n1, n2}
  Nobody = Nobody
  MaxSessions = 10
  RxSlots = 1
  PQC_TX_QUEUE_SIZE = 3
  MetricsGroups = 1
  ReorderWindow = 1
  ChannelCap = 2
  MaxLoss = 0
  MaxDup = 0
  MaxEarly = 0
  MaxNodeReboots = 0
  MaxRootReboots = 0
  MaxAttempts = 1
INVARIANTS
  SlotsConsistent
  ImpactWindowIsOpen
  EstablishedTogether
SYMMETRY Symmetry
\* The handshakes come to an end when every node is established.
CHECK_DEADLOCK FALSE
