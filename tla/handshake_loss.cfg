\* A lost and a duplicated packet, a timer that runs out too early and one retry per
\* message: handshakes fail and start again.
SPECIFICATION Spec
CONSTANTS
  SESSION_MAX_RETRIES = 1
  MsgIdMod = 256
  PkFrags = 2
  CtFrags = 2
  NackMax = 16
  Node = {n1}
  Nobody = Nobody
  MaxSessions = 10
  RxSlots = 2
  PQC_TX_QUEUE_SIZE = 4
  MetricsGroups = 1
  ReorderWindow = 1
  ChannelCap = 3
  MaxLoss = 1
  MaxDup = 1
  MaxEarly = 1
  MaxNodeReboots = 0
  MaxRootReboots = 0
  MaxAttempts = 2
INVARIANTS
  TypeOK
  WaitsAreArmed
  TxCountExact
  EstablishedTogether
\* The handshakes come to an end when every node is established.
CHECK_DEADLOCK FALSE
