\* Three losses make a first handshake fail, then a packet is duplicated and the
\* node restarts; the channel keeps the order.
SPECIFICATION Spec
CONSTANTS
  SESSION_MAX_RETRIES = 1
  MsgIdMod = 256
  PkFrags = 2
  CtFrags = 2
  NackMax = 16
  Node = {n1}
  Nobody = Nobody
  MaxSessions = 10
  RxSlots = 2
  PQC_TX_QUEUE_SIZE = 4
  MetricsGroups = 0
  ReorderWindow = 1
  ChannelCap = 4
  MaxLoss = 3
  MaxDup = 1
  MaxEarly = 0
  MaxNodeReboots = 1
  MaxRootReboots = 0
  MaxAttempts = 3
INVARIANTS
  KeyAgreement
\* The handshakes come to an end when every node is established.
CHECK_DEADLOCK FALSE
