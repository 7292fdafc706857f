\* Two nodes and room for one session.
SPECIFICATION FairSpec
CONSTANTS
  SESSION_MAX_RETRIES = 3
  MsgIdMod = 256
  PkFrags = 2
  CtFrags = 2
  NackMax = 16
  Node = {n1, n2}
  Nobody = Nobody
  MaxSessions = 1
  RxSlots = 1
  PQC_TX_QUEUE_SIZE = 3
  MetricsGroups = 1
  ReorderWindow = 1
  ChannelCap = 2
  MaxLoss = 0
  MaxDup = 0
  MaxEarly = 0
  MaxNodeReboots = 0
  MaxRootReboots = 0
  MaxAttempts = 1
PROPERTIES
  TableFullServesTheRest
\* The handshakes come to an end when every node is established.
CHECK_DEADLOCK FALSE
