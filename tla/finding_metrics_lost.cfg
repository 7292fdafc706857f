\* One lost packet, two metrics groups.
SPECIFICATION FairSpec
CONSTANTS
  SESSION_MAX_RETRIES = 3
  MsgIdMod = 256
  PkFrags = 2
  CtFrags = 2
  NackMax = 16
  Node = {n1}
  Nobody = Nobody
  MaxSessions = 10
  RxSlots = 2
  PQC_TX_QUEUE_SIZE = 4
  MetricsGroups = 2
  ReorderWindow = 1
  ChannelCap = 4
  MaxLoss = 1
  MaxDup = 0
  MaxEarly = 0
  MaxNodeReboots = 0
  MaxRootReboots = 0
  MaxAttempts = 3
PROPERTIES
  SuccessIsSummarised
\* The handshakes come to an end when every node is established.
CHECK_DEADLOCK FALSE
