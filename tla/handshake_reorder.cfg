\* A packet may overtake another, and one is lost. A NACK names one of the missing
\* fragments at a time.
SPECIFICATION Spec
CONSTANTS
  SESSION_MAX_RETRIES = 1
  MsgIdMod = 256
  PkFrags = 2
  CtFrags = 3
  NackMax = 1
  Node = {n1}
  Nobody = Nobody
  MaxSessions = 10
  RxSlots = 2
  PQC_TX_QUEUE_SIZE = 4
  MetricsGroups = 1
  ReorderWindow = 2
  ChannelCap = 3
  MaxLoss = 1
  MaxDup = 0
  MaxEarly = 0
  MaxNodeReboots = 0
  MaxRootReboots = 0
  MaxAttempts = 2
INVARIANTS
  SlotsConsistent
  KeyAgreement
\* The handshakes come to an end when every node is established.
CHECK_DEADLOCK FALSE
