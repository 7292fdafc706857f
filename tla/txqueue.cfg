SPECIFICATION Spec
CONSTANTS
  PQC_TX_QUEUE_SIZE = 4
  Nodes = {n1, n2}
  Kinds = {"ACK", "CT", "METRICS"}
  MsgIds = {0}
  MaxFrags = 2
INVARIANTS CountExact BatchIsOneByOne
PROPERTY ImplementsBag
