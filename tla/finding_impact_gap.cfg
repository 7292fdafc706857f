\* A node restarts while the handshake of another is under way; nothing is lost.
SPECIFICATION TempSpec
CONSTANTS
  Node = {n1, n2}
  Nobody = Nobody
  PQC_TEMP_RX_COUNTER_WINDOW = 3
  CounterMod = 256
  AirCap = 2
  MaxTemp = 3
  MaxMeasured = 4
  MaxAttempts = 2
  MaxLoss = 0
  MaxDup = 0
  MsgIds = {0}
  NoId = NoId
  MaxFails = 0
  MaxNodeReboots = 1
  MaxRootReboots = 0
  MaxFaults = 1
INVARIANTS
  GapIsPlausible
SYMMETRY Symmetry
\* Bounds on measurements and handshakes end every behaviour.
CHECK_DEADLOCK FALSE
