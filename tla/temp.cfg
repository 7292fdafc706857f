\* Two nodes, two faults out of a loss, a repetition of any packet, a handshake
\* given up and a restart on either side; losses and packets in flight together
\* stay within the window.
SPECIFICATION TempSpec
CONSTANTS
  Node = {n1, n2}
  Nobody = Nobody
  PQC_TEMP_RX_COUNTER_WINDOW = 3
  CounterMod = 256
  AirCap = 2
  MaxTemp = 3
  MaxMeasured = 4
  MaxAttempts = 2
  MaxLoss = 1
  MaxDup = 1
  MsgIds = {0}
  NoId = NoId
  MaxFails = 1
  MaxNodeReboots = 1
  MaxRootReboots = 1
  MaxFaults = 2
INVARIANTS
  TempTypeOK
  NoCounterReuse
  TempUnderstood
  GapCountsSkipped
PROPERTIES
  AcceptedOnceInOrder
SYMMETRY Symmetry
\* Bounds on measurements and handshakes end every behaviour.
CHECK_DEADLOCK FALSE
