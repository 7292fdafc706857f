\* A ring of three buffers, four frames and two transmissions: the ring fills,
\* wraps around and overflows while a transmission waits, and events of one
\* transmission arrive during the next.
SPECIFICATION FairRadioSpec
CONSTANTS
  RX_BUF_COUNT = 3
  MaxFrames = 4
  MaxTx = 2
INVARIANTS
  RadioTypeOK
  NoTornRead
  NoLostWakeup
  NeverStuckSending
  OkIsBacked
PROPERTIES
  ImplementsFrameQueue
  StoredIsRead
  TransmitReturns
