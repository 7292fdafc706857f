----------------------------- MODULE RadioDriver -----------------------------
(***************************************************************************)
(* The EFR32 radio driver                                                  *)
(* (src/radio_diver/efr32-radio_V2_corregido.c).  The RAIL library calls   *)
(* RAILCb_Generic from an interrupt, which may fall between any two steps  *)
(* of the process code; processes do not preempt each other.  Interrupt    *)
(* and processes share the ring of receive buffers and tx_status.          *)
(*                                                                         *)
(* A received frame is its number, 0 the length of an empty buffer.        *)
(***************************************************************************)
EXTENDS Integers, FiniteSets

CONSTANTS
  RX_BUF_COUNT,   \* receive buffers
  MaxFrames,      \* good frames received that are explored
  MaxTx           \* transmissions that are explored

ASSUME RadioAssumption == RX_BUF_COUNT \in Nat \ {0}
ASSUME RadioBounds == MaxFrames \in Nat /\ MaxTx \in Nat

VARIABLES
  rx_buf, next_read, next_write,
  polled,      \* radio_proc was polled
  reader,      \* where read() and radio_proc stand; history: frames before its start
  tx_status,
  tx,          \* where transmit() stands, and txOptions
  rail,        \* external: the state of the RAIL library
  \* History:
  arrived,     \* good frames received
  delivered,   \* the last frame handed to NETSTACK_MAC.input or a caller of read()
  tx_sent,     \* TX_PACKET_SENT events
  tx_ok,       \* transmissions reported as RADIO_TX_OK
  began        \* transmissions begun

rxVars    == <<rx_buf, next_read, next_write, polled, reader, arrived, delivered>>
txVars    == <<tx_status, tx, tx_sent, tx_ok, began>>
radioVars == <<rxVars, txVars, rail>>

Buffer == 0 .. RX_BUF_COUNT - 1

TxStatus == {"IDLE", "SENDING", "SENT", "NO_ACK", "CHANNEL_BUSY", "ERROR"}

-----------------------------------------------------------------------------
\* init: RAIL listens, radio_proc is not started yet.
RadioInit ==
  /\ rx_buf = [b \in Buffer |-> 0] /\ next_read = 0 /\ next_write = 0
  /\ polled = FALSE
  /\ reader = [pc |-> "start", buf |-> 0, frame |-> 0, mac |-> FALSE, fits |-> TRUE,
               early |-> 0]
  /\ tx_status = "IDLE"
  /\ tx = [pc |-> "out", ack |-> FALSE]
  /\ rail = [state |-> "RX", ack |-> FALSE, waits |-> FALSE, aborted |-> FALSE]
  /\ arrived = 0 /\ delivered = 0 /\ tx_sent = 0 /\ tx_ok = 0 /\ began = 0

-----------------------------------------------------------------------------
(* The interrupt.                                                          *)

\* Mutant: the index does not wrap.
successor_plain(b) == b + 1

successor(b) == (b + 1) % RX_BUF_COUNT

\* Mutant: a full ring is overwritten.
get_empty_rx_buf_always == TRUE

get_empty_rx_buf == rx_buf[next_write] = 0

\* move_to_rx_buffer: a frame without error is stored if the buffer is free;
\* any other is only released.
move_to_rx_buffer(good) ==
  IF good
  THEN /\ arrived < MaxFrames
       /\ arrived' = arrived + 1
       /\ \/ /\ get_empty_rx_buf
             /\ rx_buf' = [rx_buf EXCEPT ![next_write] = arrived + 1]
             /\ next_write' = successor(next_write)
          \/ /\ ~get_empty_rx_buf
             /\ UNCHANGED <<rx_buf, next_write>>
  ELSE UNCHANGED <<rx_buf, next_write, arrived>>

\* Of the transmit events in one call of RAILCb_Generic the last one it tests
\* wins; the events of a failed transmission come first.
status_after(events) ==
  IF "TX_CHANNEL_BUSY" \in events THEN "CHANNEL_BUSY"
  ELSE IF "TX_PACKET_SENT" \in events THEN "SENT"
  ELSE IF "RX_ACK_TIMEOUT" \in events THEN "NO_ACK"
  ELSE "ERROR"

\* External: process_poll does nothing for a process that was not started.
process_poll == polled \/ reader.pc # "start"

\* RAILCb_Generic with RX_PACKET_RECEIVED.
RxInterrupt(good) ==
  /\ rail.state = "RX"
  /\ move_to_rx_buffer(good)
  /\ polled' = process_poll
  /\ UNCHANGED <<next_read, reader, delivered, txVars, rail>>

\* External: the events that end a transmission.
TxEnds == {"TX_PACKET_SENT", "TX_CHANNEL_BUSY", "TX_BLOCKED"}

\* External: the acknowledgement that a transmission asked for may fail to come
\* and what RAIL_Idle aborted may be reported, both at any time later.
TxLate == (IF rail.waits THEN {"RX_ACK_TIMEOUT"} ELSE {})
            \cup (IF rail.aborted THEN {"TX_ABORTED"} ELSE {})

\* External: the events RAIL may report together.
TxEvents == {events \in SUBSET (TxEnds \cup TxLate) :
               /\ events # {}
               /\ Cardinality(events \cap TxEnds) <= (IF rail.state = "TX" THEN 1 ELSE 0)}

\* RAIL's own state after it reported events.  sRailIeee802154Config: after a
\* transmission, whatever its outcome, it receives again.
rail_after(events) ==
  [state   |-> IF events \cap TxEnds # {} THEN "RX" ELSE rail.state,
   ack     |-> rail.ack,
   waits   |-> (rail.waits /\ "RX_ACK_TIMEOUT" \notin events)
                  \/ ("TX_PACKET_SENT" \in events /\ rail.ack),
   aborted |-> rail.aborted /\ "TX_ABORTED" \notin events]

\* RAILCb_Generic with transmit events.
TxInterrupt ==
  \E events \in TxEvents :
    /\ tx_status' = status_after(events)
    /\ tx_sent' = IF "TX_PACKET_SENT" \in events THEN tx_sent + 1 ELSE tx_sent
    /\ rail' = rail_after(events)
    /\ UNCHANGED <<rxVars, tx, tx_ok, began>>

\* External: the acknowledgement arrives; RAIL reports nothing.
RailAcked ==
  /\ rail.waits
  /\ rail' = [rail EXCEPT !.waits = FALSE]
  /\ UNCHANGED <<rxVars, txVars>>

-----------------------------------------------------------------------------
(* Receiving.  Processes run one at a time, and transmit() returns before  *)
(* its caller goes on.                                                     *)

mayRun == tx.pc = "out"

\* A process other than radio_proc, or the MAC layer under NETSTACK_MAC.input.
caller == tx.pc = "out" /\ reader.pc \in {"yield", "input"}

\* The end of init: process_start runs radio_proc up to its first
\* PROCESS_YIELD_UNTIL, which waits for an event whatever is in the ring.
ProcessStart ==
  /\ reader.pc = "start"
  /\ reader' = [reader EXCEPT !.pc = "yield", !.early = arrived]
  /\ UNCHANGED <<rx_buf, next_read, next_write, polled, arrived, delivered, txVars, rail>>

\* radio_proc is resumed by a poll, or every second by its timer.
Resume(byTimer) ==
  /\ mayRun /\ reader.pc = "yield"
  /\ byTimer \/ polled
  /\ reader' = [reader EXCEPT !.pc = "check", !.mac = FALSE, !.fits = TRUE]
  /\ polled' = (polled /\ byTimer)
  /\ UNCHANGED <<rx_buf, next_read, next_write, arrived, delivered, txVars, rail>>

has_packet == rx_buf[next_read] > 0

\* The MAC layer calls read() itself, with a buffer that may be too short.
MacRead(fits) ==
  /\ mayRun /\ reader.pc = "yield"
  /\ reader' = [reader EXCEPT !.pc = "check", !.mac = TRUE, !.fits = fits]
  /\ UNCHANGED <<rx_buf, next_read, next_write, polled, arrived, delivered, txVars, rail>>

\* get_full_rx_buf.
GetFullRxBuf ==
  /\ mayRun /\ reader.pc = "check"
  /\ IF has_packet
     THEN /\ reader' = [reader EXCEPT !.pc = IF reader.fits THEN "copy" ELSE "free",
                                      !.buf = next_read]
          /\ next_read' = successor(next_read)
     ELSE /\ reader' = [reader EXCEPT !.pc = "yield"]
          /\ UNCHANGED next_read
  /\ UNCHANGED <<rx_buf, next_write, polled, arrived, delivered, txVars, rail>>

\* Mutant: the buffer is released before it is copied.
copy_frees_first ==
  /\ mayRun /\ reader.pc = "copy"
  /\ reader' = [reader EXCEPT !.pc = "free", !.frame = rx_buf[reader.buf]]
  /\ rx_buf' = [rx_buf EXCEPT ![reader.buf] = 0]
  /\ UNCHANGED <<next_read, next_write, polled, arrived, delivered, txVars, rail>>

\* memcpy and the attributes: the interrupt may come before and after it.
CopyPacket ==
  /\ mayRun /\ reader.pc = "copy"
  /\ reader' = [reader EXCEPT !.pc = "free", !.frame = rx_buf[reader.buf]]
  /\ UNCHANGED <<rx_buf, next_read, next_write, polled, arrived, delivered, txVars, rail>>

\* free_rx_buf, the end of read().
FreeRxBuf ==
  /\ mayRun /\ reader.pc = "free"
  /\ rx_buf' = [rx_buf EXCEPT ![reader.buf] = 0]
  /\ delivered' = IF reader.fits THEN reader.frame ELSE delivered
  /\ reader' = [reader EXCEPT !.pc = IF reader.mac THEN "yield" ELSE "input",
                              !.buf = 0, !.frame = 0]
  /\ UNCHANGED <<next_read, next_write, polled, arrived, txVars, rail>>

\* Mutant: radio_proc waits for the next frame before it reads on.
input_without_poll ==
  /\ mayRun /\ reader.pc = "input"
  /\ reader' = [reader EXCEPT !.pc = "yield"]
  /\ UNCHANGED <<rx_buf, next_read, next_write, polled, arrived, delivered, txVars, rail>>

\* NETSTACK_MAC.input returns, perhaps after it has transmitted; radio_proc
\* polls itself for the next frame.
MacInput ==
  /\ mayRun /\ reader.pc = "input"
  /\ reader' = [reader EXCEPT !.pc = "yield"]
  /\ polled' = TRUE
  /\ UNCHANGED <<rx_buf, next_read, next_write, arrived, delivered, txVars, rail>>

-----------------------------------------------------------------------------
(* Transmitting.                                                           *)

\* prepare() succeeds: the frame is in RAIL's queue.  When it fails nothing changes.
Prepare(ack) ==
  /\ caller
  /\ tx' = [tx EXCEPT !.ack = ack]
  /\ UNCHANGED <<rxVars, rail, tx_status, tx_sent, tx_ok, began>>

\* transmit(): what an earlier one left behind is cleared.
TransmitCleanup ==
  /\ caller
  /\ began < MaxTx
  /\ began' = began + 1
  /\ tx' = [tx EXCEPT !.pc = "check"]
  /\ tx_status' = IF tx_status = "SENDING" THEN tx_status ELSE "IDLE"
  /\ UNCHANGED <<rxVars, rail, tx_sent, tx_ok>>

\* "transmit called while busy", or the bounded wait for the automatic ACK.
TransmitCheck ==
  /\ tx.pc = "check"
  /\ tx' = [tx EXCEPT !.pc = IF tx_status = "IDLE" THEN "autoack" ELSE "out"]
  /\ UNCHANGED <<rxVars, rail, tx_status, tx_sent, tx_ok, began>>

TransmitSending ==
  /\ tx.pc = "autoack"
  /\ tx_status' = "SENDING"
  /\ tx' = [tx EXCEPT !.pc = "start"]
  /\ UNCHANGED <<rxVars, rail, tx_sent, tx_ok, began>>

\* RAIL_StartCcaCsmaTx starts, unless something is being transmitted already.
TransmitStart ==
  /\ tx.pc = "start" /\ rail.state # "TX"
  /\ rail' = [rail EXCEPT !.state = "TX", !.ack = tx.ack]
  /\ tx' = [tx EXCEPT !.pc = "wait"]
  /\ UNCHANGED <<rxVars, tx_status, tx_sent, tx_ok, began>>

\* Mutant: the error return leaves tx_status behind.
start_error_keeps_status ==
  /\ tx.pc = "start"
  /\ tx' = [tx EXCEPT !.pc = "out"]
  /\ UNCHANGED <<rxVars, rail, tx_status, tx_sent, tx_ok, began>>

\* RAIL_StartCcaCsmaTx returns an error.
TransmitStartError ==
  /\ tx.pc = "start"
  /\ tx_status' = "IDLE"
  /\ tx' = [tx EXCEPT !.pc = "out"]
  /\ UNCHANGED <<rxVars, rail, tx_sent, tx_ok, began>>

\* Mutant: the wait is not bounded.
transmit_waits_forever == FALSE /\ UNCHANGED radioVars

\* TX_TIMEOUT_TICKS have passed: RAIL_Idle aborts and leaves the radio idle.
\* The status may have changed since the loop tested it.
TransmitTimeout ==
  /\ tx.pc = "wait"
  /\ rail' = [rail EXCEPT !.state = "IDLE", !.aborted = (@ \/ rail.state = "TX")]
  /\ tx_status' = "IDLE"
  /\ tx' = [tx EXCEPT !.pc = "out"]
  /\ UNCHANGED <<rxVars, tx_sent, tx_ok, began>>

\* The loop ends.
TransmitDone ==
  /\ tx.pc = "wait" /\ tx_status # "SENDING"
  /\ tx' = [tx EXCEPT !.pc = "result"]
  /\ UNCHANGED <<rxVars, rail, tx_status, tx_sent, tx_ok, began>>

\* Mutant: whatever ended the wait counts as success.
result_always_ok == TRUE

result_ok == tx_status = "SENT"

\* The tests of tx_status, of which only the first decides between success and
\* failure; then the status is cleared in a step of its own.
TransmitResult ==
  /\ tx.pc = "result"
  /\ tx_ok' = IF result_ok THEN tx_ok + 1 ELSE tx_ok
  /\ tx' = [tx EXCEPT !.pc = "clear"]
  /\ UNCHANGED <<rxVars, rail, tx_status, tx_sent, began>>

TransmitClear ==
  /\ tx.pc = "clear"
  /\ tx_status' = "IDLE"
  /\ tx' = [tx EXCEPT !.pc = "out"]
  /\ UNCHANGED <<rxVars, rail, tx_sent, tx_ok, began>>

-----------------------------------------------------------------------------
(* Switching the receiver.                                                 *)

\* on() and set_value(RADIO_PARAM_CHANNEL): RAIL_StartRx.
On ==
  /\ caller /\ rail.state = "IDLE"
  /\ rail' = [rail EXCEPT !.state = "RX"]
  /\ UNCHANGED <<rxVars, txVars>>

\* off(): RAIL_Idle, which lets a transmission end first.
Off ==
  /\ caller /\ rail.state = "RX"
  /\ rail' = [rail EXCEPT !.state = "IDLE"]
  /\ UNCHANGED <<rxVars, txVars>>

-----------------------------------------------------------------------------
Interrupt == (\E good \in BOOLEAN : RxInterrupt(good)) \/ TxInterrupt

ReadStep == GetFullRxBuf \/ CopyPacket \/ FreeRxBuf \/ MacInput

Receive ==
  \/ ProcessStart
  \/ \E byTimer \in BOOLEAN : Resume(byTimer)
  \/ \E fits \in BOOLEAN : MacRead(fits)
  \/ ReadStep

TransmitStep ==
  \/ TransmitCheck \/ TransmitSending \/ TransmitStart \/ TransmitStartError
  \/ TransmitTimeout \/ TransmitDone \/ TransmitResult \/ TransmitClear

RadioNext ==
  \/ Interrupt \/ RailAcked
  \/ Receive
  \/ (\E ack \in BOOLEAN : Prepare(ack)) \/ TransmitCleanup \/ TransmitStep
  \/ On \/ Off

RadioSpec == RadioInit /\ [][RadioNext]_radioVars

\* Code that runs goes on, a polled process is resumed, and time passes while
\* transmit() waits.  RAIL owes the driver no event, the timer no resumption.
RadioFairness ==
  /\ WF_radioVars(Resume(FALSE)) /\ WF_radioVars(ReadStep) /\ WF_radioVars(TransmitStep)

FairRadioSpec == RadioSpec /\ RadioFairness

-----------------------------------------------------------------------------
(* Properties.                                                             *)

\* What every variable ranges over; read() copies and frees a buffer that is
\* in use.
RadioTypeOK ==
  /\ rx_buf \in [Buffer -> Nat] /\ next_read \in Buffer /\ next_write \in Buffer
  /\ polled \in BOOLEAN
  /\ reader \in [pc: {"start", "yield", "check", "copy", "free", "input"}, buf: Buffer,
                 frame: Nat, mac: BOOLEAN, fits: BOOLEAN, early: Nat]
  /\ tx_status \in TxStatus
  /\ tx \in [pc: {"out", "check", "autoack", "start", "wait", "result", "clear"}, ack: BOOLEAN]
  /\ rail \in [state: {"IDLE", "RX", "TX"}, ack: BOOLEAN, waits: BOOLEAN, aborted: BOOLEAN]
  /\ arrived \in Nat /\ delivered \in Nat
  /\ tx_sent \in Nat /\ tx_ok \in Nat /\ began \in Nat

\* The interrupt never writes into the buffer that read() has taken and not yet
\* freed: what read() hands on is the frame that was stored.
NoTornRead ==
  /\ reader.pc \in {"copy", "free"} => rx_buf[reader.buf] # 0
  /\ reader.pc = "free" /\ reader.fits => reader.frame = rx_buf[reader.buf]

\* No wakeup is lost: while radio_proc sleeps with a frame in the ring, it has
\* been polled and does not depend on its timer.  Frames that arrived between
\* RAIL_StartRx and process_start do, as long as no other follows them.
awaited == reader.pc # "start" /\ arrived > reader.early
NoLostWakeup == reader.pc = "yield" /\ has_packet /\ awaited => polled

\* The transmitter is never left busy: TX_SENDING is seen only while a call of
\* transmit() is between setting it and its loop, so no call is refused forever.
NeverStuckSending == tx_status = "SENDING" => tx.pc \in {"start", "wait"}

\* Every RADIO_TX_OK is backed by a TX_PACKET_SENT event of its own, although
\* events come late, together and after time-outs.
OkIsBacked == tx_ok <= tx_sent

\* The ring as a queue: from the buffer read() holds, or next_read, onwards.
occupied == {b \in Buffer : rx_buf[b] # 0}
oldest   == IF reader.pc \in {"copy", "free"} THEN reader.buf ELSE next_read
Frames   == INSTANCE FrameQueue WITH
              Capacity <- RX_BUF_COUNT,
              queue <- [i \in 1 .. Cardinality(occupied) |-> rx_buf[(oldest + i - 1) % RX_BUF_COUNT]]

\* The receive ring and its readers implement FrameQueue: frames are handed on
\* in the order of arrival, once, and lost only when RX_BUF_COUNT are waiting.
ImplementsFrameQueue == Frames!QueueSpec

\* Every stored frame is eventually read without the help of the timer, once a
\* frame has arrived after the start of radio_proc.
StoredIsRead ==
  \A f \in 1 .. MaxFrames :
    (awaited /\ \E b \in Buffer : rx_buf[b] = f) ~> (\A b \in Buffer : rx_buf[b] # f)

\* "Wait for the transmission, but never forever": transmit() returns even if
\* RAIL never reports anything.
TransmitReturns == tx.pc # "out" ~> tx.pc = "out"
=============================================================================
