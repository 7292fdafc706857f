----------------------------- MODULE RadioProofs -----------------------------
(***************************************************************************)
(* Safety of the radio driver for any number of receive buffers, frames    *)
(* and transmissions, and that its ring of buffers is the queue FrameQueue *)
(* promises.  NoLostWakeup and OkIsBacked are not inductive: the first has *)
(* to say who looks at the ring while a frame is being read, the second    *)
(* what a TX_SENT status that was not yet reported stands for.             *)
(***************************************************************************)
EXTENDS RadioDriver, Sequences, FiniteSetTheorems, SequenceTheorems, TLAPS

\* A frame in the ring has polled radio_proc, or radio_proc is reading and will
\* poll itself before it sleeps; before its start nobody was polled.
Watched == has_packet /\ awaited => polled \/ (reader.pc # "yield" /\ ~reader.mac)

\* A status TX_SENT that transmit() has still to report stands for an event that
\* was not reported.
Accounted == tx_ok + (IF tx_status = "SENT" /\ tx.pc # "clear" THEN 1 ELSE 0) <= tx_sent

RadioInv == RadioTypeOK /\ NoTornRead /\ Watched /\ NeverStuckSending /\ Accounted

Reader == [pc: {"start", "yield", "check", "copy", "free", "input"}, buf: Buffer, frame: Nat,
           mac: BOOLEAN, fits: BOOLEAN, early: Nat]
Tx     == [pc: {"out", "check", "autoack", "start", "wait", "result", "clear"}, ack: BOOLEAN]
Rail   == [state: {"IDLE", "RX", "TX"}, ack: BOOLEAN, waits: BOOLEAN, aborted: BOOLEAN]

-----------------------------------------------------------------------------
\* Indices stay inside the ring (next_read, next_write modulo RX_BUF_COUNT).
LEMMA SuccessorInRing == \A b \in Buffer : successor(b) \in Buffer
BY RadioAssumption DEF Buffer, successor

\* Buffer 0 exists.
LEMMA ZeroInRing == 0 \in Buffer
BY RadioAssumption DEF Buffer

\* How a step of transmit() or prepare() changes its own record.
LEMMA TxRecord ==
  /\ \A pc \in {"out", "check", "autoack", "start", "wait", "result", "clear"} : \A t \in Tx :
       [t EXCEPT !.pc = pc] \in Tx /\ [t EXCEPT !.pc = pc].pc = pc
  /\ \A ack \in BOOLEAN : \A t \in Tx :
       [t EXCEPT !.ack = ack] \in Tx /\ [t EXCEPT !.ack = ack].pc = t.pc
BY Zenon DEF Tx

\* How radio_proc, and a caller of read(), come to look at the ring.
LEMMA ReaderStarts ==
  ASSUME NEW r \in Reader, NEW mac \in BOOLEAN, NEW fits \in BOOLEAN
  PROVE  LET s == [r EXCEPT !.pc = "check", !.mac = mac, !.fits = fits]
         IN  s \in Reader /\ s.pc = "check" /\ s.mac = mac /\ s.early = r.early
BY Zenon DEF Reader

\* A step of read() that moves on without touching the rest of its record.
LEMMA ReaderMoves ==
  \A r \in Reader : \A pc \in {"yield", "check", "copy", "free", "input"} :
    LET s == [r EXCEPT !.pc = pc]
    IN  s \in Reader /\ s.pc = pc /\ s.mac = r.mac /\ s.early = r.early
BY Zenon DEF Reader

\* get_full_rx_buf remembers the buffer it found full.
LEMMA ReaderTakes ==
  /\ \A r \in Reader : \A b \in Buffer :
       LET s == [r EXCEPT !.pc = "copy", !.buf = b]
       IN  s \in Reader /\ s.pc = "copy" /\ s.buf = b /\ s.mac = r.mac /\ s.early = r.early
  /\ \A r \in Reader : \A b \in Buffer :
       LET s == [r EXCEPT !.pc = "free", !.buf = b]
       IN  /\ s \in Reader /\ s.pc = "free" /\ s.buf = b /\ s.mac = r.mac
           /\ s.fits = r.fits /\ s.early = r.early
BY Zenon DEF Reader

\* The copy of a frame.
LEMMA ReaderCopies ==
  \A r \in Reader : \A f \in Nat :
    LET s == [r EXCEPT !.pc = "free", !.frame = f]
    IN  /\ s \in Reader /\ s.pc = "free" /\ s.frame = f /\ s.buf = r.buf
        /\ s.mac = r.mac /\ s.early = r.early
BY Zenon DEF Reader

\* The end of read().
LEMMA ReaderFrees ==
  \A r \in Reader : \A pc \in {"yield", "input"} :
    LET s == [r EXCEPT !.pc = pc, !.buf = 0, !.frame = 0]
    IN  s \in Reader /\ s.pc = pc /\ s.mac = r.mac /\ s.early = r.early
BY Zenon, ZeroInRing DEF Reader

\* process_start: radio_proc waits, whatever has arrived before.
LEMMA ReaderWaits ==
  \A r \in Reader : \A n \in Nat :
    LET s == [r EXCEPT !.pc = "yield", !.early = n]
    IN  s \in Reader /\ s.pc = "yield" /\ s.early = n
BY Zenon DEF Reader

-----------------------------------------------------------------------------
(* The interrupt.                                                          *)

\* move_to_rx_buffer writes only into a buffer that is empty, hence not into the
\* one that read() holds, and radio_proc is polled if it has been started.
LEMMA RxInterruptKeeps ==
  ASSUME RadioInv, NEW good \in BOOLEAN, RxInterrupt(good)
  PROVE  RadioInv'
<1> USE DEF RadioInv
<1>1. /\ polled' \in BOOLEAN /\ (reader.pc # "start" => polled')
      /\ UNCHANGED <<next_read, reader, delivered, tx_status, tx, tx_sent, tx_ok, began, rail>>
  BY DEF RxInterrupt, process_poll, txVars, RadioTypeOK
<1>2. \/ UNCHANGED <<rx_buf, next_write, arrived>>
      \/ arrived' = arrived + 1 /\ UNCHANGED <<rx_buf, next_write>>
      \/ /\ arrived' = arrived + 1 /\ rx_buf[next_write] = 0
         /\ rx_buf' = [rx_buf EXCEPT ![next_write] = arrived + 1]
         /\ next_write' = successor(next_write)
  BY DEF RxInterrupt, move_to_rx_buffer, get_empty_rx_buf
<1>3. rx_buf' \in [Buffer -> Nat] /\ next_write' \in Buffer /\ arrived' \in Nat
  BY <1>2, SuccessorInRing DEF RadioTypeOK
<1>4. RadioTypeOK'
  BY <1>1, <1>3 DEF RadioTypeOK
<1>5. \A b \in Buffer : rx_buf[b] # 0 => rx_buf'[b] = rx_buf[b]
  BY <1>2 DEF RadioTypeOK
<1>6. reader.buf \in Buffer
  BY DEF RadioTypeOK
<1>7. NoTornRead'
  BY <1>1, <1>5, <1>6 DEF NoTornRead
<1>8. Watched' /\ NeverStuckSending' /\ Accounted'
  BY <1>1 DEF Watched, awaited, NeverStuckSending, Accounted
<1> QED  BY <1>4, <1>7, <1>8

\* A transmit event sets a final status, and TX_SENT only together with its event.
LEMMA TxInterruptKeeps ==
  ASSUME RadioInv, TxInterrupt
  PROVE  RadioInv'
<1> USE DEF RadioInv
<1>1. PICK events \in TxEvents :
        /\ tx_status' = status_after(events)
        /\ tx_sent' = IF "TX_PACKET_SENT" \in events THEN tx_sent + 1 ELSE tx_sent
        /\ rail' = rail_after(events)
        /\ UNCHANGED <<rxVars, tx, tx_ok, began>>
  BY DEF TxInterrupt
<1>2. UNCHANGED <<rx_buf, next_read, next_write, polled, reader, arrived, delivered, tx, tx_ok, began>>
  BY <1>1 DEF rxVars
<1>3. rail' \in Rail
  <2>1. rail \in Rail
    BY DEF RadioTypeOK, Rail
  <2> QED  BY <1>1, <2>1, Zenon DEF rail_after, Rail
<1>4. tx_status' \in TxStatus \ {"SENDING", "IDLE"}
  BY <1>1 DEF status_after, TxStatus
<1>5. tx_status' = "SENT" => tx_sent' = tx_sent + 1
  BY <1>1 DEF status_after
<1>6. tx_sent' \in Nat /\ tx_sent' >= tx_sent
  BY <1>1 DEF RadioTypeOK
<1>7. RadioTypeOK'
  BY <1>2, <1>3, <1>4, <1>6 DEF RadioTypeOK, Rail
<1>8. NoTornRead' /\ Watched'
  BY <1>2 DEF NoTornRead, Watched, awaited, has_packet
<1>9. NeverStuckSending' /\ Accounted'
  BY <1>2, <1>4, <1>5, <1>6 DEF NeverStuckSending, Accounted, RadioTypeOK
<1> QED  BY <1>7, <1>8, <1>9

\* RAIL alone, and switching the receiver, concern neither ring nor status.
LEMMA RailKeeps ==
  ASSUME RadioInv, RailAcked \/ On \/ Off
  PROVE  RadioInv'
<1> USE DEF RadioInv
<1>1. UNCHANGED <<rx_buf, next_read, next_write, polled, reader, arrived, delivered,
                  tx_status, tx, tx_sent, tx_ok, began>>
  BY DEF RailAcked, On, Off, rxVars, txVars
<1>2. rail' \in Rail
  <2>1. rail \in Rail
    BY DEF RadioTypeOK, Rail
  <2> QED  BY <2>1, Zenon DEF RailAcked, On, Off, Rail
<1>3. RadioTypeOK'
  BY <1>1, <1>2 DEF RadioTypeOK, Rail
<1> QED  BY <1>1, <1>3 DEF NoTornRead, Watched, awaited, has_packet, NeverStuckSending, Accounted

-----------------------------------------------------------------------------
(* Receiving.                                                              *)

\* radio_proc is started: what is in the ring arrived too early to be awaited.
LEMMA ProcessStartKeeps ==
  ASSUME RadioInv, ProcessStart
  PROVE  RadioInv'
<1> USE DEF RadioInv
<1>1. UNCHANGED <<rx_buf, next_read, next_write, polled, arrived, delivered,
                  tx_status, tx, tx_sent, tx_ok, began, rail>>
  BY DEF ProcessStart, txVars
<1>2. reader' = [reader EXCEPT !.pc = "yield", !.early = arrived]
  BY DEF ProcessStart
<1>3. reader \in Reader /\ arrived \in Nat
  BY DEF RadioTypeOK, Reader
<1>4. reader' \in Reader /\ reader'.pc = "yield" /\ reader'.early = arrived
  BY <1>2, <1>3, ReaderWaits
<1>5. RadioTypeOK'
  BY <1>1, <1>4 DEF RadioTypeOK, Reader
<1>6. NoTornRead' /\ Watched'
  BY <1>1, <1>3, <1>4 DEF NoTornRead, Watched, awaited
<1>7. NeverStuckSending' /\ Accounted'
  BY <1>1 DEF NeverStuckSending, Accounted
<1> QED  BY <1>5, <1>6, <1>7

\* radio_proc looks at the ring: it has used up its poll and will poll itself.
LEMMA ResumeKeeps ==
  ASSUME RadioInv, NEW byTimer \in BOOLEAN, Resume(byTimer)
  PROVE  RadioInv'
<1> USE DEF RadioInv
<1>1. UNCHANGED <<rx_buf, next_read, next_write, arrived, delivered,
                  tx_status, tx, tx_sent, tx_ok, began, rail>>
  BY DEF Resume, txVars
<1>2. reader' = [reader EXCEPT !.pc = "check", !.mac = FALSE, !.fits = TRUE]
  BY DEF Resume
<1>3. reader \in Reader
  BY DEF RadioTypeOK, Reader
<1>4. reader' \in Reader /\ reader'.pc = "check" /\ reader'.mac = FALSE
  BY <1>2, <1>3, ReaderStarts
<1>5. polled' \in BOOLEAN
  BY DEF Resume, RadioTypeOK
<1>6. RadioTypeOK'
  BY <1>1, <1>4, <1>5 DEF RadioTypeOK, Reader
<1>7. NoTornRead' /\ Watched'
  BY <1>4 DEF NoTornRead, Watched
<1>8. NeverStuckSending' /\ Accounted'
  BY <1>1 DEF NeverStuckSending, Accounted
<1> QED  BY <1>6, <1>7, <1>8

\* The MAC layer reads: the poll that waits for radio_proc is left alone.
LEMMA MacReadKeeps ==
  ASSUME RadioInv, NEW fits \in BOOLEAN, MacRead(fits)
  PROVE  RadioInv'
<1> USE DEF RadioInv
<1>1. UNCHANGED <<rx_buf, next_read, next_write, polled, arrived, delivered,
                  tx_status, tx, tx_sent, tx_ok, began, rail>>
  BY DEF MacRead, txVars
<1>2. reader.pc = "yield" /\ reader' = [reader EXCEPT !.pc = "check", !.mac = TRUE, !.fits = fits]
  BY DEF MacRead
<1>3. reader \in Reader
  BY DEF RadioTypeOK, Reader
<1>4. reader' \in Reader /\ reader'.pc = "check" /\ reader'.early = reader.early
  BY <1>2, <1>3, ReaderStarts
<1>5. RadioTypeOK'
  BY <1>1, <1>4 DEF RadioTypeOK, Reader
<1>6. NoTornRead'
  BY <1>4 DEF NoTornRead
<1>7. Watched'
  BY <1>1, <1>2, <1>4 DEF Watched, awaited, has_packet
<1>8. NeverStuckSending' /\ Accounted'
  BY <1>1 DEF NeverStuckSending, Accounted
<1> QED  BY <1>5, <1>6, <1>7, <1>8

\* get_full_rx_buf: the buffer it takes is full; when it finds none, nothing is
\* left to be woken up for.
LEMMA GetFullRxBufKeeps ==
  ASSUME RadioInv, GetFullRxBuf
  PROVE  RadioInv'
<1> USE DEF RadioInv
<1>1. UNCHANGED <<rx_buf, next_write, polled, arrived, delivered,
                  tx_status, tx, tx_sent, tx_ok, began, rail>>
  BY DEF GetFullRxBuf, txVars
<1>2. reader \in Reader /\ reader.pc = "check"
  BY DEF GetFullRxBuf, RadioTypeOK, Reader
<1>3. NeverStuckSending' /\ Accounted'
  BY <1>1 DEF NeverStuckSending, Accounted
<1>4. CASE has_packet
  <2>1. next_read' = successor(next_read)
    BY <1>4 DEF GetFullRxBuf
  <2>2. next_read \in Buffer /\ next_read' \in Buffer
    BY <2>1, SuccessorInRing DEF RadioTypeOK
  <2>3. \/ reader.fits /\ reader' = [reader EXCEPT !.pc = "copy", !.buf = next_read]
        \/ ~reader.fits /\ reader' = [reader EXCEPT !.pc = "free", !.buf = next_read]
    BY <1>4 DEF GetFullRxBuf
  <2>4. /\ reader' \in Reader /\ reader'.buf = next_read /\ reader'.mac = reader.mac
        /\ reader'.early = reader.early
        /\ reader'.pc = "copy" \/ (reader'.pc = "free" /\ ~reader'.fits)
    <3>1. CASE reader.fits
      <4>1. reader' = [reader EXCEPT !.pc = "copy", !.buf = next_read]
        BY <3>1, <2>3
      <4>2. next_read \in Buffer /\ reader \in Reader
        BY <2>2, <1>2
      <4>3. /\ reader' \in Reader /\ reader'.pc = "copy" /\ reader'.buf = next_read
            /\ reader'.mac = reader.mac /\ reader'.early = reader.early
        <5>1. LET s == [reader EXCEPT !.pc = "copy", !.buf = next_read]
              IN  /\ s \in Reader /\ s.pc = "copy" /\ s.buf = next_read /\ s.mac = reader.mac
                  /\ s.early = reader.early
          BY <4>2, ReaderTakes, Zenon
        <5> QED  BY <4>1, <5>1
      <4> QED  BY <3>1, <4>3
    <3>2. CASE ~reader.fits
      <4>1. reader' = [reader EXCEPT !.pc = "free", !.buf = next_read]
        BY <3>2, <2>3
      <4>2. next_read \in Buffer /\ reader \in Reader
        BY <2>2, <1>2
      <4>3. /\ reader' \in Reader /\ reader'.pc = "free" /\ reader'.buf = next_read
            /\ reader'.mac = reader.mac /\ reader'.fits = reader.fits
            /\ reader'.early = reader.early
        BY <4>1, <4>2, ReaderTakes
      <4> QED  BY <3>2, <4>3
    <3> QED  BY <3>1, <3>2
  <2>5. RadioTypeOK'
    BY <1>1, <2>2, <2>4 DEF RadioTypeOK, Reader
  <2>6. rx_buf'[reader'.buf] # 0
    BY <1>1, <1>4, <2>2, <2>4 DEF has_packet, RadioTypeOK
  <2>7. NoTornRead'
    BY <2>4, <2>6 DEF NoTornRead
  <2>8. Watched'
    BY <1>1, <1>2, <1>4, <2>4 DEF Watched, awaited
  <2> QED  BY <1>3, <2>5, <2>7, <2>8
<1>5. CASE ~has_packet
  <2>1. next_read' = next_read /\ reader' = [reader EXCEPT !.pc = "yield"]
    BY <1>5 DEF GetFullRxBuf
  <2>2. reader' \in Reader /\ reader'.pc = "yield"
    BY <1>2, <2>1, ReaderMoves
  <2>3. RadioTypeOK'
    BY <1>1, <2>1, <2>2 DEF RadioTypeOK, Reader
  <2>4. NoTornRead' /\ Watched'
    BY <1>1, <1>5, <2>1, <2>2 DEF NoTornRead, Watched, awaited, has_packet
  <2> QED  BY <1>3, <2>3, <2>4
<1> QED  BY <1>4, <1>5

\* The copy is the frame that is still in the buffer.
LEMMA CopyPacketKeeps ==
  ASSUME RadioInv, CopyPacket
  PROVE  RadioInv'
<1> USE DEF RadioInv
<1>1. UNCHANGED <<rx_buf, next_read, next_write, polled, arrived, delivered,
                  tx_status, tx, tx_sent, tx_ok, began, rail>>
  BY DEF CopyPacket, txVars
<1>2. reader.pc = "copy" /\ reader' = [reader EXCEPT !.pc = "free", !.frame = rx_buf[reader.buf]]
  BY DEF CopyPacket
<1>3. reader \in Reader /\ reader.buf \in Buffer /\ rx_buf[reader.buf] \in Nat
  BY DEF RadioTypeOK, Reader
<1>4. /\ reader' \in Reader /\ reader'.pc = "free" /\ reader'.frame = rx_buf[reader.buf]
      /\ reader'.buf = reader.buf /\ reader'.mac = reader.mac /\ reader'.early = reader.early
  BY <1>2, <1>3, ReaderCopies
<1>5. RadioTypeOK'
  BY <1>1, <1>4 DEF RadioTypeOK, Reader
<1>6. NoTornRead'
  BY <1>1, <1>2, <1>4 DEF NoTornRead
<1>7. Watched'
  BY <1>1, <1>2, <1>4 DEF Watched, awaited, has_packet
<1>8. NeverStuckSending' /\ Accounted'
  BY <1>1 DEF NeverStuckSending, Accounted
<1> QED  BY <1>5, <1>6, <1>7, <1>8

\* free_rx_buf empties a buffer, which wakes nobody and needs nobody to wake.
LEMMA FreeRxBufKeeps ==
  ASSUME RadioInv, FreeRxBuf
  PROVE  RadioInv'
<1> USE DEF RadioInv
<1>1. UNCHANGED <<next_read, next_write, polled, arrived,
                  tx_status, tx, tx_sent, tx_ok, began, rail>>
  BY DEF FreeRxBuf, txVars
<1>2. reader \in Reader /\ reader.buf \in Buffer /\ reader.pc = "free"
  BY DEF FreeRxBuf, RadioTypeOK, Reader
<1>3. rx_buf' = [rx_buf EXCEPT ![reader.buf] = 0] /\ rx_buf' \in [Buffer -> Nat]
  BY <1>2 DEF FreeRxBuf, RadioTypeOK
<1>4. delivered' \in Nat
  BY <1>2 DEF FreeRxBuf, RadioTypeOK, Reader
<1>5. PICK pc \in {"yield", "input"} :
        /\ reader' = [reader EXCEPT !.pc = pc, !.buf = 0, !.frame = 0]
        /\ pc = "yield" => reader.mac
  BY DEF FreeRxBuf
<1>6. reader' \in Reader /\ reader'.pc = pc /\ reader'.mac = reader.mac
      /\ reader'.early = reader.early
  BY <1>2, <1>5, ReaderFrees
<1>7. RadioTypeOK'
  BY <1>1, <1>3, <1>4, <1>6 DEF RadioTypeOK, Reader
<1>8. NoTornRead'
  BY <1>5, <1>6 DEF NoTornRead
<1>9. has_packet' => has_packet
  BY <1>1, <1>2, <1>3 DEF has_packet, RadioTypeOK
<1>10. Watched'
  BY <1>1, <1>2, <1>5, <1>6, <1>9 DEF Watched, awaited
<1>11. NeverStuckSending' /\ Accounted'
  BY <1>1 DEF NeverStuckSending, Accounted
<1> QED  BY <1>7, <1>8, <1>10, <1>11

\* After NETSTACK_MAC.input radio_proc polls itself.
LEMMA MacInputKeeps ==
  ASSUME RadioInv, MacInput
  PROVE  RadioInv'
<1> USE DEF RadioInv
<1>1. /\ UNCHANGED <<rx_buf, next_read, next_write, arrived, delivered,
                     tx_status, tx, tx_sent, tx_ok, began, rail>>
      /\ polled' = TRUE /\ reader' = [reader EXCEPT !.pc = "yield"]
  BY DEF MacInput, txVars
<1>2. reader \in Reader
  BY DEF RadioTypeOK, Reader
<1>3. reader' \in Reader /\ reader'.pc = "yield"
  BY <1>1, <1>2, ReaderMoves
<1>4. RadioTypeOK'
  BY <1>1, <1>3 DEF RadioTypeOK, Reader
<1>5. NoTornRead' /\ Watched'
  BY <1>1, <1>3 DEF NoTornRead, Watched
<1>6. NeverStuckSending' /\ Accounted'
  BY <1>1 DEF NeverStuckSending, Accounted
<1> QED  BY <1>4, <1>5, <1>6

-----------------------------------------------------------------------------
(* Transmitting.                                                           *)

\* The ring is none of transmit()'s business; what is left to show of its steps
\* is where they leave tx_status and how they count.
LEMMA TransmitKeepsRing ==
  ASSUME RadioInv, UNCHANGED rxVars, tx' \in Tx, rail' \in Rail, tx_status' \in TxStatus,
         tx_ok' \in Nat, began' \in Nat, tx_sent' = tx_sent
  PROVE  RadioTypeOK' /\ NoTornRead' /\ Watched'
<1>1. UNCHANGED <<rx_buf, next_read, next_write, polled, reader, arrived, delivered>>
  BY DEF rxVars
<1>2. RadioTypeOK'
  BY <1>1 DEF RadioInv, RadioTypeOK, Tx, Rail
<1> QED  BY <1>1, <1>2 DEF RadioInv, NoTornRead, Watched, awaited, has_packet

\* prepare(), and the first tests of transmit().
LEMMA TransmitBeginsKeeps ==
  ASSUME RadioInv,
         (\E ack \in BOOLEAN : Prepare(ack)) \/ TransmitCleanup \/ TransmitCheck \/ TransmitSending
  PROVE  RadioInv'
<1>1. tx \in Tx /\ rail \in Rail /\ tx_status \in TxStatus /\ tx_ok \in Nat /\ began \in Nat
      /\ tx_sent \in Nat
  BY DEF RadioInv, RadioTypeOK, Tx, Rail
<1>2. UNCHANGED rxVars /\ rail' = rail /\ tx_sent' = tx_sent /\ tx_ok' = tx_ok
  BY DEF Prepare, TransmitCleanup, TransmitCheck, TransmitSending
<1>3. began' \in Nat /\ tx_status' \in TxStatus
  BY <1>1 DEF Prepare, TransmitCleanup, TransmitCheck, TransmitSending, TxStatus
<1>4. ASSUME NEW ack \in BOOLEAN, Prepare(ack)
      PROVE  tx' \in Tx /\ tx'.pc = tx.pc /\ tx_status' = tx_status
  BY <1>1, <1>4, TxRecord DEF Prepare
<1>5. CASE TransmitCleanup
  <2>1. /\ tx' \in Tx /\ tx'.pc = "check" /\ tx.pc = "out"
        /\ tx_status' \in {"SENDING", "IDLE"}
        /\ (tx_status' = "SENDING" => tx_status = "SENDING")
    BY <1>1, <1>5, TxRecord DEF TransmitCleanup, caller
  <2> QED  BY <1>1, <1>2, <1>3, <2>1, TransmitKeepsRing
           DEF RadioInv, NeverStuckSending, Accounted
<1>6. CASE TransmitCheck
  <2>1. tx' \in Tx /\ tx'.pc \in {"autoack", "out"} /\ tx_status' = tx_status /\ tx.pc = "check"
    BY <1>1, <1>6, TxRecord DEF TransmitCheck
  <2> QED  BY <1>1, <1>2, <1>3, <2>1, TransmitKeepsRing
           DEF RadioInv, NeverStuckSending, Accounted
<1>7. CASE TransmitSending
  <2>1. tx' \in Tx /\ tx'.pc = "start" /\ tx_status' = "SENDING"
    BY <1>1, <1>7, TxRecord DEF TransmitSending
  <2>2. tx_ok <= tx_sent
    BY <1>1 DEF RadioInv, Accounted
  <2> QED  BY <1>1, <1>2, <1>3, <2>1, <2>2, TransmitKeepsRing
           DEF RadioInv, NeverStuckSending, Accounted
<1>8. CASE \E ack \in BOOLEAN : Prepare(ack)
  <2>1. tx' \in Tx /\ tx'.pc = tx.pc /\ tx_status' = tx_status
    BY <1>4, <1>8
  <2> QED  BY <1>1, <1>2, <1>3, <2>1, TransmitKeepsRing
           DEF RadioInv, NeverStuckSending, Accounted
<1> QED  BY <1>5, <1>6, <1>7, <1>8

\* RAIL_StartCcaCsmaTx, its error and the time-out.
LEMMA TransmitStartKeeps ==
  ASSUME RadioInv, TransmitStart \/ TransmitStartError \/ TransmitTimeout
  PROVE  RadioInv'
<1>1. tx \in Tx /\ rail \in Rail /\ tx_status \in TxStatus /\ tx_ok \in Nat /\ began \in Nat
      /\ tx_sent \in Nat /\ tx_ok <= tx_sent
  BY DEF RadioInv, RadioTypeOK, Tx, Rail, Accounted
<1>2. UNCHANGED rxVars /\ tx_sent' = tx_sent /\ tx_ok' = tx_ok /\ began' = began
  BY DEF TransmitStart, TransmitStartError, TransmitTimeout
<1>3. rail' \in Rail
  BY <1>1, Zenon DEF TransmitStart, TransmitStartError, TransmitTimeout, Rail, Tx
<1>4. CASE TransmitStart
  <2>1. tx' \in Tx /\ tx'.pc = "wait" /\ tx_status' = tx_status /\ tx.pc = "start"
    BY <1>1, <1>4, TxRecord DEF TransmitStart
  <2> QED  BY <1>1, <1>2, <1>3, <2>1, TransmitKeepsRing
           DEF RadioInv, NeverStuckSending, Accounted
<1>5. CASE TransmitStartError \/ TransmitTimeout
  <2>1. tx' \in Tx /\ tx'.pc = "out" /\ tx_status' = "IDLE"
    <3>1. tx' = [tx EXCEPT !.pc = "out"] /\ tx_status' = "IDLE"
      BY <1>5 DEF TransmitStartError, TransmitTimeout
    <3> QED  BY <1>1, <3>1, TxRecord
  <2> QED  BY <1>1, <1>2, <1>3, <2>1, TransmitKeepsRing
           DEF RadioInv, NeverStuckSending, Accounted, TxStatus
<1> QED  BY <1>4, <1>5

\* The wait is over: a success is counted before the status is cleared.
LEMMA TransmitEndsKeeps ==
  ASSUME RadioInv, TransmitDone \/ TransmitResult \/ TransmitClear
  PROVE  RadioInv'
<1>1. tx \in Tx /\ rail \in Rail /\ tx_status \in TxStatus /\ tx_ok \in Nat /\ began \in Nat
      /\ tx_sent \in Nat /\ tx_ok <= tx_sent
  BY DEF RadioInv, RadioTypeOK, Tx, Rail, Accounted
<1>2. UNCHANGED rxVars /\ rail' = rail /\ tx_sent' = tx_sent /\ began' = began
  BY DEF TransmitDone, TransmitResult, TransmitClear
<1>3. CASE TransmitDone
  <2>1. tx' \in Tx /\ tx'.pc = "result" /\ tx.pc = "wait"
        /\ tx_status' = tx_status /\ tx_status # "SENDING" /\ tx_ok' = tx_ok
    BY <1>1, <1>3, TxRecord DEF TransmitDone
  <2> QED  BY <1>1, <1>2, <2>1, TransmitKeepsRing
           DEF RadioInv, NeverStuckSending, Accounted
<1>4. CASE TransmitResult
  <2>1. tx' \in Tx /\ tx'.pc = "clear" /\ tx.pc = "result" /\ tx_status' = tx_status
        /\ tx_ok' = IF tx_status = "SENT" THEN tx_ok + 1 ELSE tx_ok
    BY <1>1, <1>4, TxRecord DEF TransmitResult, result_ok
  <2>2. tx_ok' \in Nat /\ tx_ok' <= tx_sent
    BY <1>1, <2>1 DEF RadioInv, Accounted
  <2> QED  BY <1>1, <1>2, <2>1, <2>2, TransmitKeepsRing
           DEF RadioInv, NeverStuckSending, Accounted
<1>5. CASE TransmitClear
  <2>1. tx' \in Tx /\ tx'.pc = "out" /\ tx_status' = "IDLE" /\ tx_ok' = tx_ok
    BY <1>1, <1>5, TxRecord DEF TransmitClear
  <2> QED  BY <1>1, <1>2, <2>1, TransmitKeepsRing
           DEF RadioInv, NeverStuckSending, Accounted, TxStatus
<1> QED  BY <1>3, <1>4, <1>5

-----------------------------------------------------------------------------
\* After init() the ring is empty and nothing is being sent.
LEMMA RadioStarts == RadioInit => RadioInv
<1> SUFFICES ASSUME RadioInit PROVE RadioInv
  OBVIOUS
<1>1. RadioTypeOK
  BY ZeroInRing DEF RadioInit, RadioTypeOK, TxStatus
<1> QED  BY <1>1, ZeroInRing
         DEF RadioInit, RadioInv, NoTornRead, Watched, awaited, has_packet, NeverStuckSending,
             Accounted

\* No step of the interrupt or of the processes breaks the invariant.
LEMMA RadioStep == RadioInv /\ [RadioNext]_radioVars => RadioInv'
<1> SUFFICES ASSUME RadioInv, [RadioNext]_radioVars PROVE RadioInv'
  OBVIOUS
<1>1. CASE Interrupt \/ RailAcked \/ On \/ Off
  BY <1>1, RxInterruptKeeps, TxInterruptKeeps, RailKeeps DEF Interrupt
<1>2. CASE Receive
  BY <1>2, ProcessStartKeeps, ResumeKeeps, MacReadKeeps, GetFullRxBufKeeps, CopyPacketKeeps,
     FreeRxBufKeeps, MacInputKeeps DEF Receive, ReadStep
<1>3. CASE (\E ack \in BOOLEAN : Prepare(ack)) \/ TransmitCleanup \/ TransmitStep
  BY <1>3, TransmitBeginsKeeps, TransmitStartKeeps, TransmitEndsKeeps DEF TransmitStep
<1>4. CASE UNCHANGED radioVars
  BY <1>4 DEF radioVars, rxVars, txVars, RadioInv, RadioTypeOK, NoTornRead, Watched, awaited,
              has_packet, NeverStuckSending, Accounted
<1> QED  BY <1>1, <1>2, <1>3, <1>4 DEF RadioNext

\* The invariant holds in every behaviour of the driver.
THEOREM RadioInvariant == RadioSpec => []RadioInv
BY RadioStarts, RadioStep, PTL DEF RadioSpec

\* The receive side: types, the interrupt never writes into the buffer that is
\* being read, and no frame is left in the ring with radio_proc asleep and not
\* polled, once one has arrived after the start of radio_proc.
THEOREM ReceiveSafe == RadioSpec => [](RadioTypeOK /\ NoTornRead /\ NoLostWakeup)
<1>1. RadioInv => RadioTypeOK /\ NoTornRead /\ NoLostWakeup
  BY DEF RadioInv, Watched, NoLostWakeup
<1> QED  BY <1>1, RadioInvariant, PTL

\* The transmit side: TX_SENDING outlives no call of transmit().
THEOREM TransmitterFree == RadioSpec => []NeverStuckSending
<1>1. RadioInv => NeverStuckSending
  BY DEF RadioInv
<1> QED  BY <1>1, RadioInvariant, PTL

\* The transmit side: no more successes are reported than frames were sent.
THEOREM SuccessIsBacked == RadioSpec => []OkIsBacked
<1>1. RadioInv => OkIsBacked
  BY DEF RadioInv, RadioTypeOK, Accounted, OkIsBacked
<1> QED  BY <1>1, RadioInvariant, PTL

\* Types, on their own.
THEOREM RadioTypes == RadioSpec => []RadioTypeOK
<1>1. RadioInv => RadioTypeOK
  BY DEF RadioInv
<1> QED  BY <1>1, RadioInvariant, PTL

\* The wakeup, on its own: radio_proc never sleeps on a frame without a poll,
\* once one has arrived after its start.
THEOREM WakeupKept == RadioSpec => []NoLostWakeup
<1>1. RadioInv => NoLostWakeup
  BY DEF RadioInv, Watched, NoLostWakeup
<1> QED  BY <1>1, RadioInvariant, PTL

-----------------------------------------------------------------------------
(* The ring implements the queue.  The buffers in use are consecutive, from *)
(* the oldest one up to next_write; how many they are is not kept by the    *)
(* driver, and a full ring and an empty one have the same indices.          *)

\* The i-th buffer after o, without the modulus.
at(o, i) == IF o + i < RX_BUF_COUNT THEN o + i ELSE o + i - RX_BUF_COUNT

Ring(buf, o, w, k) ==
  /\ \A i \in 0 .. RX_BUF_COUNT - 1 : buf[at(o, i)] # 0 <=> i < k
  /\ w = at(o, k)

RingInv ==
  /\ \E k \in 0 .. RX_BUF_COUNT : Ring(rx_buf, oldest, next_write, k)
  /\ reader.pc \in {"copy", "free"} => next_read = successor(reader.buf)

\* The k frames of the ring, oldest first.
FramesOf(buf, o, k) == [i \in 1 .. k |-> buf[(o + i - 1) % RX_BUF_COUNT]]

\* The i-th buffer after o, as the driver computes it one step at a time and as
\* the queue is read off the ring.
LEMMA RingIndex ==
  ASSUME NEW o \in Buffer, NEW i \in 0 .. RX_BUF_COUNT
  PROVE  /\ (o + i) % RX_BUF_COUNT = at(o, i)
         /\ at(o, i) \in Buffer
         /\ i < RX_BUF_COUNT => successor(at(o, i)) = at(o, i + 1)
         /\ i < RX_BUF_COUNT => at(successor(o), i) = at(o, i + 1)
<1>1. ASSUME NEW a \in 0 .. 2 * RX_BUF_COUNT - 1
      PROVE  a % RX_BUF_COUNT = IF a < RX_BUF_COUNT THEN a ELSE a - RX_BUF_COUNT
  BY RadioAssumption
<1>2. o + i \in 0 .. 2 * RX_BUF_COUNT - 1
  BY RadioAssumption DEF Buffer
<1>3. (o + i) % RX_BUF_COUNT = at(o, i) /\ at(o, i) \in Buffer
  BY <1>1, <1>2, RadioAssumption DEF at, Buffer
<1>4. \A b \in Buffer : successor(b) = IF b + 1 < RX_BUF_COUNT THEN b + 1 ELSE 0
  <2>1. \A b \in Buffer : b + 1 \in 0 .. 2 * RX_BUF_COUNT - 1
    BY RadioAssumption DEF Buffer
  <2> QED  BY <1>1, <2>1, RadioAssumption DEF Buffer, successor
<1>5. i < RX_BUF_COUNT => successor(at(o, i)) = at(o, i + 1)
  BY <1>3, <1>4, RadioAssumption DEF at, Buffer
<1>6. i < RX_BUF_COUNT => at(successor(o), i) = at(o, i + 1)
  BY <1>4, RadioAssumption DEF at, Buffer
<1> QED  BY <1>3, <1>5, <1>6

\* Different distances below RX_BUF_COUNT lead to different buffers, and every
\* buffer has one.
LEMMA RingCoordinates ==
  ASSUME NEW o \in Buffer
  PROVE  /\ \A i, j \in 0 .. RX_BUF_COUNT - 1 : at(o, i) = at(o, j) => i = j
         /\ \A b \in Buffer : \E i \in 0 .. RX_BUF_COUNT - 1 : b = at(o, i)
<1>1. \A i, j \in 0 .. RX_BUF_COUNT - 1 : at(o, i) = at(o, j) => i = j
  BY RadioAssumption DEF at, Buffer
<1>2. ASSUME NEW b \in Buffer
      PROVE  \E i \in 0 .. RX_BUF_COUNT - 1 : b = at(o, i)
  <2>1. CASE b >= o
    <3>1. b - o \in 0 .. RX_BUF_COUNT - 1 /\ b = at(o, b - o)
      BY <2>1, RadioAssumption DEF at, Buffer
    <3> QED  BY <3>1
  <2>2. CASE b < o
    <3>1. b - o + RX_BUF_COUNT \in 0 .. RX_BUF_COUNT - 1 /\ b = at(o, b - o + RX_BUF_COUNT)
      BY <2>2, RadioAssumption DEF at, Buffer
    <3> QED  BY <3>1
  <2> QED  BY <2>1, <2>2, RadioAssumption DEF Buffer
<1> QED  BY <1>1, <1>2

\* As many buffers are in use as the invariant says.
LEMMA RingCount ==
  ASSUME NEW buf \in [Buffer -> Nat], NEW o \in Buffer, NEW w, NEW k \in 0 .. RX_BUF_COUNT,
         Ring(buf, o, w, k)
  PROVE  Cardinality({b \in Buffer : buf[b] # 0}) = k
<1> DEFINE S == {b \in Buffer : buf[b] # 0}
           f == [i \in 1 .. k |-> at(o, i - 1)]
<1>1. k \in Nat /\ \A i \in 1 .. k : i - 1 \in 0 .. RX_BUF_COUNT - 1 /\ i - 1 < k
  BY RadioAssumption
<1>2. \A i \in 1 .. k : f[i] \in S
  BY <1>1, RingIndex, RadioAssumption DEF Ring
<1>3. \A i, j \in 1 .. k : f[i] = f[j] => i = j
  BY <1>1, RingCoordinates, RadioAssumption
<1>4. ASSUME NEW b \in S
      PROVE  \E i \in 1 .. k : f[i] = b
  <2>1. PICK d \in 0 .. RX_BUF_COUNT - 1 : b = at(o, d)
    BY RingCoordinates
  <2>2. d < k
    BY <2>1 DEF Ring
  <2>3. d + 1 \in 1 .. k /\ f[d + 1] = b
    BY <2>1, <2>2, RadioAssumption
  <2> QED  BY <2>3
<1>5. f \in Bijection(1 .. k, S)
  <2>1. f \in [1 .. k -> S]
    BY <1>2
  <2> HIDE DEF f
  <2>2. f \in Injection(1 .. k, S)
    BY <2>1, <1>3 DEF Injection, IsInjective
  <2>3. f \in Surjection(1 .. k, S)
    BY <2>1, <1>4 DEF Surjection
  <2> QED  BY <2>2, <2>3 DEF Bijection
<1>6. ExistsBijection(1 .. k, S)
  BY <1>5 DEF ExistsBijection
<1> QED  BY <1>1, <1>6, FS_CountingElements

\* The frames of the ring as a sequence.
LEMMA FramesAreSeq ==
  ASSUME NEW buf \in [Buffer -> Nat], NEW o \in Buffer, NEW k \in 0 .. RX_BUF_COUNT
  PROVE  /\ FramesOf(buf, o, k) \in Seq(Nat)
         /\ Len(FramesOf(buf, o, k)) = k
         /\ \A i \in 1 .. k : FramesOf(buf, o, k)[i] = buf[at(o, i - 1)]
<1>1. ASSUME NEW i \in 1 .. k
      PROVE  (o + i - 1) % RX_BUF_COUNT = at(o, i - 1) /\ at(o, i - 1) \in Buffer
  <2>1. i - 1 \in 0 .. RX_BUF_COUNT /\ o \in Nat /\ o + i - 1 = o + (i - 1)
    BY RadioAssumption DEF Buffer
  <2> QED  BY <2>1, RingIndex
<1>2. k \in Nat /\ FramesOf(buf, o, k) \in [1 .. k -> Nat]
  BY <1>1, RadioAssumption DEF FramesOf
<1>3. FramesOf(buf, o, k) \in Seq(Nat)
  BY <1>2, SeqDef
<1>4. Len(FramesOf(buf, o, k)) = k
  BY <1>2, <1>3, LenProperties
<1>5. \A i \in 1 .. k : FramesOf(buf, o, k)[i] = buf[at(o, i - 1)]
  BY <1>1 DEF FramesOf
<1> QED  BY <1>3, <1>4, <1>5

\* Storing a frame behind the last one appends it.
LEMMA StoreAppends ==
  ASSUME NEW buf \in [Buffer -> Nat], NEW o \in Buffer, NEW k \in 0 .. RX_BUF_COUNT - 1,
         NEW x \in Nat
  PROVE  FramesOf([buf EXCEPT ![at(o, k)] = x], o, k + 1) = Append(FramesOf(buf, o, k), x)
<1> DEFINE buf2 == [buf EXCEPT ![at(o, k)] = x]
           s == FramesOf(buf, o, k)
           t == FramesOf(buf2, o, k + 1)
<1>1. k \in 0 .. RX_BUF_COUNT /\ k + 1 \in 0 .. RX_BUF_COUNT /\ k \in Nat
  BY RadioAssumption
<1>2. buf2 \in [Buffer -> Nat] /\ at(o, k) \in Buffer
  BY <1>1, RingIndex
<1>3. s \in Seq(Nat) /\ Len(s) = k /\ \A i \in 1 .. k : s[i] = buf[at(o, i - 1)]
  BY <1>1, FramesAreSeq
<1>4. t \in Seq(Nat) /\ Len(t) = k + 1 /\ \A i \in 1 .. k + 1 : t[i] = buf2[at(o, i - 1)]
  <2> HIDE DEF buf2
  <2> QED  BY <1>1, <1>2, FramesAreSeq
<1>5. ASSUME NEW i \in 1 .. k + 1
      PROVE  t[i] = IF i <= k THEN s[i] ELSE x
  <2>1. i - 1 \in 0 .. RX_BUF_COUNT - 1 /\ i - 1 \in 0 .. RX_BUF_COUNT
    BY <1>1, RadioAssumption
  <2>2. at(o, i - 1) \in Buffer /\ (at(o, i - 1) = at(o, k) <=> i = k + 1)
    <3>1. k \in 0 .. RX_BUF_COUNT - 1 /\ (i - 1 = k <=> i = k + 1)
      BY <1>1
    <3> QED  BY <2>1, <3>1, RingIndex, RingCoordinates
  <2>3. t[i] = IF at(o, i - 1) = at(o, k) THEN x ELSE buf[at(o, i - 1)]
    BY <1>2, <1>4, <2>2
  <2> QED  BY <1>1, <1>3, <2>2, <2>3
<1> HIDE DEF s, t
<1>6. t = Append(s, x)
  <2>1. Append(s, x) \in Seq(Nat) /\ Len(Append(s, x)) = k + 1
    BY <1>3
  <2>2. \A i \in 1 .. k + 1 : Append(s, x)[i] = IF i <= k THEN s[i] ELSE x
    BY <1>1, <1>3
  <2> QED  BY <1>4, <1>5, <2>1, <2>2, SeqEqual
<1> QED  BY <1>6 DEF s, t

\* Freeing the oldest frame's buffer removes that frame and no other.
LEMMA FreeRemovesHead ==
  ASSUME NEW buf \in [Buffer -> Nat], NEW o \in Buffer, NEW k \in 1 .. RX_BUF_COUNT
  PROVE  /\ FramesOf(buf, o, k) # << >>
         /\ Head(FramesOf(buf, o, k)) = buf[o]
         /\ FramesOf([buf EXCEPT ![o] = 0], successor(o), k - 1) = Tail(FramesOf(buf, o, k))
<1> DEFINE buf2 == [buf EXCEPT ![o] = 0]
           s == FramesOf(buf, o, k)
           t == FramesOf(buf2, successor(o), k - 1)
<1>1. k \in 0 .. RX_BUF_COUNT /\ k - 1 \in 0 .. RX_BUF_COUNT /\ successor(o) \in Buffer
  BY RadioAssumption, SuccessorInRing
<1>2. buf2 \in [Buffer -> Nat]
  OBVIOUS
<1>3. s \in Seq(Nat) /\ Len(s) = k /\ \A i \in 1 .. k : s[i] = buf[at(o, i - 1)]
  BY <1>1, FramesAreSeq
<1>4. /\ t \in Seq(Nat) /\ Len(t) = k - 1
      /\ \A i \in 1 .. k - 1 : t[i] = buf2[at(successor(o), i - 1)]
  <2> HIDE DEF buf2
  <2> QED  BY <1>1, <1>2, FramesAreSeq
<1>5. ASSUME NEW i \in 1 .. k - 1
      PROVE  t[i] = s[i + 1]
  <2>1. /\ i - 1 \in 0 .. RX_BUF_COUNT /\ i - 1 < RX_BUF_COUNT /\ i \in 0 .. RX_BUF_COUNT - 1
        /\ i \in 0 .. RX_BUF_COUNT /\ i + 1 \in 1 .. k /\ i - 1 + 1 = i /\ i + 1 - 1 = i
    BY RadioAssumption
  <2>2. at(successor(o), i - 1) = at(o, i) /\ at(o, i) \in Buffer
    BY <2>1, RingIndex
  <2>3. at(o, i) # o
    BY <2>1, RadioAssumption DEF at, Buffer
  <2>4. t[i] = buf[at(o, i)]
    BY <1>4, <2>2, <2>3
  <2>5. s[i + 1] = buf[at(o, i)]
    BY <1>3, <2>1
  <2> QED  BY <2>4, <2>5
<1>6. s[1] = buf[o]
  <2>1. at(o, 1 - 1) = o
    BY RadioAssumption DEF at, Buffer
  <2> QED  BY <1>3, <2>1, RadioAssumption
<1> HIDE DEF s, t
<1>7. s # << >> /\ Head(s) = s[1]
  BY <1>3
<1>8. t = Tail(s)
  <2>1. Tail(s) \in Seq(Nat) /\ Len(Tail(s)) = k - 1 /\ \A i \in 1 .. k - 1 : Tail(s)[i] = s[i + 1]
    BY <1>3, <1>7, HeadTailProperties
  <2> QED  BY <1>4, <1>5, <2>1, SeqEqual
<1> QED  BY <1>6, <1>7, <1>8 DEF s, t

\* What an implementation step of the queue is.
QueueStep == [Frames!Arrive \/ Frames!Deliver \/ Frames!Discard]_(Frames!queueVars)

\* The mapped queue, with the number of frames that the invariant names.
LEMMA QueueOfRing ==
  ASSUME RadioTypeOK, NEW k \in 0 .. RX_BUF_COUNT, Ring(rx_buf, oldest, next_write, k)
  PROVE  /\ oldest \in Buffer
         /\ FramesOf(rx_buf, oldest, Cardinality(occupied)) = FramesOf(rx_buf, oldest, k)
<1>1. oldest \in Buffer /\ rx_buf \in [Buffer -> Nat]
  BY DEF RadioTypeOK, oldest
<1>2. Cardinality(occupied) = k
  BY <1>1, RingCount DEF occupied
<1> QED  BY <1>1, <1>2

\* Steps that leave the ring where it is change nothing for the queue.
LEMMA SameRing ==
  ASSUME RingInv, UNCHANGED <<rx_buf, next_write, arrived, delivered>>, oldest' = oldest,
         reader'.pc \in {"copy", "free"} => next_read' = successor(reader'.buf)
  PROVE  RingInv' /\ QueueStep
<1>1. RingInv'
  BY DEF RingInv, Ring
<1>2. UNCHANGED Frames!queueVars
  BY DEF Frames!queueVars, occupied
<1> QED  BY <1>1, <1>2 DEF QueueStep

\* The interrupt stores a frame exactly when the queue has room for it.
LEMMA RxInterruptArrives ==
  ASSUME RadioInv, RadioInv', RingInv, NEW good \in BOOLEAN, RxInterrupt(good)
  PROVE  RingInv' /\ QueueStep
<1>1. RadioTypeOK /\ RadioTypeOK' /\ rx_buf \in [Buffer -> Nat] /\ arrived \in Nat
  BY DEF RadioInv, RadioTypeOK
<1>2. PICK k \in 0 .. RX_BUF_COUNT : Ring(rx_buf, oldest, next_write, k)
  BY DEF RingInv
<1>3. UNCHANGED <<next_read, reader, delivered>> /\ oldest' = oldest
  BY DEF RxInterrupt, oldest
<1>4. /\ reader'.pc \in {"copy", "free"} => next_read' = successor(reader'.buf)
      /\ oldest \in Buffer
  BY <1>1, <1>2, <1>3, QueueOfRing DEF RingInv
<1>5. FramesOf(rx_buf, oldest, Cardinality(occupied)) = FramesOf(rx_buf, oldest, k)
  BY <1>1, <1>2, QueueOfRing
<1>6. Len(FramesOf(rx_buf, oldest, k)) = k
  BY <1>1, <1>4, FramesAreSeq
<1>7. CASE ~good
  <2>1. UNCHANGED <<rx_buf, next_write, arrived>>
    BY <1>7 DEF RxInterrupt, move_to_rx_buffer
  <2> QED  BY <1>3, <1>4, <2>1, SameRing
<1>8. CASE good /\ rx_buf[next_write] # 0
  <2>1. arrived' = arrived + 1 /\ UNCHANGED <<rx_buf, next_write>>
    BY <1>8 DEF RxInterrupt, move_to_rx_buffer, get_empty_rx_buf
  <2>2. k = RX_BUF_COUNT
    BY <1>2, <1>8, RadioAssumption DEF Ring
  <2>3. RingInv'
    BY <1>2, <1>3, <1>4, <2>1 DEF RingInv, Ring
  <2>4. Frames!Arrive
    <3>1. FramesOf(rx_buf, oldest, Cardinality(occupied))' = FramesOf(rx_buf, oldest, Cardinality(occupied))
      BY <1>3, <2>1 DEF occupied
    <3> QED  BY <1>3, <1>5, <1>6, <2>1, <2>2, <3>1 DEF Frames!Arrive, FramesOf
  <2> QED  BY <2>3, <2>4 DEF QueueStep
<1>9. CASE good /\ rx_buf[next_write] = 0
  <2>1. /\ arrived' = arrived + 1
        /\ rx_buf' = [rx_buf EXCEPT ![next_write] = arrived + 1]
        /\ next_write' = successor(next_write)
    BY <1>9 DEF RxInterrupt, move_to_rx_buffer, get_empty_rx_buf
  <2>2. k < RX_BUF_COUNT /\ next_write = at(oldest, k)
    <3>1. next_write = at(oldest, k)
      BY <1>2 DEF Ring
    <3>2. ASSUME k = RX_BUF_COUNT PROVE FALSE
      <4>1. next_write = at(oldest, 0) /\ 0 \in 0 .. RX_BUF_COUNT - 1 /\ 0 < k
        BY <1>4, <3>1, <3>2, RadioAssumption DEF at, Buffer
      <4> QED  BY <1>2, <1>9, <4>1 DEF Ring
    <3> QED  BY <3>1, <3>2, RadioAssumption
  <2>3. k + 1 \in 0 .. RX_BUF_COUNT /\ k \in 0 .. RX_BUF_COUNT - 1 /\ k \in Nat
    BY <2>2, RadioAssumption
  <2>4. Ring(rx_buf, oldest, next_write, k + 1)'
    <3>1. next_write' = at(oldest, k + 1)
      BY <1>4, <2>1, <2>2, RingIndex
    <3>2. ASSUME NEW i \in 0 .. RX_BUF_COUNT - 1
          PROVE  rx_buf'[at(oldest, i)] # 0 <=> i < k + 1
      <4>1. at(oldest, i) \in Buffer /\ (at(oldest, i) = next_write <=> i = k)
        <5>1. i \in 0 .. RX_BUF_COUNT
          BY RadioAssumption
        <5> QED  BY <1>4, <2>2, <2>3, <5>1, RingIndex, RingCoordinates
      <4>2. rx_buf'[at(oldest, i)] # 0 <=> i = k \/ rx_buf[at(oldest, i)] # 0
        BY <1>1, <2>1, <4>1
      <4>3. rx_buf[at(oldest, i)] # 0 <=> i < k
        BY <1>2 DEF Ring
      <4> QED  BY <2>3, <4>2, <4>3
    <3> QED  BY <1>3, <3>1, <3>2 DEF Ring
  <2>5. RingInv'
    BY <1>4, <2>3, <2>4 DEF RingInv
  <2>6. FramesOf(rx_buf, oldest, Cardinality(occupied))' = FramesOf(rx_buf', oldest, k + 1)
    <3>1. rx_buf' \in [Buffer -> Nat] /\ Ring(rx_buf', oldest, next_write', k + 1)
      BY <1>1, <1>3, <2>4 DEF RadioTypeOK
    <3>2. Cardinality(occupied)' = k + 1
      BY <1>4, <2>3, <3>1, RingCount DEF occupied
    <3> QED  BY <1>3, <3>2
  <2>7. FramesOf(rx_buf', oldest, k + 1) = Append(FramesOf(rx_buf, oldest, k), arrived + 1)
    <3>1. rx_buf' = [rx_buf EXCEPT ![at(oldest, k)] = arrived + 1] /\ arrived + 1 \in Nat
      BY <1>1, <2>1, <2>2
    <3> QED  BY <1>1, <1>4, <2>3, <3>1, StoreAppends
  <2>8. Frames!Arrive
    BY <1>3, <1>5, <1>6, <2>1, <2>2, <2>6, <2>7 DEF Frames!Arrive, FramesOf
  <2> QED  BY <2>5, <2>8 DEF QueueStep
<1> QED  BY <1>7, <1>8, <1>9

\* get_full_rx_buf takes the oldest frame and leaves it in the queue until it is
\* freed.
LEMMA GetFullRxBufStutters ==
  ASSUME RadioInv, RingInv, GetFullRxBuf
  PROVE  RingInv' /\ QueueStep
<1>1. UNCHANGED <<rx_buf, next_write, arrived, delivered>> /\ reader.pc = "check"
  BY DEF GetFullRxBuf
<1>2. reader \in Reader /\ next_read \in Buffer /\ oldest = next_read
  BY <1>1 DEF RadioInv, RadioTypeOK, Reader, oldest
<1>3. CASE has_packet
  <2>1. next_read' = successor(next_read)
    BY <1>3 DEF GetFullRxBuf
  <2>2. reader'.buf = next_read /\ reader'.pc \in {"copy", "free"}
    <3>1. CASE reader.fits
      <4>1. reader' = [reader EXCEPT !.pc = "copy", !.buf = next_read]
        BY <1>3, <3>1 DEF GetFullRxBuf
      <4> QED  BY <1>2, <4>1, ReaderTakes
    <3>2. CASE ~reader.fits
      <4>1. reader' = [reader EXCEPT !.pc = "free", !.buf = next_read]
        BY <1>3, <3>2 DEF GetFullRxBuf
      <4> QED  BY <1>2, <4>1, ReaderTakes
    <3> QED  BY <3>1, <3>2
  <2>3. oldest' = oldest
    BY <1>2, <2>2 DEF oldest
  <2> QED  BY <1>1, <2>1, <2>2, <2>3, SameRing
<1>4. CASE ~has_packet
  <2>1. next_read' = next_read /\ reader' = [reader EXCEPT !.pc = "yield"]
    BY <1>4 DEF GetFullRxBuf
  <2>2. reader'.pc = "yield"
    BY <1>2, <2>1, ReaderMoves
  <2>3. oldest' = oldest
    BY <1>2, <2>1, <2>2 DEF oldest
  <2> QED  BY <1>1, <2>2, <2>3, SameRing
<1> QED  BY <1>3, <1>4

\* radio_proc starts, and read() begins, copies and returns to its caller, without
\* a trace in the queue.
LEMMA ReaderStutters ==
  ASSUME RadioInv, RingInv,
         \/ ProcessStart
         \/ \E byTimer \in BOOLEAN : Resume(byTimer)
         \/ \E fits \in BOOLEAN : MacRead(fits)
         \/ CopyPacket \/ MacInput
  PROVE  RingInv' /\ QueueStep
<1>1. UNCHANGED <<rx_buf, next_read, next_write, arrived, delivered>>
  BY DEF ProcessStart, Resume, MacRead, CopyPacket, MacInput
<1>2. reader \in Reader /\ rx_buf[reader.buf] \in Nat /\ arrived \in Nat
  BY DEF RadioInv, RadioTypeOK, Reader
<1>3. CASE \E byTimer \in BOOLEAN : Resume(byTimer)
  <2>1. reader.pc = "yield" /\ reader' = [reader EXCEPT !.pc = "check", !.mac = FALSE, !.fits = TRUE]
    BY <1>3 DEF Resume
  <2>2. reader'.pc = "check"
    BY <1>2, <2>1, ReaderStarts
  <2> QED  BY <1>1, <2>1, <2>2, SameRing DEF oldest
<1>4. ASSUME NEW fits \in BOOLEAN, MacRead(fits)
      PROVE  RingInv' /\ QueueStep
  <2>1. reader.pc = "yield" /\ reader' = [reader EXCEPT !.pc = "check", !.mac = TRUE, !.fits = fits]
    BY <1>4 DEF MacRead
  <2>2. reader'.pc = "check"
    BY <1>2, <2>1, ReaderStarts
  <2> QED  BY <1>1, <2>1, <2>2, SameRing DEF oldest
<1>5. CASE CopyPacket
  <2>1. reader.pc = "copy" /\ reader' = [reader EXCEPT !.pc = "free", !.frame = rx_buf[reader.buf]]
    BY <1>5 DEF CopyPacket
  <2>2. reader'.pc = "free" /\ reader'.buf = reader.buf
    BY <1>2, <2>1, ReaderCopies
  <2> QED  BY <1>1, <2>1, <2>2, SameRing DEF oldest, RingInv
<1>6. CASE MacInput
  <2>1. reader.pc = "input" /\ reader' = [reader EXCEPT !.pc = "yield"]
    BY <1>6 DEF MacInput
  <2>2. reader'.pc = "yield"
    BY <1>2, <2>1, ReaderMoves
  <2> QED  BY <1>1, <2>1, <2>2, SameRing DEF oldest
<1>7. CASE ProcessStart
  <2>1. reader.pc = "start" /\ reader' = [reader EXCEPT !.pc = "yield", !.early = arrived]
    BY <1>7 DEF ProcessStart
  <2>2. reader'.pc = "yield"
    BY <1>2, <2>1, ReaderWaits
  <2> QED  BY <1>1, <2>1, <2>2, SameRing DEF oldest
<1> QED  BY <1>3, <1>4, <1>5, <1>6, <1>7

\* free_rx_buf hands on the oldest frame, or drops it when the caller's buffer
\* was too short.
LEMMA FreeRxBufDelivers ==
  ASSUME RadioInv, RadioInv', RingInv, FreeRxBuf
  PROVE  RingInv' /\ QueueStep
<1>1. /\ reader \in Reader /\ reader.buf \in Buffer /\ reader.pc = "free"
      /\ rx_buf \in [Buffer -> Nat] /\ oldest = reader.buf
  BY DEF FreeRxBuf, RadioInv, RadioTypeOK, Reader, oldest
<1>2. UNCHANGED <<next_read, next_write, arrived>> /\ rx_buf' = [rx_buf EXCEPT ![oldest] = 0]
  BY <1>1 DEF FreeRxBuf
<1>3. PICK k \in 0 .. RX_BUF_COUNT : Ring(rx_buf, oldest, next_write, k)
  BY DEF RingInv
<1>4. k \in 1 .. RX_BUF_COUNT
  <2>1. at(oldest, 0) = oldest /\ 0 \in 0 .. RX_BUF_COUNT - 1
    BY <1>1, RadioAssumption DEF at, Buffer
  <2>2. rx_buf[oldest] # 0
    BY <1>1 DEF RadioInv, NoTornRead
  <2>3. 0 < k
    BY <1>3, <2>1, <2>2 DEF Ring
  <2> QED  BY <2>3, RadioAssumption
<1>5. reader'.pc \in {"yield", "input"}
  <2>1. PICK pc \in {"yield", "input"} : reader' = [reader EXCEPT !.pc = pc, !.buf = 0, !.frame = 0]
    BY DEF FreeRxBuf
  <2> QED  BY <1>1, <2>1, ReaderFrees
<1>6. oldest' = successor(oldest) /\ oldest \in Buffer /\ successor(oldest) \in Buffer
  BY <1>1, <1>2, <1>5, SuccessorInRing DEF oldest, RingInv
<1>7. Ring(rx_buf', successor(oldest), next_write', k - 1)
  <2>1. next_write' = at(successor(oldest), k - 1)
    <3>1. k - 1 \in 0 .. RX_BUF_COUNT /\ k - 1 < RX_BUF_COUNT /\ k - 1 + 1 = k
      BY <1>4, RadioAssumption
    <3>2. at(successor(oldest), k - 1) = at(oldest, k)
      BY <1>6, <3>1, RingIndex
    <3> QED  BY <1>2, <1>3, <3>2 DEF Ring
  <2>2. ASSUME NEW i \in 0 .. RX_BUF_COUNT - 1
        PROVE  rx_buf'[at(successor(oldest), i)] # 0 <=> i < k - 1
    <3>1. i \in 0 .. RX_BUF_COUNT /\ i < RX_BUF_COUNT /\ i + 1 \in 0 .. RX_BUF_COUNT
      BY RadioAssumption
    <3>2. at(successor(oldest), i) = at(oldest, i + 1) /\ at(oldest, i + 1) \in Buffer
      BY <1>6, <3>1, RingIndex
    <3>3. CASE i = RX_BUF_COUNT - 1
      <4>1. at(oldest, i + 1) = oldest
        BY <1>6, <3>3, RadioAssumption DEF at, Buffer
      <4>2. rx_buf'[oldest] = 0
        BY <1>1, <1>2, <1>6
      <4>3. ~(i < k - 1)
        BY <1>4, <3>3, RadioAssumption
      <4> QED  BY <3>2, <4>1, <4>2, <4>3
    <3>4. CASE i # RX_BUF_COUNT - 1
      <4>1. at(oldest, i + 1) # oldest /\ i + 1 \in 0 .. RX_BUF_COUNT - 1
        BY <1>6, <3>4, RadioAssumption DEF at, Buffer
      <4>2. rx_buf'[at(oldest, i + 1)] = rx_buf[at(oldest, i + 1)]
        BY <1>1, <1>2, <3>2, <4>1
      <4>3. rx_buf[at(oldest, i + 1)] # 0 <=> i + 1 < k
        BY <1>3, <4>1 DEF Ring
      <4>4. i + 1 < k <=> i < k - 1
        BY <1>4
      <4> QED  BY <3>2, <4>2, <4>3, <4>4
    <3> QED  BY <3>3, <3>4
  <2> QED  BY <2>1, <2>2 DEF Ring
<1>8. k - 1 \in 0 .. RX_BUF_COUNT
  BY <1>4, RadioAssumption
<1>9. RingInv'
  BY <1>5, <1>6, <1>7, <1>8 DEF RingInv
<1>10. FramesOf(rx_buf, oldest, Cardinality(occupied)) = FramesOf(rx_buf, oldest, k)
  BY <1>3, QueueOfRing DEF RadioInv
<1>11. FramesOf(rx_buf, oldest, Cardinality(occupied))' = FramesOf(rx_buf', successor(oldest), k - 1)
  <2>1. rx_buf' \in [Buffer -> Nat]
    BY DEF RadioInv, RadioTypeOK
  <2>2. Cardinality(occupied)' = k - 1
    BY <1>6, <1>7, <1>8, <2>1, RingCount DEF occupied
  <2> QED  BY <1>6, <2>2
<1>12. /\ FramesOf(rx_buf, oldest, k) # << >>
       /\ Head(FramesOf(rx_buf, oldest, k)) = rx_buf[oldest]
       /\ FramesOf(rx_buf', successor(oldest), k - 1) = Tail(FramesOf(rx_buf, oldest, k))
  BY <1>1, <1>2, <1>4, <1>6, FreeRemovesHead
<1>13. CASE reader.fits
  <2>1. delivered' = rx_buf[oldest]
    BY <1>1, <1>13 DEF FreeRxBuf, RadioInv, NoTornRead
  <2>2. Frames!Deliver
    BY <1>2, <1>10, <1>11, <1>12, <2>1 DEF Frames!Deliver, FramesOf
  <2> QED  BY <1>9, <2>2 DEF QueueStep
<1>14. CASE ~reader.fits
  <2>1. delivered' = delivered
    BY <1>14 DEF FreeRxBuf
  <2>2. Frames!Discard
    BY <1>2, <1>10, <1>11, <1>12, <2>1 DEF Frames!Discard, FramesOf
  <2> QED  BY <1>9, <2>2 DEF QueueStep
<1> QED  BY <1>13, <1>14

\* transmit(), its interrupt and the switching of the receiver do not touch the
\* ring.
LEMMA TransmitStutters ==
  ASSUME RingInv, UNCHANGED rxVars
  PROVE  RingInv' /\ QueueStep
<1>1. UNCHANGED <<rx_buf, next_read, next_write, reader, arrived, delivered>>
  BY DEF rxVars
<1> QED  BY <1>1, SameRing DEF oldest, RingInv

\* After init() the ring is an empty queue.
LEMMA RingStarts == RadioInit => RingInv /\ Frames!QueueInit
<1> SUFFICES ASSUME RadioInit PROVE RingInv /\ Frames!QueueInit
  OBVIOUS
<1>1. /\ rx_buf = [b \in Buffer |-> 0] /\ oldest = 0 /\ next_write = 0 /\ 0 \in Buffer
      /\ reader.pc = "start" /\ arrived = 0 /\ delivered = 0
  BY ZeroInRing DEF RadioInit, oldest
<1>2. Ring(rx_buf, oldest, next_write, 0)
  <2>1. \A i \in 0 .. RX_BUF_COUNT - 1 : at(0, i) \in Buffer
    BY RadioAssumption DEF at, Buffer
  <2>2. at(0, 0) = 0
    BY RadioAssumption DEF at
  <2> QED  BY <1>1, <2>1, <2>2 DEF Ring
<1>3. 0 \in 0 .. RX_BUF_COUNT
  BY RadioAssumption
<1>4. RingInv
  BY <1>1, <1>2, <1>3 DEF RingInv
<1>5. FramesOf(rx_buf, oldest, Cardinality(occupied)) = << >>
  <2>1. rx_buf \in [Buffer -> Nat]
    BY <1>1
  <2>2. Cardinality(occupied) = 0
    BY <1>1, <1>2, <1>3, <2>1, RingCount DEF occupied
  <2>3. FramesOf(rx_buf, oldest, 0) \in Seq(Nat) /\ Len(FramesOf(rx_buf, oldest, 0)) = 0
    BY <1>1, <1>3, <2>1, FramesAreSeq
  <2> QED  BY <2>2, <2>3
<1> QED  BY <1>1, <1>4, <1>5 DEF Frames!QueueInit, FramesOf

\* Every step of the driver is a step of the queue or leaves it alone.
LEMMA RingSimulates ==
  RadioInv /\ RadioInv' /\ RingInv /\ [RadioNext]_radioVars => RingInv' /\ QueueStep
<1> SUFFICES ASSUME RadioInv, RadioInv', RingInv, [RadioNext]_radioVars
             PROVE  RingInv' /\ QueueStep
  OBVIOUS
<1>1. CASE Interrupt
  <2>1. TxInterrupt => UNCHANGED rxVars
    BY DEF TxInterrupt
  <2> QED  BY <1>1, <2>1, RxInterruptArrives, TransmitStutters DEF Interrupt
<1>2. CASE Receive
  BY <1>2, ReaderStutters, GetFullRxBufStutters, FreeRxBufDelivers DEF Receive, ReadStep
<1>3. CASE \/ RailAcked \/ On \/ Off
           \/ (\E ack \in BOOLEAN : Prepare(ack)) \/ TransmitCleanup \/ TransmitStep
           \/ UNCHANGED radioVars
  <2>1. UNCHANGED rxVars
    BY <1>3 DEF RailAcked, On, Off, Prepare, TransmitCleanup, TransmitStep, TransmitCheck,
                TransmitSending, TransmitStart, TransmitStartError, TransmitTimeout, TransmitDone,
                TransmitResult, TransmitClear, radioVars
  <2> QED  BY <2>1, TransmitStutters
<1> QED  BY <1>1, <1>2, <1>3 DEF RadioNext

\* The receive side of the driver implements FrameQueue: with any number of
\* buffers, whatever the interrupt interrupts, frames are handed on once and in
\* the order of arrival, and one is lost only when all buffers are in use.
THEOREM ReceiveRingIsQueue == RadioSpec => ImplementsFrameQueue
<1>1. RadioInit => Frames!QueueInit /\ RingInv
  BY RingStarts
<1>2. RadioInv /\ RadioInv' /\ RingInv /\ [RadioNext]_radioVars
        => RingInv' /\ [Frames!Arrive \/ Frames!Deliver \/ Frames!Discard]_(Frames!queueVars)
  BY RingSimulates DEF QueueStep
<1> QED  BY <1>1, <1>2, RadioInvariant, PTL DEF RadioSpec, ImplementsFrameQueue, Frames!QueueSpec
=============================================================================
