----------------------------- MODULE NodeProofs -----------------------------
(***************************************************************************)
(* What every operation of SessionManager does to a session, field by      *)
(* field, and what the operators of Fragmentation return, as far as the    *)
(* handshake's invariants look at it; then the packets and the network of  *)
(* Handshake, and the invariants of a node: every action of a node         *)
(* preserves them, whatever packet it gets.                                *)
(***************************************************************************)
EXTENDS Handshake, TxQueueProofs, SequenceTheorems, FiniteSetTheorems, TLAPS

-----------------------------------------------------------------------------
(* Sessions.                                                               *)

\* The zeroed fields of a session have values of their types.
LEMMA Zeros == 0 \in MsgId /\ 0 \in 0 .. SESSION_MAX_RETRIES /\ NoSecret \in Secret
BY RetriesAssumption, MsgIdAssumption DEF MsgId, NoSecret, Secret

\* session_init and session_reset: an idle session with nothing pending and no
\* secret.
LEMMA InitSession ==
  /\ session_init \in Session /\ UnusedSession \in Session /\ session_reset = session_init
  /\ session_init.state = "IDLE" /\ UnusedSession.state = "UNUSED"
  /\ \A s \in {session_init, UnusedSession} :
       /\ s.established = FALSE /\ s.pending_msg_type = "NONE"
       /\ s.waiting_response = FALSE /\ s.ss = NoSecret
<1>1. UnusedSession \in Session
  BY Zeros DEF UnusedSession, Session, States, Pending, Deadlines
<1>2. session_init = [UnusedSession EXCEPT !.state = "IDLE"] /\ session_reset = session_init
  BY DEF session_init, session_reset
<1>3. session_init \in Session
  BY <1>1, <1>2 DEF Session, States
<1>4. /\ UnusedSession.state = "UNUSED" /\ UnusedSession.established = FALSE
      /\ UnusedSession.pending_msg_type = "NONE" /\ UnusedSession.waiting_response = FALSE
      /\ UnusedSession.ss = NoSecret
  BY DEF UnusedSession
<1>5. /\ session_init.state = "IDLE" /\ session_init.established = FALSE
      /\ session_init.pending_msg_type = "NONE" /\ session_init.waiting_response = FALSE
      /\ session_init.ss = NoSecret
  BY <1>1, <1>2, <1>4 DEF Session
<1> QED  BY <1>1, <1>2, <1>3, <1>4, <1>5

\* session_set_pending, the node waits for the PK: that message is pending and the timer
\* armed; state and secret stay.
LEMMA PendingGetpk ==
  ASSUME NEW s \in Session, NEW id \in MsgId
  PROVE  LET r == session_set_pending(s, "GETPK", id) IN
         /\ r \in Session /\ r.state = s.state /\ r.established = s.established /\ r.ss = s.ss
         /\ r.pending_msg_type = "GETPK" /\ r.pending_msg_id = id /\ r.waiting_response = TRUE
<1>1. "GETPK" \in Pending
  BY DEF Pending
<1> QED  BY <1>1, Zenon DEF session_set_pending, Session, Deadlines

\* session_set_pending, the root waits for the CT: that message is pending and the timer
\* armed; state and secret stay.
LEMMA PendingPk ==
  ASSUME NEW s \in Session, NEW id \in MsgId
  PROVE  LET r == session_set_pending(s, "PK", id) IN
         /\ r \in Session /\ r.state = s.state /\ r.established = s.established /\ r.ss = s.ss
         /\ r.pending_msg_type = "PK" /\ r.pending_msg_id = id /\ r.waiting_response = TRUE
<1>1. "PK" \in Pending
  BY DEF Pending
<1> QED  BY <1>1, Zenon DEF session_set_pending, Session, Deadlines

\* session_set_pending, a CT is under way: that message is pending and the timer
\* armed; state and secret stay.
LEMMA PendingCt ==
  ASSUME NEW s \in Session, NEW id \in MsgId
  PROVE  LET r == session_set_pending(s, "CT", id) IN
         /\ r \in Session /\ r.state = s.state /\ r.established = s.established /\ r.ss = s.ss
         /\ r.pending_msg_type = "CT" /\ r.pending_msg_id = id /\ r.waiting_response = TRUE
<1>1. "CT" \in Pending
  BY DEF Pending
<1> QED  BY <1>1, Zenon DEF session_set_pending, Session, Deadlines

\* session_clear_pending: nothing is pending and the timer is off.
LEMMA ClearPending ==
  ASSUME NEW s \in Session
  PROVE  LET r == session_clear_pending(s) IN
         /\ r \in Session /\ r.state = s.state /\ r.established = s.established /\ r.ss = s.ss
         /\ r.pending_msg_type = "NONE" /\ r.waiting_response = FALSE
         /\ r.next_msg_id = s.next_msg_id
BY Zeros, Zenon DEF session_clear_pending, Session, Pending

\* A retry that session_can_retry allows keeps retry_count within its bound and
\* what is pending as it was.
LEMMA MarkRetry ==
  ASSUME NEW s \in Session, session_can_retry(s)
  PROVE  LET r == hs_mark_retry(s) IN
         /\ r \in Session /\ r.state = s.state /\ r.established = s.established /\ r.ss = s.ss
         /\ r.pending_msg_type = s.pending_msg_type /\ r.pending_msg_id = s.pending_msg_id
         /\ r.waiting_response = s.waiting_response
<1>1. s.retry_count + 1 \in 0 .. SESSION_MAX_RETRIES
  BY RetriesAssumption DEF session_can_retry, Session
<1> QED  BY <1>1, Zenon DEF hs_mark_retry, Session, Deadlines

\* Setting the retry deadline changes nothing else.
LEMMA RetryIn ==
  ASSUME NEW s \in Session, NEW d \in Deadlines
  PROVE  LET r == retry_in(s, d) IN
         /\ r \in Session /\ r.state = s.state /\ r.established = s.established /\ r.ss = s.ss
         /\ r.pending_msg_type = s.pending_msg_type /\ r.pending_msg_id = s.pending_msg_id
         /\ r.waiting_response = s.waiting_response
BY Zenon DEF retry_in, Session

\* session_set_state changes the state only.
LEMMA SetState ==
  ASSUME NEW s \in Session, NEW state \in States
  PROVE  LET r == session_set_state(s, state) IN
         /\ r \in Session /\ r.state = state /\ r.established = s.established /\ r.ss = s.ss
         /\ r.pending_msg_type = s.pending_msg_type /\ r.pending_msg_id = s.pending_msg_id
         /\ r.waiting_response = s.waiting_response /\ r.next_msg_id = s.next_msg_id
BY Zenon DEF session_set_state, Session

\* Drawing message ids wraps around within MsgId and changes nothing else.
LEMMA NextMsgIds ==
  ASSUME NEW s \in Session, NEW k \in Nat
  PROVE  LET r == session_next_msg_ids(s, k) IN
         /\ r \in Session /\ r.state = s.state /\ r.established = s.established /\ r.ss = s.ss
         /\ r.pending_msg_type = s.pending_msg_type /\ r.pending_msg_id = s.pending_msg_id
         /\ r.waiting_response = s.waiting_response
<1>1. (s.next_msg_id + k) % MsgIdMod \in MsgId
  BY MsgIdAssumption DEF Session, MsgId
<1> QED  BY <1>1, Zenon DEF session_next_msg_ids, Session

\* The same for one message id.
LEMMA NextMsgId ==
  ASSUME NEW s \in Session
  PROVE  LET r == session_next_msg_id(s) IN
         /\ r \in Session /\ r.state = s.state /\ r.established = s.established /\ r.ss = s.ss
         /\ r.pending_msg_type = s.pending_msg_type /\ r.pending_msg_id = s.pending_msg_id
         /\ r.waiting_response = s.waiting_response
BY NextMsgIds DEF session_next_msg_id

\* session_set_established keeps the secret and clears what was pending.
LEMMA SetEstablished ==
  ASSUME NEW s \in Session
  PROVE  LET r == session_set_established(s) IN
         /\ r \in Session /\ r.state = "ESTABLISHED" /\ r.established = TRUE /\ r.ss = s.ss
         /\ r.pending_msg_type = "NONE" /\ r.waiting_response = FALSE
<1> DEFINE t == [s EXCEPT !.state = "ESTABLISHED", !.established = TRUE]
<1>1. t \in Session /\ t.state = "ESTABLISHED" /\ t.established = TRUE /\ t.ss = s.ss
  BY Zenon DEF Session, States
<1>2. session_set_established(s) = session_clear_pending(t)
  BY DEF session_set_established
<1> HIDE DEF t
<1> QED  BY <1>1, <1>2, ClearPending

\* session_set_failed clears what was pending.
LEMMA SetFailed ==
  ASSUME NEW s \in Session
  PROVE  LET r == session_set_failed(s) IN
         /\ r \in Session /\ r.state = "FAILED" /\ r.established = FALSE /\ r.ss = s.ss
         /\ r.pending_msg_type = "NONE" /\ r.waiting_response = FALSE
<1> DEFINE t == [s EXCEPT !.state = "FAILED", !.established = FALSE]
<1>1. t \in Session /\ t.state = "FAILED" /\ t.established = FALSE /\ t.ss = s.ss
  BY Zenon DEF Session, States
<1>2. session_set_failed(s) = session_clear_pending(t)
  BY DEF session_set_failed
<1> HIDE DEF t
<1> QED  BY <1>1, <1>2, ClearPending

\* Storing a secret changes nothing else.
LEMMA SetSecret ==
  ASSUME NEW s \in Session, NEW ss \in Secret
  PROVE  LET r == [s EXCEPT !.ss = ss] IN
         /\ r \in Session /\ r.state = s.state /\ r.established = s.established /\ r.ss = ss
         /\ r.pending_msg_type = s.pending_msg_type /\ r.pending_msg_id = s.pending_msg_id
         /\ r.waiting_response = s.waiting_response /\ r.next_msg_id = s.next_msg_id
BY Zenon DEF Session

-----------------------------------------------------------------------------
(* Fragments.                                                              *)

\* The number of fragments of each type (fragment_tx_count).
LEMMA TotalFrags ==
  total_frags("PK") = PkFrags /\ total_frags("CT") = CtFrags /\ total_frags("NONE") = 1
BY Zenon DEF total_frags

\* Sets of fragment indices are finite: a NACK can be counted and answered.
LEMMA FragsFinite ==
  ASSUME NEW fs \in SUBSET Frags
  PROVE  IsFiniteSet(fs) /\ Cardinality(fs) \in Nat
<1>1. IsFiniteSet(Frags)
  BY FragsAssumption, FS_Interval DEF Frags
<1> QED  BY <1>1, FS_Subset, FS_CardinalityType

\* The indices of a message of any type are among Frags.
LEMMA FragIdxInFrags ==
  ASSUME NEW type \in {"PK", "CT", "NONE"}
  PROVE  FragIdx(type) \subseteq Frags
<1>1. total_frags(type) \in Nat /\ total_frags(type) - 1 <= PkFrags + CtFrags
  BY TotalFrags, FragsAssumption
<1> QED  BY <1>1, FragsAssumption DEF FragIdx, Frags

\* The k-th fragment of a retransmission is an index.
LEMMA NthIsNat ==
  ASSUME NEW fs \in SUBSET Frags, NEW k \in Nat
  PROVE  nth(fs, k) \in Nat
<1>1. {x \in Frags : Cardinality({f \in fs : f <= x}) < k} \in SUBSET Frags
  OBVIOUS
<1> QED  BY <1>1, FragsFinite DEF nth

\* A NACK asks only for fragments the message has (pqc_nack_build_from_rx).
LEMMA MissingInMessage ==
  ASSUME NEW rx, rx.msg_type \in {"PK", "CT", "NONE"}
  PROVE  missing(rx) \in SUBSET Frags
<1>1. missing(rx) \subseteq FragIdx(rx.msg_type)
  BY DEF missing
<1> QED  BY <1>1, FragIdxInFrags

\* A released slot is well-formed.
LEMMA FreeSlotType ==
  ASSUME NEW owners, NEW nobody \in owners, NEW ids, 0 \in ids, NEW type, NEW payload
  PROVE  FreeSlot(nobody) \in RxSlot(owners, ids, type, payload)
BY DEF FreeSlot, RxSlot, RxContext, fragment_rx_init

\* fragment_rx_add keeps what it stores inside the message.
LEMMA RxAddType ==
  ASSUME NEW ids, NEW type \in {"PK", "CT"}, NEW payload,
         NEW rx \in RxContext(ids, type, payload),
         NEW id \in ids, NEW frag \in Nat, NEW c \in payload
  PROVE  fragment_rx_add(rx, type, id, frag, c) \in RxContext(ids, type, payload)
<1> DEFINE r == fragment_rx_add(rx, type, id, frag, c)
<1>1. CASE ~fragment_rx_accepts(rx, type, id, frag)
  BY <1>1 DEF fragment_rx_add
<1>2. CASE fragment_rx_accepts(rx, type, id, frag)
  <2>1. frag \in FragIdx(type)
    <3>1. total_frags(type) \in Nat
      BY TotalFrags, FragsAssumption
    <3> QED  BY <1>2, <3>1 DEF fragment_rx_accepts, FragIdx
  <2> DEFINE more == IF frag \in bitmap(rx) THEN 0 ELSE 1
             add  == IF frag \in bitmap(rx) THEN {} ELSE {<<frag, c>>}
  <2>2. rx.received_frags + more \in Nat
    BY DEF RxContext
  <2>3. rx.buffer \cup add \in SUBSET (FragIdx(type) \X payload)
    BY <2>1 DEF RxContext
  <2>4. r = [active |-> TRUE, msg_type |-> type, msg_id |-> id,
             received_frags |-> rx.received_frags + more, buffer |-> rx.buffer \cup add]
    BY <1>2 DEF fragment_rx_add
  <2> HIDE DEF r, more, add
  <2>5. r \in RxContext(ids, type, payload)
    BY <2>2, <2>3, <2>4 DEF RxContext
  <2> QED  BY <2>5 DEF r
<1> QED  BY <1>1, <1>2

\* Noting a NACK changes two counters of the slot and nothing else.
LEMMA NoteNackType ==
  ASSUME NEW owners, NEW ids, NEW type \in {"PK", "CT"}, NEW payload,
         NEW slot \in RxSlot(owners, ids, type, payload)
  PROVE  rx_slot_note_nack(slot) \in RxSlot(owners, ids, type, payload)
<1> DEFINE k == Cardinality(missing(slot.ctx))
<1>1. slot.ctx \in RxContext(ids, type, payload)
  BY DEF RxSlot
<1>2. slot.ctx.msg_type \in {"NONE", type} /\ slot.ctx.received_frags \in Nat
  BY <1>1 DEF RxContext
<1>3. k \in Nat
  BY <1>2, MissingInMessage, FragsFinite
<1> HIDE DEF k
<1>4. rx_slot_note_nack(slot)
        = [slot EXCEPT !.last_nack_received_frags = slot.ctx.received_frags,
                       !.last_nack_missing_count = k]
  BY DEF rx_slot_note_nack, k
<1> QED  BY <1>2, <1>3, <1>4, Zenon DEF RxSlot

\* The fragments that are repeated after a NACK lie inside the message: nth counts
\* only indices below the last one asked for.
LEMMA NthInMessage ==
  ASSUME NEW type \in {"PK", "CT"}, NEW fs \in SUBSET FragIdx(type),
         NEW k \in 1 .. Cardinality(fs)
  PROVE  nth(fs, k) \in FragIdx(type)
<1> DEFINE T == total_frags(type)
           S == {x \in Frags : Cardinality({f \in fs : f <= x}) < k}
<1>1. T \in Nat /\ T > 0 /\ FragIdx(type) = 0 .. T - 1
  BY TotalFrags, FragsAssumption DEF FragIdx
<1>2. Cardinality(fs) \in Nat /\ k \in Nat
  <2>1. fs \in SUBSET Frags
    BY FragIdxInFrags
  <2>2. Cardinality(fs) \in Nat
    BY <2>1, FragsFinite
  <2> QED  BY <2>2
<1> HIDE DEF T
<1>3. ASSUME NEW x \in S PROVE x \in 0 .. T - 2
  <2>1. x \in Nat /\ Cardinality({f \in fs : f <= x}) < k
    BY FragsAssumption DEF Frags
  <2>2. CASE x >= T - 1
    <3>1. {f \in fs : f <= x} = fs
      BY <1>1, <2>1, <2>2
    <3> QED  BY <1>2, <2>1, <3>1
  <2> QED  BY <1>1, <2>1, <2>2
<1>4. S \in SUBSET (0 .. T - 2)
  BY <1>3
<1>5. 0 \in Int /\ T - 2 \in Int
  BY <1>1
<1>6. IsFiniteSet(0 .. T - 2) /\ Cardinality(0 .. T - 2) = IF 0 > T - 2 THEN 0 ELSE (T - 2) - 0 + 1
  BY <1>5, FS_Interval
<1>7. Cardinality(0 .. T - 2) = T - 1
  BY <1>1, <1>6
<1>8. nth(fs, k) = Cardinality(S)
  BY DEF nth
<1> HIDE DEF S
<1>9. Cardinality(S) \in Nat /\ Cardinality(S) <= T - 1
  BY <1>4, <1>6, <1>7, FS_Subset, FS_CardinalityType
<1> QED  BY <1>1, <1>8, <1>9

\* The fragments of a message that have come are counted, one by one: a context
\* that took a fragment counts exactly what it holds, and never more than the
\* message has.
LEMMA RxAddCounts ==
  ASSUME NEW type \in {"PK", "CT"}, NEW rx, NEW id, NEW frag \in Nat, NEW c,
         bitmap(rx) \subseteq FragIdx(type), rx.received_frags = Cardinality(bitmap(rx)),
         fragment_rx_accepts(rx, type, id, frag)
  PROVE  LET r == fragment_rx_add(rx, type, id, frag, c) IN
         /\ r.active = TRUE /\ r.msg_type = type /\ r.msg_id = id
         /\ r.received_frags = Cardinality(bitmap(r))
         /\ r.received_frags \in Nat /\ r.received_frags <= total_frags(type)
         /\ contents(r) \subseteq contents(rx) \cup {c}
<1> DEFINE B    == bitmap(rx)
           more == IF frag \in B THEN 0 ELSE 1
           add  == IF frag \in B THEN {} ELSE {<<frag, c>>}
           r    == fragment_rx_add(rx, type, id, frag, c)
<1>1. r = [active |-> TRUE, msg_type |-> type, msg_id |-> id,
           received_frags |-> rx.received_frags + more, buffer |-> rx.buffer \cup add]
  BY DEF fragment_rx_add
<1>2. B \in SUBSET FragIdx(type)
  OBVIOUS
<1>3. total_frags(type) \in Nat \ {0}
  BY TotalFrags, FragsAssumption
<1>4. frag \in FragIdx(type)
  BY <1>3 DEF fragment_rx_accepts, FragIdx
<1>5. IsFiniteSet(FragIdx(type)) /\ Cardinality(FragIdx(type)) = total_frags(type)
  <2>1. 0 \in Int /\ total_frags(type) - 1 \in Int
    BY <1>3
  <2>2. /\ IsFiniteSet(0 .. total_frags(type) - 1)
        /\ Cardinality(0 .. total_frags(type) - 1)
             = IF 0 > total_frags(type) - 1 THEN 0 ELSE (total_frags(type) - 1) - 0 + 1
    BY <2>1, FS_Interval
  <2> QED  BY <1>3, <2>2 DEF FragIdx
<1> HIDE DEF r, B
<1>6. bitmap(r) = B \cup {frag}
  <2>1. r.buffer = rx.buffer \cup add
    BY <1>1
  <2>2. CASE frag \in B
    BY <2>1, <2>2 DEF bitmap, B
  <2>3. CASE frag \notin B
    <3>1. r.buffer = rx.buffer \cup {<<frag, c>>}
      BY <2>1, <2>3
    <3>2. <<frag, c>>[1] = frag
      OBVIOUS
    <3>3. \A b \in r.buffer : b \in rx.buffer \/ b = <<frag, c>>
      BY <3>1
    <3>4. bitmap(r) \subseteq B \cup {frag}
      BY <3>2, <3>3 DEF bitmap, B
    <3>5. B \subseteq bitmap(r)
      BY <3>1 DEF bitmap, B
    <3>6. frag \in bitmap(r)
      <4>1. <<frag, c>> \in r.buffer
        BY <3>1
      <4> QED  BY <3>2, <4>1, Zenon DEF bitmap
    <3> QED  BY <3>4, <3>5, <3>6
  <2> QED  BY <2>2, <2>3
<1>7. contents(r) \subseteq contents(rx) \cup {c}
  <2>1. r.buffer \subseteq rx.buffer \cup {<<frag, c>>}
    BY <1>1
  <2> QED  BY <2>1 DEF contents
<1>8. IsFiniteSet(B) /\ Cardinality(B) \in Nat
  BY <1>2, <1>5, FS_Subset, FS_CardinalityType
<1>9. Cardinality(B \cup {frag}) = IF frag \in B THEN Cardinality(B) ELSE Cardinality(B) + 1
  BY <1>8, FS_AddElement
<1>10. Cardinality(B \cup {frag}) <= total_frags(type)
  <2>1. B \cup {frag} \in SUBSET FragIdx(type)
    BY <1>2, <1>4
  <2> QED  BY <1>5, <2>1, FS_Subset
<1>11. r.received_frags = Cardinality(B) + more
  BY <1>1 DEF B
<1>12. r.active = TRUE /\ r.msg_type = type /\ r.msg_id = id
  BY <1>1
<1>13. r.received_frags = Cardinality(bitmap(r))
  BY <1>6, <1>8, <1>9, <1>11
<1>14. r.received_frags \in Nat /\ r.received_frags <= total_frags(type)
  BY <1>6, <1>8, <1>9, <1>10, <1>13
<1> QED  BY <1>7, <1>12, <1>13, <1>14 DEF r

-----------------------------------------------------------------------------
(* Packets and the network.                                                *)

\* Every packet names its node and none looks like an empty queue entry.
LEMMA PacketFields ==
  (\A p \in Packet : p.node \in Node) /\ NoPacket \notin Packet
BY DEF Packet, NoPacket

\* The packets the handlers build.
LEMMA PacketTypes ==
  ASSUME NEW n \in Node
  PROVE  /\ GETPK(n) \in Packet
         /\ \A id \in MsgId : ACK(n, id) \in Packet
         /\ \A type \in {"PK", "CT"}, id \in MsgId, fs \in SUBSET Frags :
              NACK(n, type, id, fs) \in Packet
         /\ \A g \in Nat : METRICS(n, g) \in Packet
         /\ \A id \in MsgId, f \in Nat : PK(n, id, f) \in Packet
         /\ \A id \in MsgId, f \in Nat, ct \in Secret : CT(n, id, f, ct) \in Packet
BY DEF Packet, GETPK, ACK, NACK, METRICS, PK, CT

\* The fragments of the public key.
LEMMA PkFragments ==
  ASSUME NEW n \in Node, NEW id \in MsgId, NEW fs \in SUBSET Frags
  PROVE  /\ pk_fragments(n, id, fs) \in Seq(Packet)
         /\ Len(pk_fragments(n, id, fs)) = Cardinality(fs)
         /\ \A k \in 1 .. Len(pk_fragments(n, id, fs)) :
              LET p == pk_fragments(n, id, fs)[k] IN
              p.kind = "PK" /\ p.node = n /\ p.msg_id = id
<1> DEFINE c == Cardinality(fs)
<1>1. c \in Nat
  BY FragsFinite
<1>2. ASSUME NEW k \in 1 .. c
      PROVE  PK(n, id, nth(fs, k)) \in Packet
  <2>1. nth(fs, k) \in Nat
    BY <1>1, NthIsNat
  <2> QED  BY <2>1, PacketTypes
<1>3. pk_fragments(n, id, fs) = [k \in 1 .. c |-> PK(n, id, nth(fs, k))]
  BY DEF pk_fragments
<1> HIDE DEF c
<1>4. pk_fragments(n, id, fs) \in Seq(Packet) /\ Len(pk_fragments(n, id, fs)) = c
  BY <1>1, <1>2, <1>3
<1>5. ASSUME NEW k \in 1 .. c
      PROVE  LET p == pk_fragments(n, id, fs)[k] IN
             p.kind = "PK" /\ p.node = n /\ p.msg_id = id
  BY <1>3 DEF PK
<1> QED  BY <1>4, <1>5 DEF c

\* The fragments of a ciphertext.
LEMMA CtFragments ==
  ASSUME NEW n \in Node, NEW id \in MsgId, NEW fs \in SUBSET Frags, NEW ct \in Secret
  PROVE  /\ ct_fragments(n, id, fs, ct) \in Seq(Packet)
         /\ Len(ct_fragments(n, id, fs, ct)) = Cardinality(fs)
         /\ \A k \in 1 .. Len(ct_fragments(n, id, fs, ct)) :
              LET p == ct_fragments(n, id, fs, ct)[k] IN
              p.kind = "CT" /\ p.ct = ct
<1> DEFINE c == Cardinality(fs)
<1>1. c \in Nat
  BY FragsFinite
<1>2. ASSUME NEW k \in 1 .. c
      PROVE  CT(n, id, nth(fs, k), ct) \in Packet
  <2>1. nth(fs, k) \in Nat
    BY <1>1, NthIsNat
  <2> QED  BY <2>1, PacketTypes
<1>3. ct_fragments(n, id, fs, ct) = [k \in 1 .. c |-> CT(n, id, nth(fs, k), ct)]
  BY DEF ct_fragments
<1> HIDE DEF c
<1>4. ct_fragments(n, id, fs, ct) \in Seq(Packet) /\ Len(ct_fragments(n, id, fs, ct)) = c
  BY <1>1, <1>2, <1>3
<1>5. ASSUME NEW k \in 1 .. c
      PROVE  LET p == ct_fragments(n, id, fs, ct)[k] IN p.kind = "CT" /\ p.ct = ct
  BY <1>3 DEF CT
<1> QED  BY <1>4, <1>5 DEF c

\* A whole message has as many fragments as fragment_tx_count says.
LEMMA WholeMessage ==
  /\ FragIdx("PK") \in SUBSET Frags /\ Cardinality(FragIdx("PK")) = PkFrags
  /\ FragIdx("CT") \in SUBSET Frags /\ Cardinality(FragIdx("CT")) = CtFrags
BY FragIdxInFrags, TotalFrags, FragsAssumption, IntervalSize DEF FragIdx

\* The metrics reports that fit (send_node_metrics).
LEMMA Reports ==
  ASSUME NEW n \in Node, NEW q, pqc_tx_free_slots(q) \in Nat
  PROVE  /\ reports(n, q) \in Seq(Packet) /\ Len(reports(n, q)) \in Nat
         /\ Len(reports(n, q)) <= pqc_tx_free_slots(q)
         /\ \A k \in 1 .. Len(reports(n, q)) : reports(n, q)[k].kind = "METRICS"
<1> DEFINE room == pqc_tx_free_slots(q)
           c    == IF room < MetricsGroups THEN room ELSE MetricsGroups
<1>1. c \in Nat /\ c <= room
  BY SizeAssumption
<1>2. reports(n, q) = [g \in 1 .. c |-> METRICS(n, g)]
  BY DEF reports
<1>3. \A g \in 1 .. c : METRICS(n, g) \in Packet /\ METRICS(n, g).kind = "METRICS"
  BY <1>1, PacketTypes DEF METRICS
<1> HIDE DEF c, room
<1> QED  BY <1>1, <1>2, <1>3 DEF room

\* Taking a packet out of a channel leaves a channel.
LEMMA RemoveAtType ==
  ASSUME NEW S, NEW s \in Seq(S), NEW i \in 1 .. Len(s)
  PROVE  RemoveAt(s, i) \in Seq(S)
<1>1. SubSeq(s, 1, i - 1) \in Seq(S)
  BY SubSeqProperties
<1>2. SubSeq(s, i + 1, Len(s)) \in Seq(S)
  BY SubSeqProperties
<1> QED  BY <1>1, <1>2, ConcatProperties DEF RemoveAt

\* Faults are counted down, never below zero.
LEMMA SpendFault ==
  ASSUME faults \in Faults
  PROVE  /\ faults.loss > 0  => [faults EXCEPT !.loss = @ - 1] \in Faults
         /\ faults.dup > 0   => [faults EXCEPT !.dup = @ - 1] \in Faults
         /\ faults.early > 0 => [faults EXCEPT !.early = @ - 1] \in Faults
         /\ faults.node > 0  => [faults EXCEPT !.node = @ - 1] \in Faults
         /\ faults.root > 0  => [faults EXCEPT !.root = @ - 1] \in Faults
<1>1. /\ faults.loss \in Nat /\ faults.dup \in Nat /\ faults.early \in Nat
      /\ faults.node \in Nat /\ faults.root \in Nat
  BY DEF Faults
<1>2. \A k \in Nat : k > 0 => k - 1 \in Nat
  OBVIOUS
<1> QED  BY <1>1, <1>2, Zenon DEF Faults

\* A packet is handed to the radio.
LEMMA SendUp ==
  ASSUME NetTypeOK, NEW p \in Packet, udp_send(up, p), UNCHANGED down
  PROVE  NetTypeOK'
<1>1. CASE up' = [up EXCEPT ![p.node] = Append(@, p)] /\ UNCHANGED faults
  <2>1. p.node \in Node
    BY PacketFields
  <2>2. Append(up[p.node], p) \in Seq(Packet)
    BY <2>1, AppendProperties DEF NetTypeOK
  <2> QED  BY <1>1, <2>1, <2>2 DEF NetTypeOK
<1>2. CASE faults.loss > 0 /\ faults' = [faults EXCEPT !.loss = @ - 1] /\ UNCHANGED up
  BY <1>2, SpendFault DEF NetTypeOK
<1> QED  BY <1>1, <1>2 DEF udp_send

\* A packet is handed to the radio.
LEMMA SendDown ==
  ASSUME NetTypeOK, NEW p \in Packet, udp_send(down, p), UNCHANGED up
  PROVE  NetTypeOK'
<1>1. CASE down' = [down EXCEPT ![p.node] = Append(@, p)] /\ UNCHANGED faults
  <2>1. p.node \in Node
    BY PacketFields
  <2>2. Append(down[p.node], p) \in Seq(Packet)
    BY <2>1, AppendProperties DEF NetTypeOK
  <2> QED  BY <1>1, <2>1, <2>2 DEF NetTypeOK
<1>2. CASE faults.loss > 0 /\ faults' = [faults EXCEPT !.loss = @ - 1] /\ UNCHANGED down
  BY <1>2, SpendFault DEF NetTypeOK
<1> QED  BY <1>1, <1>2 DEF udp_send

\* A packet is handed to udp_rx_callback.
LEMMA DeliverUp ==
  ASSUME NetTypeOK, NEW n \in Node, NEW i, udp_deliver(up, n, i), UNCHANGED down
  PROVE  NetTypeOK' /\ up[n][i] \in Packet
<1>1. up[n] \in Seq(Packet) /\ i \in 1 .. Len(up[n])
  BY DEF NetTypeOK, udp_deliver
<1>2. up[n][i] \in Packet
  BY <1>1
<1>3. CASE up' = [up EXCEPT ![n] = RemoveAt(@, i)] /\ UNCHANGED faults
  <2>1. RemoveAt(up[n], i) \in Seq(Packet)
    BY <1>1, RemoveAtType
  <2> QED  BY <1>2, <1>3, <2>1 DEF NetTypeOK
<1>4. CASE faults.dup > 0 /\ faults' = [faults EXCEPT !.dup = @ - 1] /\ UNCHANGED up
  BY <1>2, <1>4, SpendFault DEF NetTypeOK
<1> QED  BY <1>3, <1>4 DEF udp_deliver

\* A packet is handed to udp_rx_callback.
LEMMA DeliverDown ==
  ASSUME NetTypeOK, NEW n \in Node, NEW i, udp_deliver(down, n, i), UNCHANGED up
  PROVE  NetTypeOK' /\ down[n][i] \in Packet
<1>1. down[n] \in Seq(Packet) /\ i \in 1 .. Len(down[n])
  BY DEF NetTypeOK, udp_deliver
<1>2. down[n][i] \in Packet
  BY <1>1
<1>3. CASE down' = [down EXCEPT ![n] = RemoveAt(@, i)] /\ UNCHANGED faults
  <2>1. RemoveAt(down[n], i) \in Seq(Packet)
    BY <1>1, RemoveAtType
  <2> QED  BY <1>2, <1>3, <2>1 DEF NetTypeOK
<1>4. CASE faults.dup > 0 /\ faults' = [faults EXCEPT !.dup = @ - 1] /\ UNCHANGED down
  BY <1>2, <1>4, SpendFault DEF NetTypeOK
<1> QED  BY <1>3, <1>4 DEF udp_deliver

\* A timer runs out.
LEMMA Timeouts ==
  ASSUME NetTypeOK, UNCHANGED <<up, down>>, NEW n, NEW s,
         long_timeout(n) \/ session_retry_due(s, n)
  PROVE  NetTypeOK'
BY SpendFault DEF NetTypeOK, long_timeout, session_retry_due

-----------------------------------------------------------------------------
(* The node.                                                               *)

\* What is queued as CT is the ciphertext of the session's secret.
CtsAreCurrent(q, s) ==
  \A p \in queued(q) : p.kind = "CT" => p.ct = s.ss /\ s.state \in {"WAIT_ACK", "ESTABLISHED"}

\* The conjunction of the invariants about one node, of its session, flag,
\* ciphertext and queue.
NodeGood(s, flag, ct, q) ==
  /\ node_armed(s)
  /\ flag <=> s.pending_msg_type = "GETPK"
  /\ ct = IF s.state = "WAIT_ACK" THEN s.ss ELSE NoSecret
  /\ CountIsExact(q)
  /\ CtsAreCurrent(q, s)

NodeSafe == \A n \in Node : NodeGood(ns[n], getpk[n], node_ct[n], nq[n])

\* A step of node n leaves the others alone.
OthersUnchanged(n) ==
  \A m \in Node \ {n} : /\ ns'[m] = ns[m] /\ getpk'[m] = getpk[m]
                        /\ node_ct'[m] = node_ct[m] /\ nq'[m] = nq[m]

\* It is enough to look at the node that took the step.
LEMMA NodeUpdate ==
  ASSUME NodeSafe, NEW n \in Node, OthersUnchanged(n),
         NodeGood(ns'[n], getpk'[n], node_ct'[n], nq'[n])
  PROVE  NodeSafe'
BY DEF NodeSafe, OthersUnchanged

\* A slot that took a fragment is well-formed.
LEMMA SlotAfter ==
  ASSUME NEW type \in {"PK", "CT"}, NEW payload,
         NEW slot \in RxSlot(Node \cup {Nobody}, MsgId, type, payload),
         NEW owner \in Node, NEW id \in MsgId, NEW f \in Nat, NEW c \in payload
  PROVE  slot_after(slot, owner, type, id, f, c)
           \in RxSlot(Node \cup {Nobody}, MsgId, type, payload)
<1> DEFINE s == IF slot.owner = Nobody THEN NewSlot(owner) ELSE slot
           x == fragment_rx_add(s.ctx, type, id, f, c)
<1>1. s \in RxSlot(Node \cup {Nobody}, MsgId, type, payload)
  BY FreeSlotType, Zeros DEF NewSlot
<1>2. s.ctx \in RxContext(MsgId, type, payload)
  BY <1>1 DEF RxSlot
<1>3. slot_after(slot, owner, type, id, f, c) = [s EXCEPT !.ctx = x]
  BY DEF slot_after
<1> HIDE DEF s
<1>4. x \in RxContext(MsgId, type, payload)
  BY <1>2, RxAddType
<1> HIDE DEF x
<1> QED  BY <1>1, <1>3, <1>4, Zenon DEF RxSlot

\* The end of udp_rx_callback: whatever session and queue the handler leaves, the
\* reports that follow fit the queue and disturb neither.
LEMMA RxDone ==
  ASSUME NodeTypeOK, NEW n \in Node, NEW s \in Session, NEW q \in TxQueues,
         node_armed(s), CountIsExact(q), CtsAreCurrent(q, s),
         s.pending_msg_type = "GETPK" => getpk[n],
         node_rx_done(n, s, q)
  PROVE  /\ ns' \in [Node -> Session] /\ getpk' \in [Node -> BOOLEAN]
         /\ metrics_pending' \in [Node -> BOOLEAN] /\ nq' \in [Node -> TxQueues]
         /\ \A m \in Node \ {n} : ns'[m] = ns[m] /\ getpk'[m] = getpk[m] /\ nq'[m] = nq[m]
         /\ ns'[n].state = s.state /\ ns'[n].ss = s.ss
         /\ node_armed(ns'[n]) /\ (getpk'[n] <=> ns'[n].pending_msg_type = "GETPK")
         /\ CountIsExact(nq'[n]) /\ CtsAreCurrent(nq'[n], ns'[n])
<1> DEFINE sends == session_is_established(s) /\ (~session_is_established(ns[n]) \/ metrics_pending[n])
           rep   == reports(n, q)
           s2    == session_next_msg_ids(s, Len(rep))
           q2    == pqc_udp_send_all(q, rep)
<1>1. pqc_tx_free_slots(q) \in Nat
  BY FreeSlots DEF TxQueues
<1>2. /\ rep \in Seq(Packet) /\ Len(rep) \in Nat /\ Len(rep) <= pqc_tx_free_slots(q)
      /\ \A k \in 1 .. Len(rep) : rep[k].kind = "METRICS"
  BY <1>1, Reports
<1>3. /\ getpk' = [getpk EXCEPT ![n] = @ /\ s.pending_msg_type = "GETPK"]
      /\ metrics_pending' = [metrics_pending EXCEPT ![n] =
           IF sends THEN pqc_tx_free_slots(q) < MetricsGroups ELSE @]
      /\ ns' = [ns EXCEPT ![n] = IF sends THEN s2 ELSE s]
      /\ nq' = [nq EXCEPT ![n] = IF sends THEN q2 ELSE q]
  BY DEF node_rx_done
<1> HIDE DEF rep
<1>4. /\ s2 \in Session /\ s2.state = s.state /\ s2.established = s.established /\ s2.ss = s.ss
      /\ s2.pending_msg_type = s.pending_msg_type /\ s2.waiting_response = s.waiting_response
  BY <1>2, NextMsgIds
<1>5. q2 \in TxQueues /\ queued(q2) \subseteq queued(q) \cup {rep[k] : k \in 1 .. Len(rep)}
  BY <1>2, SendAllQueue DEF TxQueues
<1>6. CountIsExact(q2)
  BY <1>2, SendAllCounts, PacketFields DEF TxQueues
<1> HIDE DEF s2, q2, sends
<1>7. CtsAreCurrent(q2, s2)
  BY <1>2, <1>4, <1>5 DEF CtsAreCurrent
<1>8. node_armed(s2)
  BY <1>4 DEF node_armed, armed
<1>9. /\ ns' \in [Node -> Session] /\ nq' \in [Node -> TxQueues]
      /\ \A m \in Node \ {n} : ns'[m] = ns[m] /\ nq'[m] = nq[m]
      /\ ns'[n] = (IF sends THEN s2 ELSE s) /\ nq'[n] = (IF sends THEN q2 ELSE q)
  BY <1>3, <1>4, <1>5 DEF NodeTypeOK
<1>10. /\ getpk' \in [Node -> BOOLEAN] /\ \A m \in Node \ {n} : getpk'[m] = getpk[m]
       /\ getpk'[n] = (getpk[n] /\ s.pending_msg_type = "GETPK")
  BY <1>3, Zenon DEF NodeTypeOK
<1>11. metrics_pending' \in [Node -> BOOLEAN]
  <2> DEFINE short == pqc_tx_free_slots(q) < MetricsGroups
             b     == IF sends THEN short ELSE metrics_pending[n]
  <2>1. b \in BOOLEAN
    <3>1. short \in BOOLEAN
      BY <1>1, SizeAssumption
    <3>2. metrics_pending[n] \in BOOLEAN
      BY Zenon DEF NodeTypeOK
    <3> HIDE DEF short
    <3> QED  BY <3>1, <3>2, Zenon
  <2>2. metrics_pending' = [metrics_pending EXCEPT ![n] = b]
    BY <1>3
  <2> HIDE DEF b
  <2> QED  BY <2>1, <2>2 DEF NodeTypeOK
<1> QED  BY <1>4, <1>6, <1>7, <1>8, <1>9, <1>10, <1>11

\* The end of udp_rx_callback, in terms of the invariants: the handler has to leave
\* a session and a queue that fit each other and the ciphertext buffer.
LEMMA RxPreserves ==
  ASSUME NodeTypeOK, NodeSafe, NEW n \in Node, NEW s \in Session, NEW q \in TxQueues,
         node_armed(s), CountIsExact(q), CtsAreCurrent(q, s),
         s.pending_msg_type = "GETPK" => getpk[n],
         node_rx_done(n, s, q),
         NEW ct \in Secret, node_ct' = [node_ct EXCEPT ![n] = ct],
         ct = IF s.state = "WAIT_ACK" THEN s.ss ELSE NoSecret,
         nrx' \in [Node -> NodeSlot], UNCHANGED attempts, prng' \in [Node -> Nat]
  PROVE  NodeTypeOK' /\ NodeSafe'
<1>1. /\ ns' \in [Node -> Session] /\ getpk' \in [Node -> BOOLEAN]
      /\ metrics_pending' \in [Node -> BOOLEAN] /\ nq' \in [Node -> TxQueues]
      /\ \A m \in Node \ {n} : ns'[m] = ns[m] /\ getpk'[m] = getpk[m] /\ nq'[m] = nq[m]
      /\ ns'[n].state = s.state /\ ns'[n].ss = s.ss
      /\ node_armed(ns'[n]) /\ (getpk'[n] <=> ns'[n].pending_msg_type = "GETPK")
      /\ CountIsExact(nq'[n]) /\ CtsAreCurrent(nq'[n], ns'[n])
  BY RxDone
<1>2. /\ node_ct' \in [Node -> Secret] /\ node_ct'[n] = ct
      /\ \A m \in Node \ {n} : node_ct'[m] = node_ct[m]
  BY DEF NodeTypeOK
<1>3. NodeTypeOK'
  BY <1>1, <1>2 DEF NodeTypeOK
<1>4. NodeGood(ns'[n], getpk'[n], node_ct'[n], nq'[n])
  BY <1>1, <1>2 DEF NodeGood
<1>5. OthersUnchanged(n)
  BY <1>1, <1>2 DEF OthersUnchanged
<1> QED  BY <1>3, <1>4, <1>5, NodeUpdate

\* What the invariants say of one node.
LEMMA NodeFacts ==
  ASSUME NodeTypeOK, NodeSafe, NEW n \in Node
  PROVE  /\ ns[n] \in Session /\ nq[n] \in TxQueues /\ node_ct[n] \in Secret
         /\ nrx[n] \in NodeSlot /\ attempts[n] \in Nat /\ prng[n] \in Nat
         /\ node_armed(ns[n]) /\ (getpk[n] <=> ns[n].pending_msg_type = "GETPK")
         /\ node_ct[n] = (IF ns[n].state = "WAIT_ACK" THEN ns[n].ss ELSE NoSecret)
         /\ CountIsExact(nq[n]) /\ CtsAreCurrent(nq[n], ns[n])
         /\ pqc_tx_free_slots(nq[n]) \in Nat
<1>1. ns[n] \in Session /\ nq[n] \in TxQueues /\ node_ct[n] \in Secret
      /\ nrx[n] \in NodeSlot /\ attempts[n] \in Nat /\ prng[n] \in Nat
  BY DEF NodeTypeOK
<1>2. NodeGood(ns[n], getpk[n], node_ct[n], nq[n])
  BY DEF NodeSafe
<1>3. pqc_tx_free_slots(nq[n]) \in Nat
  BY <1>1, <1>2, FreeSlots DEF TxQueues, NodeGood
<1> QED  BY <1>1, <1>2, <1>3 DEF NodeGood

\* Leaving the ciphertext buffer as it is assigns it what it holds.
LEMMA CtKept ==
  ASSUME NodeTypeOK, NEW n \in Node, UNCHANGED node_ct
  PROVE  node_ct' = [node_ct EXCEPT ![n] = node_ct[n]]
BY DEF NodeTypeOK

\* Releasing a receive slot, or leaving it, keeps the slots well-formed.
LEMMA NodeSlotFreed ==
  ASSUME NodeTypeOK, NEW n \in Node,
         nrx' = [nrx EXCEPT ![n] = FreeSlot(Nobody)] \/ UNCHANGED nrx
  PROVE  nrx' \in [Node -> NodeSlot]
<1>1. FreeSlot(Nobody) \in NodeSlot
  BY FreeSlotType, Zeros DEF NodeSlot
<1> QED  BY <1>1 DEF NodeTypeOK

\* A handler that leaves session, ciphertext and queue alone.
LEMMA RxNothing ==
  ASSUME NodeTypeOK, NodeSafe, NEW n \in Node, node_rx_done(n, ns[n], nq[n]),
         nrx' \in [Node -> NodeSlot], UNCHANGED <<node_ct, attempts, prng>>
  PROVE  NodeTypeOK' /\ NodeSafe'
<1> DEFINE s  == ns[n]
           q  == nq[n]
           ct == node_ct[n]
<1>1. /\ s \in Session /\ q \in TxQueues /\ ct \in Secret
      /\ node_armed(s) /\ CountIsExact(q) /\ CtsAreCurrent(q, s)
      /\ s.pending_msg_type = "GETPK" => getpk[n]
      /\ ct = IF s.state = "WAIT_ACK" THEN s.ss ELSE NoSecret
  BY NodeFacts
<1>2. node_ct' = [node_ct EXCEPT ![n] = ct] /\ UNCHANGED attempts
      /\ prng' \in [Node -> Nat]
  BY CtKept DEF NodeTypeOK
<1>3. node_rx_done(n, s, q)
  OBVIOUS
<1> HIDE DEF s, q, ct
<1> QED  BY <1>1, <1>2, <1>3, RxPreserves

\* A packet that is refused changes nothing but the reports still to be sent.
LEMMA RecvIgnoredPreserves ==
  ASSUME NodeTypeOK, NodeSafe, NEW n \in Node, NEW p \in Packet, NodeRecvIgnored(n, p)
  PROVE  NodeTypeOK' /\ NodeSafe'
<1>1. nrx' \in [Node -> NodeSlot]
  BY NodeSlotFreed DEF NodeRecvIgnored
<1> QED  BY <1>1, RxNothing DEF NodeRecvIgnored

\* The fragments a NACK asks for are those of the pending ciphertext.
LEMMA RecvNackPreserves ==
  ASSUME NodeTypeOK, NodeSafe, NEW n \in Node, NEW p \in Packet, NodeRecvNack(n, p)
  PROVE  NodeTypeOK' /\ NodeSafe'
<1> DEFINE s  == ns[n]
           q  == nq[n]
           ps == ct_fragments(n, p.missing_msg_id, p.missing, node_ct[n])
           q2 == pqc_udp_send_all(q, ps)
           s1 == retry_in(s, "short")
           s2 == retry_in(s, "long")
<1>1. nrx' \in [Node -> NodeSlot]
  BY NodeSlotFreed DEF NodeRecvNack
<1>2. node_ct' = [node_ct EXCEPT ![n] = node_ct[n]] /\ UNCHANGED attempts
      /\ prng' \in [Node -> Nat]
  BY CtKept DEF NodeRecvNack, NodeTypeOK
<1>3. p.missing_msg_id \in MsgId /\ p.missing \in SUBSET Frags
  BY DEF NodeRecvNack, Packet
<1>4. s.state = "WAIT_ACK" /\ node_ct[n] = s.ss
  BY NodeFacts DEF NodeRecvNack, node_armed
<1>5. /\ \A r \in {s1, s2} :
            /\ r \in Session /\ r.state = s.state /\ r.established = s.established /\ r.ss = s.ss
            /\ r.pending_msg_type = s.pending_msg_type /\ r.waiting_response = s.waiting_response
  BY NodeFacts, RetryIn DEF Deadlines
<1>6. IF pqc_tx_free_slots(q) < Cardinality(p.missing)
      THEN node_rx_done(n, s1, q) ELSE node_rx_done(n, s2, q2)
  BY DEF NodeRecvNack
<1>7. /\ ps \in Seq(Packet) /\ Len(ps) = Cardinality(p.missing) /\ Len(ps) \in Nat
      /\ \A k \in 1 .. Len(ps) : ps[k].kind = "CT" /\ ps[k].ct = node_ct[n]
  <2> DEFINE ct  == node_ct[n]
             id  == p.missing_msg_id
             gap == p.missing
  <2>1. ct \in Secret /\ id \in MsgId /\ gap \in SUBSET Frags
    BY <1>3, NodeFacts
  <2>2. Cardinality(gap) \in Nat
    BY <2>1, FragsFinite
  <2>3. ps = ct_fragments(n, id, gap, ct)
    OBVIOUS
  <2> HIDE DEF ct, id, gap, ps
  <2>4. /\ ps \in Seq(Packet) /\ Len(ps) = Cardinality(gap)
        /\ \A k \in 1 .. Len(ps) : ps[k].kind = "CT" /\ ps[k].ct = ct
    <3>1. /\ ct_fragments(n, id, gap, ct) \in Seq(Packet)
          /\ Len(ct_fragments(n, id, gap, ct)) = Cardinality(gap)
          /\ \A k \in 1 .. Len(ct_fragments(n, id, gap, ct)) :
               /\ ct_fragments(n, id, gap, ct)[k].kind = "CT"
               /\ ct_fragments(n, id, gap, ct)[k].ct = ct
      BY <2>1, CtFragments, Zenon
    <3> QED  BY <2>3, <3>1
  <2> QED  BY <2>2, <2>4 DEF gap, ct
<1> HIDE DEF s1, s2, ps
<1>8. \A r \in {s1, s2} : node_armed(r) /\ CtsAreCurrent(q, r)
  BY <1>5, NodeFacts DEF node_armed, armed, CtsAreCurrent
<1>9. CASE pqc_tx_free_slots(q) < Cardinality(p.missing)
  <2>1. node_rx_done(n, s1, q) /\ s1 \in Session /\ node_armed(s1) /\ CtsAreCurrent(q, s1)
    BY <1>5, <1>6, <1>8, <1>9
  <2>2. /\ node_ct[n] \in Secret /\ q \in TxQueues /\ CountIsExact(q)
        /\ node_ct[n] = IF s1.state = "WAIT_ACK" THEN s1.ss ELSE NoSecret
        /\ s1.pending_msg_type = "GETPK" => getpk[n]
    BY <1>5, NodeFacts
  <2> HIDE DEF q
  <2> QED  BY <1>1, <1>2, <2>1, <2>2, RxPreserves
<1>10. CASE ~(pqc_tx_free_slots(q) < Cardinality(p.missing))
  <2>1. Len(ps) <= pqc_tx_free_slots(q)
    BY <1>7, <1>10, NodeFacts
  <2>2. q2 \in TxQueues /\ queued(q2) \subseteq queued(q) \cup {ps[k] : k \in 1 .. Len(ps)}
    BY <1>7, NodeFacts, SendAllQueue DEF TxQueues
  <2>3. CountIsExact(q2)
    BY <1>7, <2>1, NodeFacts, SendAllCounts, PacketFields DEF TxQueues
  <2> HIDE DEF q2
  <2>4. CtsAreCurrent(q2, s2)
    BY <1>4, <1>5, <1>7, <1>8, <2>2 DEF CtsAreCurrent
  <2>5. node_rx_done(n, s2, q2) /\ s2 \in Session /\ node_armed(s2)
    BY <1>5, <1>6, <1>8, <1>10
  <2>6. /\ node_ct[n] \in Secret
        /\ node_ct[n] = IF s2.state = "WAIT_ACK" THEN s2.ss ELSE NoSecret
        /\ s2.pending_msg_type = "GETPK" => getpk[n]
    BY <1>5, NodeFacts
  <2> QED  BY <1>1, <1>2, <2>2, <2>3, <2>4, <2>5, <2>6, RxPreserves
<1> QED  BY <1>9, <1>10

\* A message for which there is room goes into the queue of a node as a whole.
LEMMA Queued ==
  ASSUME NEW q \in TxQueues, CountIsExact(q), NEW ps \in Seq(Packet),
         Len(ps) <= pqc_tx_free_slots(q)
  PROVE  /\ pqc_udp_send_all(q, ps) \in TxQueues /\ CountIsExact(pqc_udp_send_all(q, ps))
         /\ queued(pqc_udp_send_all(q, ps)) \subseteq queued(q) \cup {ps[k] : k \in 1 .. Len(ps)}
BY SendAllQueue, SendAllCounts, PacketFields DEF TxQueues

\* The same for a single packet.
LEMMA QueuedOne ==
  ASSUME NEW q \in TxQueues, CountIsExact(q), NEW p \in Packet, pqc_tx_free_slots(q) > 0
  PROVE  /\ pqc_udp_send_fragment(q, p) \in TxQueues
         /\ CountIsExact(pqc_udp_send_fragment(q, p))
         /\ queued(pqc_udp_send_fragment(q, p)) \subseteq queued(q) \cup {p}
BY SendFragmentQueue, SendFragmentCounts, PacketFields DEF TxQueues

\* A PK fragment that completes nothing, with or without a NACK for the gaps.
LEMMA RecvPkPartPreserves ==
  ASSUME NodeTypeOK, NodeSafe, NEW n \in Node, NEW p \in Packet, NodeRecvPkPart(n, p)
  PROVE  NodeTypeOK' /\ NodeSafe'
<1> DEFINE slot == slot_after(nrx[n], n, "PK", p.msg_id, p.frag, root_pk)
           gaps == missing(slot.ctx)
           nack == NACK(n, "PK", slot.ctx.msg_id, gaps)
           s1   == session_next_msg_id(ns[n])
           s2   == retry_in(s1, "short")
           q2   == pqc_udp_send_fragment(nq[n], nack)
<1>1. p.msg_id \in MsgId /\ p.frag \in Nat
  BY DEF NodeRecvPkPart, Packet
<1>2. slot \in NodeSlot
  BY <1>1, NodeFacts, SlotAfter DEF NodeSlot
<1>3. /\ s2 \in Session /\ s2.state = ns[n].state /\ s2.established = ns[n].established
      /\ s2.ss = ns[n].ss /\ s2.pending_msg_type = ns[n].pending_msg_type
      /\ s2.waiting_response = ns[n].waiting_response
  <2>1. /\ s1 \in Session /\ s1.state = ns[n].state /\ s1.established = ns[n].established
        /\ s1.ss = ns[n].ss /\ s1.pending_msg_type = ns[n].pending_msg_type
        /\ s1.waiting_response = ns[n].waiting_response
    BY NodeFacts, NextMsgId
  <2> HIDE DEF s1
  <2> QED  BY <2>1, RetryIn DEF Deadlines
<1>4. /\ node_ct' = [node_ct EXCEPT ![n] = node_ct[n]] /\ UNCHANGED attempts
      /\ prng' \in [Node -> Nat]
  BY CtKept DEF NodeRecvPkPart, NodeTypeOK
<1>5. \/ /\ pqc_tx_free_slots(nq[n]) > 0
         /\ nrx' = [nrx EXCEPT ![n] = rx_slot_note_nack(slot)] /\ node_rx_done(n, s2, q2)
      \/ nrx' = [nrx EXCEPT ![n] = slot] /\ node_rx_done(n, ns[n], nq[n])
  BY DEF NodeRecvPkPart
<1>6. nack \in Packet /\ nack.kind = "NACK"
  <2>1. slot.ctx.msg_type \in {"NONE", "PK"} /\ slot.ctx.msg_id \in MsgId
    <3> HIDE DEF slot
    <3> QED  BY <1>2 DEF NodeSlot, RxSlot, RxContext
  <2>2. gaps \in SUBSET Frags
    <3> HIDE DEF slot
    <3> QED  BY <2>1, MissingInMessage
  <2> HIDE DEF slot, gaps
  <2> QED  BY <2>1, <2>2, PacketTypes DEF NACK
<1> HIDE DEF slot, nack, s1, s2
<1>7. CASE /\ pqc_tx_free_slots(nq[n]) > 0
           /\ nrx' = [nrx EXCEPT ![n] = rx_slot_note_nack(slot)] /\ node_rx_done(n, s2, q2)
  <2>1. nrx' \in [Node -> NodeSlot]
    <3>1. rx_slot_note_nack(slot) \in NodeSlot
      BY <1>2, NoteNackType DEF NodeSlot
    <3> QED  BY <1>7, <3>1 DEF NodeTypeOK
  <2>2. /\ q2 \in TxQueues /\ CountIsExact(q2) /\ queued(q2) \subseteq queued(nq[n]) \cup {nack}
    BY <1>6, <1>7, NodeFacts, QueuedOne
  <2> HIDE DEF q2
  <2>3. node_armed(s2)
    BY <1>3, NodeFacts DEF node_armed, armed
  <2>4. CtsAreCurrent(q2, s2)
    BY <1>3, <1>6, <2>2, NodeFacts DEF CtsAreCurrent
  <2>5. /\ node_ct[n] \in Secret
        /\ node_ct[n] = IF s2.state = "WAIT_ACK" THEN s2.ss ELSE NoSecret
        /\ s2.pending_msg_type = "GETPK" => getpk[n]
    BY <1>3, NodeFacts
  <2>6. node_rx_done(n, s2, q2)
    BY <1>7
  <2> QED  BY <1>3, <1>4, <2>1, <2>2, <2>3, <2>4, <2>5, <2>6, RxPreserves
<1>8. CASE nrx' = [nrx EXCEPT ![n] = slot] /\ node_rx_done(n, ns[n], nq[n])
  <2>1. nrx' \in [Node -> NodeSlot]
    BY <1>2, <1>8 DEF NodeTypeOK
  <2>2. UNCHANGED <<node_ct, attempts, prng>>
    BY DEF NodeRecvPkPart
  <2> QED  BY <1>8, <2>1, <2>2, RxNothing
<1> QED  BY <1>5, <1>7, <1>8

\* The PK is complete.  Nothing of an earlier ciphertext is queued in WAIT_PK, so
\* the new one is the only one.
LEMMA RecvPkCompletePreserves ==
  ASSUME NodeTypeOK, NodeSafe, NEW n \in Node, NEW p \in Packet, NodeRecvPkComplete(n, p)
  PROVE  NodeTypeOK' /\ NodeSafe'
<1> DEFINE slot == slot_after(nrx[n], n, "PK", p.msg_id, p.frag, root_pk)
           ct   == prng[n] + 1
           s    == [ns[n] EXCEPT !.ss = ct]
           id   == s.next_msg_id
           s1   == session_clear_pending(s)
           s2   == session_next_msg_id(s1)
           s3   == session_set_state(s2, "WAIT_ACK")
           s4   == session_set_pending(s3, "CT", id)
           sf   == session_set_failed(s)
           ps   == ct_fragments(n, id, FragIdx("CT"), ct)
           q2   == pqc_udp_send_all(nq[n], ps)
<1>1. p.msg_id \in MsgId /\ p.frag \in Nat /\ ns[n].state = "WAIT_PK"
  BY DEF NodeRecvPkComplete, Packet
<1>2. slot \in NodeSlot
  BY <1>1, NodeFacts, SlotAfter DEF NodeSlot
<1>3. nrx' \in [Node -> NodeSlot] /\ UNCHANGED attempts
      /\ prng' \in [Node -> Nat]
  <2>1. nrx' \in [Node -> NodeSlot] /\ UNCHANGED attempts /\ prng' = [prng EXCEPT ![n] = @ + 1]
    BY NodeSlotFreed DEF NodeRecvPkComplete
  <2> QED  BY <2>1 DEF NodeTypeOK
<1>4. \/ /\ node_ct' = [node_ct EXCEPT ![n] = NoSecret] /\ node_rx_done(n, sf, nq[n])
      \/ /\ ~(pqc_tx_free_slots(nq[n]) < CtFrags)
         /\ node_ct' = [node_ct EXCEPT ![n] = ct] /\ node_rx_done(n, s4, q2)
  BY DEF NodeRecvPkComplete
<1>5. ct \in Secret
  BY NodeFacts DEF Secret
<1>6. /\ s \in Session /\ s.ss = ct /\ s.established = ns[n].established /\ s.next_msg_id \in MsgId
  <2> HIDE DEF ct
  <2>1. /\ s \in Session /\ s.ss = ct /\ s.established = ns[n].established
    BY <1>5, NodeFacts, SetSecret
  <2> HIDE DEF s
  <2> QED  BY <2>1 DEF Session
<1>7. ns[n].established = FALSE
  BY <1>1, NodeFacts DEF node_armed, armed, Session
<1> HIDE DEF slot, ct, s
<1>8. \A pk \in queued(nq[n]) : pk.kind # "CT"
  BY <1>1, NodeFacts DEF CtsAreCurrent
<1>9. CASE node_ct' = [node_ct EXCEPT ![n] = NoSecret] /\ node_rx_done(n, sf, nq[n])
  <2>1. /\ sf \in Session /\ sf.state = "FAILED" /\ sf.established = FALSE
        /\ sf.pending_msg_type = "NONE" /\ sf.waiting_response = FALSE
    BY <1>6, SetFailed
  <2> HIDE DEF sf
  <2>2. node_armed(sf) /\ CtsAreCurrent(nq[n], sf)
    BY <1>8, <2>1 DEF node_armed, armed, CtsAreCurrent
  <2> QED  BY <1>3, <1>9, <2>1, <2>2, NodeFacts, RxPreserves, Zeros
<1>10. CASE /\ ~(pqc_tx_free_slots(nq[n]) < CtFrags)
            /\ node_ct' = [node_ct EXCEPT ![n] = ct] /\ node_rx_done(n, s4, q2)
  <2>1. /\ s4 \in Session /\ s4.state = "WAIT_ACK" /\ s4.ss = ct /\ s4.established = FALSE
        /\ s4.pending_msg_type = "CT" /\ s4.waiting_response = TRUE
    <3>1. s1 \in Session /\ s1.ss = ct /\ s1.established = FALSE
      BY <1>6, <1>7, ClearPending
    <3> HIDE DEF s1
    <3>2. s2 \in Session /\ s2.ss = ct /\ s2.established = FALSE
      BY <3>1, NextMsgId
    <3> HIDE DEF s2
    <3>3. s3 \in Session /\ s3.state = "WAIT_ACK" /\ s3.ss = ct /\ s3.established = FALSE
      BY <3>2, SetState DEF States
    <3> HIDE DEF s3, id
    <3>4. id \in MsgId
      BY <1>6 DEF id
    <3> QED  BY <3>3, <3>4, PendingCt
  <2>2. /\ ps \in Seq(Packet) /\ Len(ps) = CtFrags
        /\ \A k \in 1 .. Len(ps) : ps[k].ct = ct
    <3> DEFINE fs == FragIdx("CT")
    <3>1. fs \in SUBSET Frags /\ Cardinality(fs) = CtFrags /\ id \in MsgId
      BY <1>6, WholeMessage
    <3>2. ps = ct_fragments(n, id, fs, ct)
      OBVIOUS
    <3> HIDE DEF fs, ps, id
    <3> QED  BY <1>5, <3>1, <3>2, CtFragments
  <2> HIDE DEF ps, s4
  <2>3. Len(ps) <= pqc_tx_free_slots(nq[n])
    BY <1>10, <2>2, NodeFacts, FragsAssumption
  <2>4. /\ q2 \in TxQueues /\ CountIsExact(q2)
        /\ queued(q2) \subseteq queued(nq[n]) \cup {ps[k] : k \in 1 .. Len(ps)}
    BY <2>2, <2>3, NodeFacts, Queued
  <2> HIDE DEF q2
  <2>5. CtsAreCurrent(q2, s4)
    BY <1>8, <2>1, <2>2, <2>4 DEF CtsAreCurrent
  <2>6. node_armed(s4)
    BY <2>1 DEF node_armed, armed
  <2> QED  BY <1>3, <1>5, <1>10, <2>1, <2>4, <2>5, <2>6, RxPreserves
<1> QED  BY <1>4, <1>9, <1>10

\* An ACK confirms the pending CT, or changes at most the slot it took.
LEMMA RecvAckPreserves ==
  ASSUME NodeTypeOK, NodeSafe, NEW n \in Node, NEW p \in Packet, NodeRecvAck(n, p)
  PROVE  NodeTypeOK' /\ NodeSafe'
<1> DEFINE s == session_set_established(ns[n])
<1>1. nrx' \in [Node -> NodeSlot]
  BY NodeSlotFreed DEF NodeRecvAck
<1>2. ns[n].state = "WAIT_ACK" /\ UNCHANGED <<attempts, prng>> /\ prng' \in [Node -> Nat]
  BY DEF NodeRecvAck, NodeTypeOK
<1>3. \/ UNCHANGED node_ct /\ node_rx_done(n, ns[n], nq[n])
      \/ node_ct' = [node_ct EXCEPT ![n] = NoSecret] /\ node_rx_done(n, s, nq[n])
  BY DEF NodeRecvAck
<1>4. CASE UNCHANGED node_ct /\ node_rx_done(n, ns[n], nq[n])
  BY <1>1, <1>2, <1>4, RxNothing
<1>5. CASE node_ct' = [node_ct EXCEPT ![n] = NoSecret] /\ node_rx_done(n, s, nq[n])
  <2>1. /\ s \in Session /\ s.state = "ESTABLISHED" /\ s.established = TRUE /\ s.ss = ns[n].ss
        /\ s.pending_msg_type = "NONE" /\ s.waiting_response = FALSE
    BY NodeFacts, SetEstablished
  <2> HIDE DEF s
  <2>2. node_armed(s) /\ CtsAreCurrent(nq[n], s)
    BY <2>1, NodeFacts DEF node_armed, armed, CtsAreCurrent
  <2>3. /\ node_rx_done(n, s, nq[n]) /\ NoSecret \in Secret
        /\ node_ct' = [node_ct EXCEPT ![n] = NoSecret] /\ UNCHANGED attempts
        /\ NoSecret = IF s.state = "WAIT_ACK" THEN s.ss ELSE NoSecret
        /\ s.pending_msg_type = "GETPK" => getpk[n]
    BY <1>2, <1>5, <2>1, Zeros
  <2> QED  BY <1>1, <1>2, <2>1, <2>2, <2>3, NodeFacts, RxPreserves
<1> QED  BY <1>3, <1>4, <1>5

-----------------------------------------------------------------------------
\* getpk_in_flight of the other nodes stays, and this one's says b.
FlagIs(n, b) ==
  /\ getpk' \in [Node -> BOOLEAN] /\ (getpk'[n] <=> b)
  /\ \A m \in Node \ {n} : getpk'[m] = getpk[m]

\* The three things a handler does to the flag.
LEMMA Flag ==
  ASSUME NodeTypeOK, NEW n \in Node
  PROVE  /\ getpk' = [getpk EXCEPT ![n] = TRUE] => FlagIs(n, TRUE)
         /\ getpk' = [getpk EXCEPT ![n] = FALSE] => FlagIs(n, FALSE)
         /\ UNCHANGED getpk => FlagIs(n, getpk[n])
BY Zenon DEF NodeTypeOK, FlagIs

\* A step of node n that assigns its session, flag, ciphertext and queue.
LEMMA NodeAssigned ==
  ASSUME NodeTypeOK, NodeSafe, NEW n \in Node,
         NEW s \in Session, NEW ct \in Secret, NEW q \in TxQueues,
         ns' = [ns EXCEPT ![n] = s], FlagIs(n, s.pending_msg_type = "GETPK"),
         node_ct' = [node_ct EXCEPT ![n] = ct], nq' = [nq EXCEPT ![n] = q],
         nrx' \in [Node -> NodeSlot], metrics_pending' \in [Node -> BOOLEAN],
         attempts' \in [Node -> Nat], prng' \in [Node -> Nat],
         node_armed(s), ct = IF s.state = "WAIT_ACK" THEN s.ss ELSE NoSecret,
         CountIsExact(q), CtsAreCurrent(q, s)
  PROVE  NodeTypeOK' /\ NodeSafe'
<1>1. /\ ns' \in [Node -> Session] /\ nq' \in [Node -> TxQueues] /\ node_ct' \in [Node -> Secret]
      /\ ns'[n] = s /\ nq'[n] = q /\ node_ct'[n] = ct
      /\ \A m \in Node \ {n} : ns'[m] = ns[m] /\ nq'[m] = nq[m] /\ node_ct'[m] = node_ct[m]
  BY DEF NodeTypeOK
<1>2. NodeTypeOK'
  BY <1>1 DEF NodeTypeOK, FlagIs
<1>3. NodeGood(ns'[n], getpk'[n], node_ct'[n], nq'[n])
  BY <1>1 DEF NodeGood, FlagIs
<1>4. OthersUnchanged(n)
  BY <1>1 DEF OthersUnchanged, FlagIs
<1> QED  BY <1>2, <1>3, <1>4, NodeUpdate

\* What a node leaves alone can be read as an assignment of the old value.
LEMMA Kept ==
  ASSUME NodeTypeOK, NEW n \in Node
  PROVE  /\ ns = [ns EXCEPT ![n] = ns[n]] /\ node_ct = [node_ct EXCEPT ![n] = node_ct[n]]
         /\ nq = [nq EXCEPT ![n] = nq[n]]
BY DEF NodeTypeOK

\* A node asks for the key.
LEMMA RequestPkPreserves ==
  ASSUME NodeTypeOK, NodeSafe, NEW n \in Node, NodeRequestPk(n)
  PROVE  NodeTypeOK' /\ NodeSafe'
<1> DEFINE s1 == session_set_state(ns[n], "WAIT_PK")
           s  == session_set_pending(s1, "GETPK", 0)
           p  == GETPK(n)
           q  == pqc_udp_send_fragment(nq[n], p)
<1>1. /\ ns' = [ns EXCEPT ![n] = s] /\ getpk' = [getpk EXCEPT ![n] = TRUE]
      /\ nq' = [nq EXCEPT ![n] = q] /\ node_ct' = node_ct /\ nrx' = nrx
      /\ metrics_pending' = metrics_pending /\ attempts' = [attempts EXCEPT ![n] = @ + 1]
      /\ prng' = prng
      /\ ns[n].state = "IDLE" /\ pqc_tx_free_slots(nq[n]) > 0
  BY DEF NodeRequestPk
<1>2. /\ nrx' \in [Node -> NodeSlot] /\ metrics_pending' \in [Node -> BOOLEAN]
      /\ attempts' \in [Node -> Nat] /\ prng' \in [Node -> Nat]
  BY <1>1 DEF NodeTypeOK
<1>3. /\ s \in Session /\ s.state = "WAIT_PK" /\ s.established = ns[n].established
      /\ s.pending_msg_type = "GETPK" /\ s.waiting_response = TRUE
  <2>1. s1 \in Session /\ s1.state = "WAIT_PK" /\ s1.established = ns[n].established
    BY NodeFacts, SetState DEF States
  <2> HIDE DEF s1
  <2> QED  BY <2>1, Zeros, PendingGetpk
<1>4. p \in Packet /\ p.kind = "GETPK"
  BY PacketTypes DEF GETPK
<1> HIDE DEF p
<1>5. q \in TxQueues /\ CountIsExact(q) /\ queued(q) \subseteq queued(nq[n]) \cup {p}
  BY <1>1, <1>4, NodeFacts, QueuedOne
<1> HIDE DEF s1, s, q
<1>6. CtsAreCurrent(q, s)
  BY <1>1, <1>4, <1>5, NodeFacts DEF CtsAreCurrent
<1>7. node_armed(s)
  BY <1>1, <1>3, NodeFacts DEF node_armed, armed, Session
<1>8. FlagIs(n, s.pending_msg_type = "GETPK")
  BY <1>1, <1>3, Flag DEF FlagIs
<1> DEFINE ct == node_ct[n]
<1>9. /\ ct \in Secret /\ node_ct' = [node_ct EXCEPT ![n] = ct]
      /\ ct = IF s.state = "WAIT_ACK" THEN s.ss ELSE NoSecret
  BY <1>1, <1>3, NodeFacts, Kept
<1> HIDE DEF ct
<1> QED  BY <1>1, <1>2, <1>3, <1>5, <1>6, <1>7, <1>8, <1>9, NodeAssigned

\* A packet leaves the queue of a node.
LEMMA NodeTxPreserves ==
  ASSUME NodeTypeOK, NodeSafe, NEW n \in Node, NodeTx(n)
  PROVE  NodeTypeOK' /\ NodeSafe' /\ pqc_tx_next(nq[n]) \in Packet
<1> DEFINE s  == ns[n]
           ct == node_ct[n]
           q  == nq[n]
           q2 == pqc_tx_process(q)
<1>1. /\ nq' = [nq EXCEPT ![n] = q2] /\ active(q) # {}
      /\ UNCHANGED <<ns, getpk, node_ct, nrx, metrics_pending, attempts, prng>>
  BY DEF NodeTx
<1>2. /\ s \in Session /\ q \in TxQueues /\ ct \in Secret
      /\ ns' = [ns EXCEPT ![n] = s] /\ node_ct' = [node_ct EXCEPT ![n] = ct]
      /\ node_armed(s) /\ ct = (IF s.state = "WAIT_ACK" THEN s.ss ELSE NoSecret)
      /\ CountIsExact(q) /\ CtsAreCurrent(q, s)
  BY <1>1, NodeFacts, Kept
<1>3. FlagIs(n, s.pending_msg_type = "GETPK")
  BY <1>1, NodeFacts, Flag DEF FlagIs
<1>4. /\ nrx' \in [Node -> NodeSlot] /\ metrics_pending' \in [Node -> BOOLEAN]
      /\ attempts' \in [Node -> Nat] /\ prng' \in [Node -> Nat]
  BY <1>1 DEF NodeTypeOK
<1> HIDE DEF s, ct, q
<1>5. q2 \in TxQueues /\ queued(q2) \subseteq queued(q) /\ pqc_tx_next(q) \in Packet
  BY <1>1, <1>2, ProcessQueue, PacketFields DEF TxQueues
<1>6. CountIsExact(q2)
  BY <1>1, <1>2, ProcessCounts DEF TxQueues
<1> HIDE DEF q2
<1>7. CtsAreCurrent(q2, s)
  BY <1>2, <1>5 DEF CtsAreCurrent
<1>8. NodeTypeOK' /\ NodeSafe'
  BY <1>1, <1>2, <1>3, <1>4, <1>5, <1>6, <1>7, NodeAssigned
<1> QED  BY <1>5, <1>8 DEF q

\* The retry timer of a node: postponed while the queue drains.
LEMMA RetryPostponedPreserves ==
  ASSUME NodeTypeOK, NodeSafe, NEW n \in Node, NodeRetryPostponed(n),
         UNCHANGED <<metrics_pending, attempts, prng>>
  PROVE  NodeTypeOK' /\ NodeSafe'
<1> DEFINE s  == retry_in(ns[n], "short")
           ct == node_ct[n]
           q  == nq[n]
<1>1. /\ ns' = [ns EXCEPT ![n] = s] /\ UNCHANGED <<getpk, node_ct, nrx, nq>>
  BY DEF NodeRetryPostponed
<1>2. /\ s \in Session /\ s.state = ns[n].state /\ s.established = ns[n].established
      /\ s.ss = ns[n].ss /\ s.pending_msg_type = ns[n].pending_msg_type
      /\ s.waiting_response = ns[n].waiting_response
  BY NodeFacts, RetryIn DEF Deadlines
<1> HIDE DEF s
<1>3. /\ q \in TxQueues /\ ct \in Secret
      /\ nq' = [nq EXCEPT ![n] = q] /\ node_ct' = [node_ct EXCEPT ![n] = ct]
      /\ ct = (IF s.state = "WAIT_ACK" THEN s.ss ELSE NoSecret)
      /\ CountIsExact(q) /\ CtsAreCurrent(q, s)
  BY <1>1, <1>2, NodeFacts, Kept DEF CtsAreCurrent
<1>4. FlagIs(n, s.pending_msg_type = "GETPK")
  BY <1>1, <1>2, NodeFacts, Flag DEF FlagIs
<1>5. /\ nrx' \in [Node -> NodeSlot] /\ metrics_pending' \in [Node -> BOOLEAN]
      /\ attempts' \in [Node -> Nat] /\ prng' \in [Node -> Nat]
  BY <1>1 DEF NodeTypeOK
<1>6. node_armed(s)
  BY <1>2, NodeFacts DEF node_armed, armed
<1> HIDE DEF ct, q
<1> QED  BY <1>1, <1>2, <1>3, <1>4, <1>5, <1>6, NodeAssigned

\* The session of a node is reset while no ciphertext is queued.
LEMMA ResetPreserves ==
  ASSUME NodeTypeOK, NodeSafe, NEW n \in Node, NEW q \in TxQueues,
         ns' = [ns EXCEPT ![n] = session_init], getpk' = [getpk EXCEPT ![n] = FALSE],
         node_ct' = [node_ct EXCEPT ![n] = NoSecret], nq' = [nq EXCEPT ![n] = q],
         CountIsExact(q), \A p \in queued(q) : p.kind # "CT",
         nrx' \in [Node -> NodeSlot], metrics_pending' \in [Node -> BOOLEAN],
         UNCHANGED attempts, prng' \in [Node -> Nat]
  PROVE  NodeTypeOK' /\ NodeSafe'
<1> DEFINE s == session_init
<1>1. /\ s \in Session /\ s.state = "IDLE" /\ s.established = FALSE
      /\ s.pending_msg_type = "NONE" /\ s.waiting_response = FALSE
  BY InitSession
<1> HIDE DEF s
<1>2. node_armed(s) /\ CtsAreCurrent(q, s)
  BY <1>1 DEF node_armed, armed, CtsAreCurrent
<1>3. FlagIs(n, s.pending_msg_type = "GETPK")
  BY <1>1, Flag DEF FlagIs
<1>4. attempts' \in [Node -> Nat] /\ prng' \in [Node -> Nat]
  BY DEF NodeTypeOK
<1>5. /\ ns' = [ns EXCEPT ![n] = s] /\ NoSecret \in Secret
      /\ NoSecret = (IF s.state = "WAIT_ACK" THEN s.ss ELSE NoSecret)
  BY <1>1, Zeros DEF s
<1> DEFINE ct == NoSecret
<1>6. ct \in Secret /\ node_ct' = [node_ct EXCEPT ![n] = ct]
      /\ ct = (IF s.state = "WAIT_ACK" THEN s.ss ELSE NoSecret)
  BY <1>5
<1> HIDE DEF ct
<1> QED  BY <1>1, <1>2, <1>3, <1>4, <1>5, <1>6, NodeAssigned

\* A node gives up.  It does so only when its queue is empty, which is what keeps
\* fragments of the wiped ciphertext from being sent later.
LEMMA RetryExhaustedPreserves ==
  ASSUME NodeTypeOK, NodeSafe, NEW n \in Node, NodeRetryExhausted(n),
         UNCHANGED <<metrics_pending, attempts, prng>>
  PROVE  NodeTypeOK' /\ NodeSafe'
<1> DEFINE q == nq[n]
<1>1. /\ ns' = [ns EXCEPT ![n] = session_init] /\ getpk' = [getpk EXCEPT ![n] = FALSE]
      /\ node_ct' = [node_ct EXCEPT ![n] = NoSecret] /\ nq' = nq
      /\ nrx' = [nrx EXCEPT ![n] = FreeSlot(Nobody)] /\ ~pqc_tx_has_pending(q)
  BY InitSession DEF NodeRetryExhausted, node_fail_reset
<1>2. q \in TxQueues /\ CountIsExact(q) /\ nq' = [nq EXCEPT ![n] = q]
  BY <1>1, NodeFacts, Kept
<1> HIDE DEF q
<1>3. \A p \in queued(q) : p.kind # "CT"
  BY <1>1, <1>2, NothingPending DEF TxQueues
<1>4. /\ nrx' \in [Node -> NodeSlot] /\ metrics_pending' \in [Node -> BOOLEAN]
      /\ prng' \in [Node -> Nat]
  BY <1>1, NodeSlotFreed DEF NodeTypeOK
<1> QED  BY <1>1, <1>2, <1>3, <1>4, ResetPreserves

\* A failed handshake is reset; its session has no ciphertext queued.
LEMMA FailResetPreserves ==
  ASSUME NodeTypeOK, NodeSafe, NEW n \in Node, NodeFailReset(n)
  PROVE  NodeTypeOK' /\ NodeSafe'
<1> DEFINE q == nq[n]
<1>1. /\ ns' = [ns EXCEPT ![n] = session_init] /\ getpk' = [getpk EXCEPT ![n] = FALSE]
      /\ UNCHANGED <<node_ct, nrx, nq, metrics_pending, attempts, prng>> /\ ns[n].state = "FAILED"
  BY InitSession DEF NodeFailReset, node_fail_reset, session_is_failed
<1>2. q \in TxQueues /\ CountIsExact(q) /\ nq' = [nq EXCEPT ![n] = q]
  BY <1>1, NodeFacts, Kept
<1>3. \A p \in queued(q) : p.kind # "CT"
  BY <1>1, NodeFacts DEF CtsAreCurrent
<1>4. /\ nrx' \in [Node -> NodeSlot] /\ metrics_pending' \in [Node -> BOOLEAN]
      /\ prng' \in [Node -> Nat]
  BY <1>1 DEF NodeTypeOK
<1>5. node_ct' = [node_ct EXCEPT ![n] = NoSecret]
  BY <1>1, NodeFacts, Kept
<1> HIDE DEF q
<1> QED  BY <1>1, <1>2, <1>3, <1>4, <1>5, ResetPreserves

\* A node restarts with empty memory.
LEMMA NodeRebootPreserves ==
  ASSUME NodeTypeOK, NodeSafe, NEW n \in Node, NodeReboot(n)
  PROVE  NodeTypeOK' /\ NodeSafe'
<1> DEFINE q == pqc_tx_init
<1>1. /\ ns' = [ns EXCEPT ![n] = session_init] /\ getpk' = [getpk EXCEPT ![n] = FALSE]
      /\ node_ct' = [node_ct EXCEPT ![n] = NoSecret] /\ nq' = [nq EXCEPT ![n] = q]
      /\ nrx' = [nrx EXCEPT ![n] = FreeSlot(Nobody)] /\ UNCHANGED attempts
      /\ metrics_pending' = [metrics_pending EXCEPT ![n] = FALSE]
      /\ prng' = [prng EXCEPT ![n] = 0]
  BY DEF NodeReboot
<1>2. nrx' \in [Node -> NodeSlot]
  BY <1>1, NodeSlotFreed
<1>3. metrics_pending' \in [Node -> BOOLEAN]
  BY <1>1, Zenon DEF NodeTypeOK
<1>4. prng' \in [Node -> Nat]
  BY <1>1 DEF NodeTypeOK
<1>5. q \in TxQueues /\ CountIsExact(q) /\ queued(q) = {}
  BY InitQueue, InitCounts DEF TxQueues
<1> HIDE DEF q
<1> QED  BY <1>1, <1>2, <1>3, <1>4, <1>5, ResetPreserves

\* A receive slot of a node times out.
LEMMA RxTimeoutPreserves ==
  ASSUME NodeTypeOK, NodeSafe, NEW n \in Node, NodeRxTimeout(n)
  PROVE  NodeTypeOK' /\ NodeSafe'
<1>1. nrx' \in [Node -> NodeSlot]
  BY NodeSlotFreed DEF NodeRxTimeout
<1>2. UNCHANGED <<ns, getpk, node_ct, nq, metrics_pending, attempts, prng>>
  BY DEF NodeRxTimeout
<1> QED  BY <1>1, <1>2 DEF NodeTypeOK, NodeSafe

\* The pending message again: the queue is empty, so it fits, and a ciphertext is
\* that of the session.
LEMMA RetrySendPreserves ==
  ASSUME NodeTypeOK, NodeSafe, NEW n \in Node, NodeRetrySend(n),
         UNCHANGED <<metrics_pending, attempts, prng>>
  PROVE  NodeTypeOK' /\ NodeSafe'
<1> DEFINE s  == hs_mark_retry(ns[n])
           ct == node_ct[n]
           q  == nq[n]
           id == ns[n].pending_msg_id
           fs == FragIdx("CT")
           p  == GETPK(n)
           ps == ct_fragments(n, id, fs, ct)
           q1 == pqc_udp_send_fragment(q, p)
           q2 == pqc_udp_send_all(q, ps)
<1>1. /\ ns' = [ns EXCEPT ![n] = s] /\ UNCHANGED <<getpk, node_ct>>
      /\ nrx' = [nrx EXCEPT ![n] = FreeSlot(Nobody)]
      /\ ~pqc_tx_has_pending(q) /\ session_can_retry(ns[n])
      /\ \/ nq' = [nq EXCEPT ![n] = q1]
         \/ ns[n].pending_msg_type = "CT" /\ nq' = [nq EXCEPT ![n] = q2]
  BY DEF NodeRetrySend
<1>2. /\ s \in Session /\ s.state = ns[n].state /\ s.established = ns[n].established
      /\ s.ss = ns[n].ss /\ s.pending_msg_type = ns[n].pending_msg_type
      /\ s.waiting_response = ns[n].waiting_response
  BY <1>1, NodeFacts, MarkRetry
<1> HIDE DEF s
<1>3. /\ q \in TxQueues /\ ct \in Secret /\ id \in MsgId
      /\ node_ct' = [node_ct EXCEPT ![n] = ct]
      /\ ct = (IF s.state = "WAIT_ACK" THEN s.ss ELSE NoSecret)
      /\ CountIsExact(q)
  BY <1>1, <1>2, NodeFacts, Kept DEF Session
<1>4. FlagIs(n, s.pending_msg_type = "GETPK")
  BY <1>1, <1>2, NodeFacts, Flag DEF FlagIs
<1>5. /\ nrx' \in [Node -> NodeSlot] /\ metrics_pending' \in [Node -> BOOLEAN]
      /\ attempts' \in [Node -> Nat] /\ prng' \in [Node -> Nat]
  BY <1>1, NodeSlotFreed DEF NodeTypeOK
<1>6. node_armed(s) /\ (ns[n].pending_msg_type = "CT" => s.state = "WAIT_ACK")
  BY <1>2, NodeFacts DEF node_armed, armed
<1>7. p \in Packet /\ p.kind = "GETPK"
  BY PacketTypes DEF GETPK
<1>8. /\ fs \in SUBSET Frags /\ Cardinality(fs) = CtFrags
  BY WholeMessage
<1> HIDE DEF ct, q, id, fs, p
<1>9. /\ ps \in Seq(Packet) /\ Len(ps) = CtFrags
      /\ \A k \in 1 .. Len(ps) : ps[k].kind = "CT" /\ ps[k].ct = ct
  BY <1>3, <1>8, CtFragments
<1> HIDE DEF ps
<1>10. queued(q) = {} /\ pqc_tx_free_slots(q) = PQC_TX_QUEUE_SIZE
  BY <1>1, <1>3, NothingPending DEF TxQueues
<1>11. pqc_tx_free_slots(q) > 0 /\ Len(ps) <= pqc_tx_free_slots(q)
  BY <1>9, <1>10, TxQueueAssumption, SizeAssumption
<1>12. q1 \in TxQueues /\ CountIsExact(q1) /\ queued(q1) \subseteq queued(q) \cup {p}
  BY <1>3, <1>7, <1>11, QueuedOne
<1>13. /\ q2 \in TxQueues /\ CountIsExact(q2)
       /\ queued(q2) \subseteq queued(q) \cup {ps[k] : k \in 1 .. Len(ps)}
  BY <1>3, <1>9, <1>11, Queued
<1> HIDE DEF q1, q2
<1>14. CtsAreCurrent(q1, s) /\ (ns[n].pending_msg_type = "CT" => CtsAreCurrent(q2, s))
  BY <1>3, <1>6, <1>7, <1>9, <1>10, <1>12, <1>13 DEF CtsAreCurrent
<1>15. CASE nq' = [nq EXCEPT ![n] = q1]
  BY <1>1, <1>2, <1>3, <1>4, <1>5, <1>6, <1>12, <1>14, <1>15, NodeAssigned
<1>16. CASE ns[n].pending_msg_type = "CT" /\ nq' = [nq EXCEPT ![n] = q2]
  BY <1>1, <1>2, <1>3, <1>4, <1>5, <1>6, <1>13, <1>14, <1>16, NodeAssigned
<1> QED  BY <1>1, <1>15, <1>16

\* Every step of a node keeps the types and its invariants, and does not touch the
\* root.
LEMMA NodeStepPreserves ==
  ASSUME TypeOK, NodeSafe, NEW n \in Node, NodeStep(n)
  PROVE  TypeOK' /\ NodeSafe' /\ UNCHANGED rootVars
<1>1. NodeTypeOK /\ RootTypeOK /\ NetTypeOK
  BY DEF TypeOK
<1>2. UNCHANGED rootVars
  BY DEF NodeStep, NodeRequestPk, NodeTx, NodeRecv, NodeRetry, NodeFailReset, NodeRxTimeout,
         NodeReboot
<1>3. RootTypeOK'
  BY <1>1, <1>2 DEF RootTypeOK, rootVars
<1>4. CASE NodeRequestPk(n)
  <2>1. NetTypeOK'
    BY <1>1, <1>4 DEF NodeRequestPk, netVars, NetTypeOK
  <2> QED  BY <1>1, <1>2, <1>3, <1>4, <2>1, RequestPkPreserves DEF TypeOK
<1>5. CASE NodeTx(n)
  <2>1. NodeTypeOK' /\ NodeSafe' /\ pqc_tx_next(nq[n]) \in Packet
    BY <1>1, <1>5, NodeTxPreserves
  <2>2. NetTypeOK'
    BY <1>1, <1>5, <2>1, SendUp DEF NodeTx
  <2> QED  BY <1>2, <1>3, <2>1, <2>2 DEF TypeOK
<1>6. CASE NodeRecv(n)
  <2>1. PICK i \in DOMAIN down[n] :
          /\ udp_deliver(down, n, i)
          /\ \/ NodeRecvIgnored(n, down[n][i]) \/ NodeRecvNack(n, down[n][i])
             \/ NodeRecvPkPart(n, down[n][i]) \/ NodeRecvPkComplete(n, down[n][i])
             \/ NodeRecvAck(n, down[n][i])
    BY <1>6 DEF NodeRecv
  <2>2. NetTypeOK' /\ down[n][i] \in Packet
    BY <1>1, <1>6, <2>1, DeliverDown DEF NodeRecv
  <2>3. NodeTypeOK' /\ NodeSafe'
    <3> DEFINE p == down[n][i]
    <3>1. /\ p \in Packet
          /\ \/ NodeRecvIgnored(n, p) \/ NodeRecvNack(n, p) \/ NodeRecvPkPart(n, p)
             \/ NodeRecvPkComplete(n, p) \/ NodeRecvAck(n, p)
      BY <2>1, <2>2
    <3> HIDE DEF p
    <3> QED  BY <1>1, <3>1, RecvIgnoredPreserves, RecvNackPreserves, RecvPkPartPreserves,
                RecvPkCompletePreserves, RecvAckPreserves
  <2> QED  BY <1>2, <1>3, <2>2, <2>3 DEF TypeOK
<1>7. CASE NodeRetry(n)
  <2>1. NetTypeOK'
    BY <1>1, <1>7, Timeouts DEF NodeRetry
  <2>2. NodeTypeOK' /\ NodeSafe'
    BY <1>1, <1>7, RetryPostponedPreserves, RetryExhaustedPreserves, RetrySendPreserves
       DEF NodeRetry
  <2> QED  BY <1>2, <1>3, <2>1, <2>2 DEF TypeOK
<1>8. CASE NodeFailReset(n)
  <2>1. NetTypeOK'
    BY <1>1, <1>8 DEF NodeFailReset, netVars, NetTypeOK
  <2> QED  BY <1>1, <1>2, <1>3, <1>8, <2>1, FailResetPreserves DEF TypeOK
<1>9. CASE NodeRxTimeout(n)
  <2>1. NetTypeOK'
    BY <1>1, <1>9, Timeouts DEF NodeRxTimeout
  <2> QED  BY <1>1, <1>2, <1>3, <1>9, <2>1, RxTimeoutPreserves DEF TypeOK
<1>10. CASE NodeReboot(n)
  <2>1. NetTypeOK'
    BY <1>1, <1>10, SpendFault DEF NodeReboot, NetTypeOK
  <2> QED  BY <1>1, <1>2, <1>3, <1>10, <2>1, NodeRebootPreserves DEF TypeOK
<1> QED  BY <1>4, <1>5, <1>6, <1>7, <1>8, <1>9, <1>10 DEF NodeStep
=============================================================================
