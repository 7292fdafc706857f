----------------------------- MODULE RootProofs -----------------------------
(***************************************************************************)
(* The invariants of the root: every action of the root preserves them,    *)
(* whatever packet it gets and from whichever node.                        *)
(***************************************************************************)
EXTENDS NodeProofs

\* A queued packet that fits the session s of its node.
Belongs(p, s) ==
  \/ p.kind = "PK" /\ s.pending_msg_type = "PK" /\ p.msg_id = s.pending_msg_id
  \/ p.kind = "NACK" /\ (s.pending_msg_type = "CT" \/ s.state \in {"ESTABLISHED", "FAILED"})
  \/ p.kind = "ACK" /\ s.state = "ESTABLISHED"

\* The conjunction of the invariants about the root.
RootSafe ==
  /\ \A n \in Node : root_armed(rs[n])
  /\ CountIsExact(rq)
  /\ RootQueueMatchesSession
  /\ ImpactWindowIsOpen

\* What the invariants say of the session of one node.
LEMMA RootFacts ==
  ASSUME RootTypeOK, RootSafe, NEW n \in Node
  PROVE  /\ rs[n] \in Session /\ root_armed(rs[n])
         /\ rq \in TxQueues /\ CountIsExact(rq) /\ pqc_tx_free_slots(rq) \in Nat
         /\ \A p \in queued(rq) : p \in Packet /\ (p.node = n => Belongs(p, rs[n]))
         /\ impact = n => rs[n].state \in {"WAIT_CT", "FAILED"}
<1>1. rs[n] \in Session /\ rq \in TxQueues
  BY DEF RootTypeOK
<1>2. root_armed(rs[n]) /\ CountIsExact(rq)
  BY DEF RootSafe
<1>3. pqc_tx_free_slots(rq) \in Nat
  BY <1>1, <1>2, FreeSlots DEF TxQueues
<1>4. ASSUME NEW p \in queued(rq) PROVE p \in Packet
  BY <1>1 DEF queued, active, TxQueues, Queues
<1>5. ASSUME NEW p \in queued(rq), p.node = n PROVE Belongs(p, rs[n])
  BY <1>5 DEF RootSafe, RootQueueMatchesSession, Belongs
<1>6. impact = n => rs[n].state \in {"WAIT_CT", "FAILED"}
  BY DEF RootSafe, ImpactWindowIsOpen
<1> QED  BY <1>1, <1>2, <1>3, <1>4, <1>5, <1>6

\* A step of the root for node n: it is enough to look at the session of n, at
\* what is queued for n and at whose impact window is open.
LEMMA RootAssigned ==
  ASSUME RootTypeOK, RootSafe, NEW n \in Node, NEW s \in Session, NEW q \in TxQueues,
         rs' = [rs EXCEPT ![n] = s], rq' = q,
         rx_slots' \in [1 .. RxSlots -> RootSlot],
         root_armed(s), CountIsExact(q),
         \A p \in queued(q) : (p.node = n /\ Belongs(p, s)) \/ (p.node # n /\ p \in queued(rq)),
         \/ impact' = impact /\ (impact = n => s.state \in {"WAIT_CT", "FAILED"})
         \/ impact' = n /\ s.state \in {"WAIT_CT", "FAILED"}
         \/ impact' = Nobody
  PROVE  RootTypeOK' /\ RootSafe'
<1>1. /\ rs' \in [Node -> Session] /\ rs'[n] = s
      /\ \A m \in Node \ {n} : rs'[m] = rs[m]
  BY DEF RootTypeOK
<1>2. RootTypeOK'
  BY <1>1 DEF RootTypeOK
<1>3. \A m \in Node : root_armed(rs'[m])
  BY <1>1 DEF RootSafe
<1>4. RootQueueMatchesSession'
  <2> SUFFICES ASSUME NEW p \in queued(q)
               PROVE  LET t == rs'[p.node] IN
                 \/ p.kind = "PK" /\ t.pending_msg_type = "PK" /\ p.msg_id = t.pending_msg_id
                 \/ p.kind = "NACK" /\ (t.pending_msg_type = "CT" \/ t.state \in {"ESTABLISHED", "FAILED"})
                 \/ p.kind = "ACK" /\ t.state = "ESTABLISHED"
    BY DEF RootQueueMatchesSession
  <2>1. p \in Packet
    BY DEF queued, active, TxQueues, Queues
  <2>2. p.node \in Node
    BY <2>1, PacketFields
  <2>3. CASE p.node = n /\ Belongs(p, s)
    BY <1>1, <2>3 DEF Belongs
  <2>4. CASE p.node # n /\ p \in queued(rq)
    BY <1>1, <2>2, <2>4 DEF RootSafe, RootQueueMatchesSession
  <2> QED  BY <2>3, <2>4
<1>5. ImpactWindowIsOpen'
  BY <1>1, NodeAssumption DEF RootSafe, ImpactWindowIsOpen
<1> QED  BY <1>2, <1>3, <1>4, <1>5 DEF RootSafe

\* Leaving the session of n as it is.
LEMMA RootKept ==
  ASSUME RootTypeOK, NEW n \in Node
  PROVE  rs = [rs EXCEPT ![n] = rs[n]]
BY DEF RootTypeOK

\* The slots of the root stay well-formed when one is released.
LEMMA RootSlotFreed ==
  ASSUME RootTypeOK, NEW i \in 1 .. RxSlots
  PROVE  [rx_slots EXCEPT ![i] = FreeSlot(Nobody)] \in [1 .. RxSlots -> RootSlot]
<1>1. FreeSlot(Nobody) \in RootSlot
  BY FreeSlotType, Zeros DEF RootSlot
<1> QED  BY <1>1 DEF RootTypeOK

\* rx_slot_get and rx_slot_release look only at slots that exist.
LEMMA OwnedSlots ==
  ASSUME RootTypeOK, NEW n
  PROVE  /\ owned(rx_slots, n) # {} => first_of(owned(rx_slots, n)) \in 1 .. RxSlots
         /\ slot_for(rx_slots, n) \subseteq 1 .. RxSlots
         /\ released(rx_slots, n) \in [1 .. RxSlots -> RootSlot]
<1>1. ASSUME NEW m
      PROVE  owned(rx_slots, m) # {} => first_of(owned(rx_slots, m)) \in 1 .. RxSlots
  <2> DEFINE S == owned(rx_slots, m)
  <2>1. S \in SUBSET (1 .. RxSlots)
    BY DEF owned, RootTypeOK
  <2>2. S \in SUBSET Nat
    BY <2>1, SizeAssumption
  <2> HIDE DEF S
  <2>3. S # {} => first_of(S) \in S
    BY <2>2, FirstOfIsIn
  <2>4. S # {} => first_of(S) \in 1 .. RxSlots
    BY <2>1, <2>3
  <2> QED  BY <2>4 DEF S
<1>2. slot_for(rx_slots, n) \subseteq 1 .. RxSlots
  BY <1>1 DEF slot_for
<1>3. released(rx_slots, n) \in [1 .. RxSlots -> RootSlot]
  <2>1. CASE owned(rx_slots, n) = {}
    BY <2>1 DEF released, RootTypeOK
  <2>2. CASE owned(rx_slots, n) # {}
    <3> DEFINE i == first_of(owned(rx_slots, n))
    <3>1. i \in 1 .. RxSlots /\ released(rx_slots, n) = [rx_slots EXCEPT ![i] = FreeSlot(Nobody)]
      BY <1>1, <2>2 DEF released
    <3> HIDE DEF i
    <3> QED  BY <3>1, RootSlotFreed
  <2> QED  BY <2>1, <2>2
<1> QED  BY <1>1, <1>2, <1>3

\* The session session_manager_get_or_create returns.
LEMMA RootSession ==
  ASSUME RootTypeOK, RootSafe, NEW n \in Node
  PROVE  /\ root_session(n) \in Session /\ root_armed(root_session(n))
         /\ \A p \in queued(rq) : p.node = n => Belongs(p, root_session(n))
         /\ impact = n => root_session(n).state \in {"WAIT_CT", "FAILED"}
<1> DEFINE s == root_session(n)
<1>1. CASE rs[n].state = "UNUSED"
  <2>1. s = session_init
    BY <1>1 DEF root_session
  <2>2. /\ s \in Session /\ s.state = "IDLE" /\ s.established = FALSE
        /\ s.pending_msg_type = "NONE" /\ s.waiting_response = FALSE
    BY <2>1, InitSession
  <2> HIDE DEF s
  <2>3. root_armed(s)
    BY <2>2 DEF root_armed, armed
  <2>4. \A p \in queued(rq) : p.node # n
    BY <1>1, RootFacts DEF Belongs, root_armed
  <2>5. impact # n
    BY <1>1, RootFacts
  <2> QED  BY <2>2, <2>3, <2>4, <2>5 DEF s
<1>2. CASE rs[n].state # "UNUSED"
  <2>1. s = rs[n]
    BY <1>2 DEF root_session
  <2> QED  BY <2>1, RootFacts
<1> QED  BY <1>1, <1>2

-----------------------------------------------------------------------------
\* GETPK: what was queued for the node is gone before its new PK is queued.
LEMMA RecvGetpkPreserves ==
  ASSUME RootTypeOK, RootSafe, NEW n \in Node, NEW p \in Packet, RootRecvGetpk(n, p)
  PROVE  RootTypeOK' /\ RootSafe'
<1> DEFINE idle == root_session(n).state = "IDLE"
           s    == IF idle THEN root_session(n) ELSE session_reset
           q    == IF idle THEN rq ELSE pqc_tx_drop_node(rq, n)
           id   == s.next_msg_id
           fs   == FragIdx("PK")
           s1   == session_next_msg_id(s)
           s2   == session_set_state(s1, "WAIT_CT")
           s3   == session_set_pending(s2, "PK", id)
           ps   == pk_fragments(n, id, fs)
           q2   == pqc_udp_send_all(q, ps)
<1>1. /\ UNCHANGED rx_slots
      /\ \/ /\ rs' = [rs EXCEPT ![n] = s] /\ rq' = q /\ impact' = impact_end(n, impact_start(n))
         \/ /\ ~(pqc_tx_free_slots(q) < PkFrags)
            /\ rs' = [rs EXCEPT ![n] = s3] /\ rq' = q2 /\ impact' = impact_start(n)
  BY DEF RootRecvGetpk
<1>2. rx_slots' \in [1 .. RxSlots -> RootSlot]
  BY <1>1 DEF RootTypeOK
<1>3. s \in Session /\ s.state = "IDLE" /\ root_armed(s)
  <2>1. CASE idle
    BY <2>1, RootSession
  <2>2. CASE ~idle
    <3>1. s = session_init
      BY <2>2, InitSession
    <3>2. /\ s \in Session /\ s.state = "IDLE" /\ s.established = FALSE
          /\ s.pending_msg_type = "NONE" /\ s.waiting_response = FALSE
      BY <3>1, InitSession
    <3> HIDE DEF s
    <3> QED  BY <3>2 DEF root_armed, armed
  <2> QED  BY <2>1, <2>2
<1>4. q \in TxQueues /\ CountIsExact(q) /\ \A x \in queued(q) : x.node # n /\ x \in queued(rq)
  <2>1. CASE idle
    BY <2>1, RootSession, RootFacts DEF Belongs, root_armed
  <2>2. CASE ~idle
    <3>1. q = pqc_tx_drop_node(rq, n)
      BY <2>2
    <3>2. q \in TxQueues /\ queued(q) = {x \in queued(rq) : x.node # n}
      BY <3>1, RootFacts, DropNodeQueue DEF TxQueues
    <3>3. CountIsExact(q)
      BY <3>1, RootFacts, DropCounts DEF TxQueues
    <3> QED  BY <3>2, <3>3
  <2> QED  BY <2>1, <2>2
<1>5. id \in MsgId /\ s.established = FALSE
  <2> HIDE DEF s
  <2> QED  BY <1>3 DEF Session, root_armed, armed
<1>6. fs \in SUBSET Frags /\ Cardinality(fs) = PkFrags
  BY WholeMessage
<1> HIDE DEF s, q, fs
<1>7. /\ s3 \in Session /\ s3.state = "WAIT_CT" /\ s3.established = FALSE
      /\ s3.pending_msg_type = "PK" /\ s3.pending_msg_id = id /\ s3.waiting_response = TRUE
  <2>1. s1 \in Session /\ s1.established = FALSE
    BY <1>3, <1>5, NextMsgId
  <2> HIDE DEF s1, id
  <2>2. s2 \in Session /\ s2.state = "WAIT_CT" /\ s2.established = FALSE
    BY <2>1, SetState DEF States
  <2> HIDE DEF s2
  <2>3. id \in MsgId
    BY <1>5 DEF id
  <2> QED  BY <2>2, <2>3, PendingPk
<1> HIDE DEF s3, id
<1>8. /\ ps \in Seq(Packet) /\ Len(ps) = PkFrags
      /\ \A k \in 1 .. Len(ps) :
           ps[k].kind = "PK" /\ ps[k].node = n /\ ps[k].msg_id = id
  BY <1>5, <1>6, PkFragments
<1> HIDE DEF ps
<1>9. CASE /\ rs' = [rs EXCEPT ![n] = s] /\ rq' = q /\ impact' = impact_end(n, impact_start(n))
  <2>1. impact' = Nobody \/ (impact' = impact /\ impact # n)
    BY <1>9 DEF impact_end, impact_start
  <2> QED  BY <1>1, <1>2, <1>3, <1>4, <1>9, <2>1, RootAssigned
<1>10. CASE /\ ~(pqc_tx_free_slots(q) < PkFrags)
            /\ rs' = [rs EXCEPT ![n] = s3] /\ rq' = q2 /\ impact' = impact_start(n)
  <2>1. Len(ps) <= pqc_tx_free_slots(q)
    <3>1. pqc_tx_free_slots(q) \in Nat
      BY <1>4, FreeSlots DEF TxQueues
    <3> QED  BY <1>8, <1>10, <3>1, FragsAssumption
  <2>2. /\ q2 \in TxQueues /\ CountIsExact(q2)
        /\ queued(q2) \subseteq queued(q) \cup {ps[k] : k \in 1 .. Len(ps)}
    BY <1>4, <1>8, <2>1, Queued
  <2> HIDE DEF q2
  <2>3. \A x \in queued(q2) : (x.node = n /\ Belongs(x, s3)) \/ (x.node # n /\ x \in queued(rq))
    BY <1>4, <1>7, <1>8, <2>2 DEF Belongs
  <2>4. impact' = n \/ impact' = impact
    BY <1>10 DEF impact_start
  <2>5. root_armed(s3)
    BY <1>7 DEF root_armed, armed
  <2> QED  BY <1>1, <1>2, <1>7, <1>10, <2>2, <2>3, <2>4, <2>5, RootAssigned
<1> QED  BY <1>1, <1>9, <1>10

\* send_ack for an established session.
LEMMA Acknowledge ==
  ASSUME NEW n \in Node, NEW id \in MsgId, NEW q \in TxQueues, CountIsExact(q), NEW s \in Session
  PROVE  /\ ack_queue(n, q, id) \in TxQueues /\ CountIsExact(ack_queue(n, q, id))
         /\ \A p \in queued(ack_queue(n, q, id)) :
              p \in queued(q) \/ (p.kind = "ACK" /\ p.node = n)
         /\ LET r == ack_session(s, q) IN
            /\ r \in Session /\ r.state = s.state /\ r.established = s.established /\ r.ss = s.ss
            /\ r.pending_msg_type = s.pending_msg_type /\ r.pending_msg_id = s.pending_msg_id
            /\ r.waiting_response = s.waiting_response
<1> DEFINE p == ACK(n, id)
<1>1. p \in Packet /\ p.kind = "ACK" /\ p.node = n
  BY PacketTypes DEF ACK
<1> HIDE DEF p
<1>2. CASE pqc_tx_free_slots(q) > 0
  <2>1. ack_queue(n, q, id) = pqc_udp_send_fragment(q, p) /\ ack_session(s, q) = session_next_msg_id(s)
    BY <1>2 DEF ack_queue, ack_session, p
  <2>2. /\ pqc_udp_send_fragment(q, p) \in TxQueues /\ CountIsExact(pqc_udp_send_fragment(q, p))
        /\ queued(pqc_udp_send_fragment(q, p)) \subseteq queued(q) \cup {p}
    BY <1>1, <1>2, QueuedOne
  <2> QED  BY <1>1, <2>1, <2>2, NextMsgId
<1>3. CASE ~(pqc_tx_free_slots(q) > 0)
  BY <1>3 DEF ack_queue, ack_session
<1> QED  BY <1>2, <1>3

\* A CT fragment for an established session is at most acknowledged again.
LEMMA RecvCtDuplicatePreserves ==
  ASSUME RootTypeOK, RootSafe, NEW n \in Node, NEW p \in Packet, RootRecvCtDuplicate(n, p)
  PROVE  RootTypeOK' /\ RootSafe'
<1> DEFINE edge == p.frag = 0 \/ p.frag + 1 = CtFrags
           id   == p.msg_id
           s    == IF edge THEN ack_session(rs[n], rq) ELSE rs[n]
           q    == IF edge THEN ack_queue(n, rq, id) ELSE rq
<1>1. /\ rs' = [rs EXCEPT ![n] = s] /\ rq' = q /\ UNCHANGED <<rx_slots, impact>>
      /\ rs[n].state = "ESTABLISHED" /\ id \in MsgId
  BY DEF RootRecvCtDuplicate, session_is_established, Packet
<1>2. /\ q \in TxQueues /\ CountIsExact(q)
      /\ \A x \in queued(q) : x \in queued(rq) \/ (x.kind = "ACK" /\ x.node = n)
      /\ s \in Session /\ s.state = rs[n].state /\ s.established = rs[n].established
      /\ s.pending_msg_type = rs[n].pending_msg_type /\ s.pending_msg_id = rs[n].pending_msg_id
      /\ s.waiting_response = rs[n].waiting_response
  <2> HIDE DEF edge, id
  <2> QED  BY <1>1, RootFacts, Acknowledge
<1> HIDE DEF s, q
<1>3. root_armed(s)
  BY <1>2, RootFacts DEF root_armed, armed
<1>4. \A x \in queued(q) : (x.node = n /\ Belongs(x, s)) \/ (x.node # n /\ x \in queued(rq))
  BY <1>1, <1>2, RootFacts DEF Belongs
<1>5. rx_slots' \in [1 .. RxSlots -> RootSlot]
  BY <1>1 DEF RootTypeOK
<1>6. impact = n => s.state \in {"WAIT_CT", "FAILED"}
  BY <1>2, RootFacts
<1> QED  BY <1>1, <1>2, <1>3, <1>4, <1>5, <1>6, RootAssigned

\* A CT fragment nobody waits for at most creates a session.
LEMMA RecvCtUnexpectedPreserves ==
  ASSUME RootTypeOK, RootSafe, NEW n \in Node, NEW p \in Packet, RootRecvCtUnexpected(n, p)
  PROVE  RootTypeOK' /\ RootSafe'
<1> DEFINE s == root_session(n)
           q == rq
<1>1. rs' = [rs EXCEPT ![n] = s] /\ rq' = q /\ UNCHANGED <<rx_slots, impact>>
  BY DEF RootRecvCtUnexpected
<1>2. /\ s \in Session /\ root_armed(s) /\ q \in TxQueues /\ CountIsExact(q)
      /\ \A x \in queued(q) : (x.node = n /\ Belongs(x, s)) \/ (x.node # n /\ x \in queued(rq))
      /\ impact = n => s.state \in {"WAIT_CT", "FAILED"}
  BY RootSession, RootFacts
<1>3. rx_slots' \in [1 .. RxSlots -> RootSlot]
  BY <1>1 DEF RootTypeOK
<1> HIDE DEF s
<1> QED  BY <1>1, <1>2, <1>3, RootAssigned

\* What the first CT fragment does: the PK is no longer pending, and nothing of it
\* is queued any more.
LEMMA CtBegins ==
  ASSUME RootTypeOK, RootSafe, NEW n \in Node, NEW p \in Packet,
         p.kind = "CT", rs[n].state = "WAIT_CT"
  PROVE  /\ ct_session(n, p) \in Session /\ root_armed(ct_session(n, p))
         /\ ct_session(n, p).state = "WAIT_CT" /\ ct_session(n, p).pending_msg_type = "CT"
         /\ ct_queue(n) \in TxQueues /\ CountIsExact(ct_queue(n))
         /\ pqc_tx_free_slots(ct_queue(n)) \in Nat
         /\ \A x \in queued(ct_queue(n)) : \/ x.node = n /\ x.kind = "NACK"
                                           \/ x.node # n /\ x \in queued(rq)
         /\ p.msg_id \in MsgId /\ p.frag \in Nat /\ p.ct \in Secret
<1> DEFINE id == p.msg_id
           s  == ct_session(n, p)
           q  == ct_queue(n)
<1>1. p.msg_id \in MsgId /\ p.frag \in Nat /\ p.ct \in Secret
  BY DEF Packet
<1>2. rs[n].pending_msg_type \in {"PK", "CT"}
  BY RootFacts DEF root_armed
<1>3. /\ s \in Session /\ root_armed(s) /\ s.state = "WAIT_CT" /\ s.pending_msg_type = "CT"
      /\ q \in TxQueues /\ CountIsExact(q)
      /\ \A x \in queued(q) : (x.node = n /\ x.kind = "NACK") \/ (x.node # n /\ x \in queued(rq))
  <2>1. CASE rs[n].pending_msg_type = "PK"
    <3>1. s = session_set_pending(rs[n], "CT", id) /\ q = pqc_tx_drop(rq, n, "PK", rs[n].pending_msg_id)
      BY <2>1 DEF ct_session, ct_queue
    <3> DEFINE old == rs[n].pending_msg_id
    <3> HIDE DEF s, q
    <3>2. q \in TxQueues /\ CountIsExact(q)
      <4>1. \A kind, x : CountIsExact(pqc_tx_drop(rq, n, kind, x))
        BY RootFacts, DropCounts DEF TxQueues
      <4> QED  BY <3>1, <4>1, RootFacts, DropQueue DEF TxQueues
    <3>3. queued(q) = {x \in queued(rq) : ~(x.node = n /\ x.kind = "PK" /\ x.msg_id = old)}
      BY <3>1, RootFacts, DropQueue DEF TxQueues
    <3>4. \A x \in queued(q) : x.node # n /\ x \in queued(rq)
      BY <2>1, <3>3, RootFacts DEF Belongs, root_armed
    <3>5. id \in MsgId
      BY <1>1
    <3> HIDE DEF id
    <3>6. /\ s \in Session /\ s.state = rs[n].state /\ s.established = rs[n].established
          /\ s.pending_msg_type = "CT" /\ s.waiting_response = TRUE
      <4>1. rs[n] \in Session
        BY RootFacts
      <4>2. LET r == session_set_pending(rs[n], "CT", id) IN
              /\ r \in Session /\ r.state = rs[n].state /\ r.established = rs[n].established
              /\ r.pending_msg_type = "CT" /\ r.waiting_response = TRUE
        BY <3>5, <4>1, PendingCt, Zenon
      <4> QED  BY <3>1, <4>2
    <3>7. root_armed(s)
      BY <3>6, RootFacts DEF root_armed, armed
    <3> QED  BY <3>2, <3>4, <3>6, <3>7
  <2>2. CASE rs[n].pending_msg_type = "CT"
    <3>1. s = rs[n] /\ q = rq
      BY <2>2 DEF ct_session, ct_queue
    <3> QED  BY <2>2, <3>1, RootFacts DEF Belongs
  <2> QED  BY <1>2, <2>1, <2>2
<1>4. pqc_tx_free_slots(q) \in Nat
  <2> HIDE DEF q
  <2> QED  BY <1>3, FreeSlots DEF TxQueues
<1> QED  BY <1>1, <1>3, <1>4

\* A CT fragment that no slot takes.
LEMMA RecvCtRefusedPreserves ==
  ASSUME RootTypeOK, RootSafe, NEW n \in Node, NEW p \in Packet, RootRecvCtRefused(n, p)
  PROVE  RootTypeOK' /\ RootSafe'
<1> DEFINE s == ct_session(n, p)
           q == ct_queue(n)
<1>1. /\ rs' = [rs EXCEPT ![n] = s] /\ rq' = q /\ UNCHANGED <<rx_slots, impact>>
      /\ p.kind = "CT" /\ rs[n].state = "WAIT_CT"
  BY DEF RootRecvCtRefused
<1>2. /\ s \in Session /\ root_armed(s) /\ s.state = "WAIT_CT" /\ s.pending_msg_type = "CT"
      /\ q \in TxQueues /\ CountIsExact(q)
      /\ \A x \in queued(q) : (x.node = n /\ x.kind = "NACK") \/ (x.node # n /\ x \in queued(rq))
  BY <1>1, CtBegins
<1> HIDE DEF s, q
<1>3. \A x \in queued(q) : (x.node = n /\ Belongs(x, s)) \/ (x.node # n /\ x \in queued(rq))
  BY <1>2 DEF Belongs
<1>4. rx_slots' \in [1 .. RxSlots -> RootSlot]
  BY <1>1 DEF RootTypeOK
<1> QED  BY <1>1, <1>2, <1>3, <1>4, RootAssigned

\* A NACK for the gaps of a CT.
LEMMA AskForCt ==
  ASSUME NEW n \in Node, NEW id \in MsgId, NEW slot \in RootSlot
  PROVE  LET p == NACK(n, "CT", id, missing(slot.ctx)) IN
         p \in Packet /\ p.kind = "NACK" /\ p.node = n
<1> DEFINE gaps == missing(slot.ctx)
<1>1. slot.ctx.msg_type \in {"NONE", "CT"}
  BY DEF RootSlot, RxSlot, RxContext
<1>2. gaps \in SUBSET Frags
  BY <1>1, MissingInMessage
<1> HIDE DEF gaps
<1>3. NACK(n, "CT", id, gaps) \in Packet
  BY <1>2, PacketTypes
<1> QED  BY <1>3 DEF NACK, gaps

\* A CT fragment that completes nothing, with or without a NACK for the gaps.
LEMMA RecvCtPartPreserves ==
  ASSUME RootTypeOK, RootSafe, NEW n \in Node, NEW p \in Packet, RootRecvCtPart(n, p)
  PROVE  RootTypeOK' /\ RootSafe'
<1> DEFINE s    == ct_session(n, p)
           q    == ct_queue(n)
           After(i) == slot_after(rx_slots[i], n, "CT", p.msg_id, p.frag, p.ct)
<1>1. /\ p.kind = "CT" /\ rs[n].state = "WAIT_CT" /\ UNCHANGED impact
  BY DEF RootRecvCtPart
<1>2. PICK i \in slot_for(rx_slots, n) :
        \/ /\ pqc_tx_free_slots(q) > 0
           /\ rx_slots' = [rx_slots EXCEPT ![i] = rx_slot_note_nack(After(i))]
           /\ rs' = [rs EXCEPT ![n] = retry_in(session_next_msg_id(s), "short")]
           /\ rq' = pqc_udp_send_fragment(q, NACK(n, "CT", p.msg_id, missing(After(i).ctx)))
        \/ rx_slots' = [rx_slots EXCEPT ![i] = After(i)] /\ rs' = [rs EXCEPT ![n] = s] /\ rq' = q
  BY DEF RootRecvCtPart
<1> DEFINE slot == After(i)
           id   == p.msg_id
           nack == NACK(n, "CT", id, missing(slot.ctx))
           s1   == session_next_msg_id(s)
           s2   == retry_in(s1, "short")
           q2   == pqc_udp_send_fragment(q, nack)
<1>3. /\ s \in Session /\ root_armed(s) /\ s.state = "WAIT_CT" /\ s.pending_msg_type = "CT"
      /\ q \in TxQueues /\ CountIsExact(q)
      /\ \A x \in queued(q) : (x.node = n /\ x.kind = "NACK") \/ (x.node # n /\ x \in queued(rq))
      /\ id \in MsgId /\ p.frag \in Nat /\ p.ct \in Secret
  BY <1>1, CtBegins
<1>4. slot \in RootSlot /\ rx_slot_note_nack(slot) \in RootSlot /\ i \in 1 .. RxSlots
  <2>1. i \in 1 .. RxSlots
    BY OwnedSlots
  <2>2. rx_slots[i] \in RootSlot
    BY <2>1 DEF RootTypeOK
  <2>3. slot \in RootSlot
    BY <1>3, <2>2, SlotAfter DEF RootSlot
  <2> HIDE DEF slot
  <2> QED  BY <2>1, <2>3, NoteNackType DEF RootSlot
<1>5. \/ /\ pqc_tx_free_slots(q) > 0
         /\ rx_slots' = [rx_slots EXCEPT ![i] = rx_slot_note_nack(slot)]
         /\ rs' = [rs EXCEPT ![n] = s2] /\ rq' = q2
      \/ rx_slots' = [rx_slots EXCEPT ![i] = slot] /\ rs' = [rs EXCEPT ![n] = s] /\ rq' = q
  BY <1>2
<1> HIDE DEF s, q, slot, id
<1>6. nack \in Packet /\ nack.kind = "NACK" /\ nack.node = n
  BY <1>3, <1>4, AskForCt
<1>7. rx_slots' \in [1 .. RxSlots -> RootSlot]
  BY <1>4, <1>5 DEF RootTypeOK
<1> HIDE DEF nack
<1>8. CASE /\ pqc_tx_free_slots(q) > 0 /\ rs' = [rs EXCEPT ![n] = s2] /\ rq' = q2
  <2>1. s1 \in Session /\ s1.state = s.state /\ s1.established = s.established
        /\ s1.pending_msg_type = s.pending_msg_type /\ s1.waiting_response = s.waiting_response
    BY <1>3, NextMsgId
  <2> HIDE DEF s1
  <2>2. s2 \in Session /\ s2.state = s.state /\ s2.established = s.established
        /\ s2.pending_msg_type = s.pending_msg_type /\ s2.waiting_response = s.waiting_response
    BY <2>1, RetryIn DEF Deadlines
  <2> HIDE DEF s2
  <2>3. q2 \in TxQueues /\ CountIsExact(q2) /\ queued(q2) \subseteq queued(q) \cup {nack}
    BY <1>3, <1>6, <1>8, QueuedOne
  <2> HIDE DEF q2
  <2>4. root_armed(s2)
    BY <1>3, <2>2 DEF root_armed, armed
  <2>5. \A x \in queued(q2) : (x.node = n /\ Belongs(x, s2)) \/ (x.node # n /\ x \in queued(rq))
    BY <1>3, <1>6, <2>2, <2>3 DEF Belongs
  <2> QED  BY <1>1, <1>3, <1>7, <1>8, <2>2, <2>3, <2>4, <2>5, RootAssigned
<1>9. CASE rs' = [rs EXCEPT ![n] = s] /\ rq' = q
  <2>1. \A x \in queued(q) : (x.node = n /\ Belongs(x, s)) \/ (x.node # n /\ x \in queued(rq))
    BY <1>3 DEF Belongs
  <2> QED  BY <1>1, <1>3, <1>7, <1>9, <2>1, RootAssigned
<1> QED  BY <1>5, <1>8, <1>9

\* The session summary changes one flag of the session.
LEMMA Summarised ==
  ASSUME NEW s \in Session
  PROVE  LET r == summarised(s) IN
         /\ r \in Session /\ r.state = s.state /\ r.established = s.established /\ r.ss = s.ss
         /\ r.pending_msg_type = s.pending_msg_type /\ r.pending_msg_id = s.pending_msg_id
         /\ r.waiting_response = s.waiting_response
BY Zenon DEF summarised, Session

\* The CT is complete.  What is left in the queue for the node are requests for
\* its fragments.
LEMMA RecvCtCompletePreserves ==
  ASSUME RootTypeOK, RootSafe, NEW n \in Node, NEW p \in Packet, RootRecvCtComplete(n, p)
  PROVE  RootTypeOK' /\ RootSafe'
<1> DEFINE s    == ct_session(n, p)
           q    == ct_queue(n)
           id   == p.msg_id
           After(i) == slot_after(rx_slots[i], n, "CT", p.msg_id, p.frag, p.ct)
<1>1. /\ p.kind = "CT" /\ rs[n].state = "WAIT_CT"
  BY DEF RootRecvCtComplete
<1>2. PICK i \in slot_for(rx_slots, n) :
        /\ rx_slots' = [rx_slots EXCEPT ![i] = FreeSlot(Nobody)]
        /\ \/ /\ decapsulates(After(i).ctx)
              /\ rs' = [rs EXCEPT ![n] = summarised(ack_session(
                      session_set_established([s EXCEPT !.ss = content(After(i).ctx)]), q))]
              /\ rq' = ack_queue(n, q, id)
              /\ impact' = impact_end(n, impact)
           \/ /\ rs' = [rs EXCEPT ![n] = session_set_failed([s EXCEPT !.ss = NoSecret])]
              /\ rq' = q
              /\ UNCHANGED impact
  BY DEF RootRecvCtComplete
<1> DEFINE slot == After(i)
           ss   == content(slot.ctx)
           s1   == [s EXCEPT !.ss = ss]
           s2   == session_set_established(s1)
           s3   == ack_session(s2, q)
           s4   == summarised(s3)
           q2   == ack_queue(n, q, id)
           f1   == [s EXCEPT !.ss = NoSecret]
           f2   == session_set_failed(f1)
<1>3. /\ s \in Session /\ q \in TxQueues /\ CountIsExact(q)
      /\ \A x \in queued(q) : (x.node = n /\ x.kind = "NACK") \/ (x.node # n /\ x \in queued(rq))
      /\ id \in MsgId /\ p.frag \in Nat /\ p.ct \in Secret
  BY <1>1, CtBegins
<1>4. slot \in RootSlot /\ i \in 1 .. RxSlots
  <2>1. i \in 1 .. RxSlots
    BY OwnedSlots
  <2>2. rx_slots[i] \in RootSlot
    BY <2>1 DEF RootTypeOK
  <2> QED  BY <1>3, <2>1, <2>2, SlotAfter DEF RootSlot
<1>5. rx_slots' \in [1 .. RxSlots -> RootSlot]
  BY <1>2, <1>4, RootSlotFreed
<1>6. \/ /\ decapsulates(slot.ctx) /\ rs' = [rs EXCEPT ![n] = s4] /\ rq' = q2
         /\ impact' = impact_end(n, impact)
      \/ rs' = [rs EXCEPT ![n] = f2] /\ rq' = q /\ UNCHANGED impact
  BY <1>2
<1> HIDE DEF s, q, id, slot
<1>7. CASE /\ decapsulates(slot.ctx) /\ rs' = [rs EXCEPT ![n] = s4] /\ rq' = q2
           /\ impact' = impact_end(n, impact)
  <2>1. ss \in Secret
    <3> DEFINE rx == slot.ctx
    <3>1. rx \in RxContext(MsgId, "CT", Secret)
      BY <1>4 DEF RootSlot, RxSlot
    <3> HIDE DEF rx
    <3>2. contents(rx) \subseteq Secret
      BY <3>1 DEF contents, RxContext
    <3>3. content(rx) \in contents(rx)
      BY <1>7 DEF decapsulates, unmixed, content, rx
    <3> QED  BY <3>2, <3>3 DEF rx
  <2> HIDE DEF ss
  <2>2. s1 \in Session
    BY <1>3, <2>1, SetSecret
  <2> HIDE DEF s1
  <2>3. /\ s2 \in Session /\ s2.state = "ESTABLISHED" /\ s2.established = TRUE
        /\ s2.pending_msg_type = "NONE" /\ s2.waiting_response = FALSE
    BY <2>2, SetEstablished
  <2> HIDE DEF s2
  <2>4. /\ s3 \in Session /\ s3.state = "ESTABLISHED" /\ s3.established = TRUE
        /\ s3.pending_msg_type = "NONE" /\ s3.waiting_response = FALSE
        /\ q2 \in TxQueues /\ CountIsExact(q2)
        /\ \A x \in queued(q2) : x \in queued(q) \/ (x.kind = "ACK" /\ x.node = n)
    BY <1>3, <2>3, Acknowledge
  <2> HIDE DEF s3, q2
  <2>5. /\ s4 \in Session /\ s4.state = "ESTABLISHED" /\ s4.established = TRUE
        /\ s4.pending_msg_type = "NONE" /\ s4.waiting_response = FALSE
    BY <2>4, Summarised
  <2> HIDE DEF s4
  <2>6. root_armed(s4)
    BY <2>5 DEF root_armed, armed
  <2>7. \A x \in queued(q2) : (x.node = n /\ Belongs(x, s4)) \/ (x.node # n /\ x \in queued(rq))
    BY <1>3, <2>4, <2>5 DEF Belongs
  <2>8. impact' = Nobody \/ (impact' = impact /\ impact # n)
    BY <1>7 DEF impact_end
  <2> QED  BY <1>1, <1>5, <1>7, <2>4, <2>5, <2>6, <2>7, <2>8, RootAssigned
<1>8. CASE rs' = [rs EXCEPT ![n] = f2] /\ rq' = q /\ UNCHANGED impact
  <2>1. f1 \in Session
    BY <1>3, SetSecret, Zeros
  <2> HIDE DEF f1
  <2>2. /\ f2 \in Session /\ f2.state = "FAILED" /\ f2.established = FALSE
        /\ f2.pending_msg_type = "NONE" /\ f2.waiting_response = FALSE
    BY <2>1, SetFailed
  <2> HIDE DEF f2
  <2>3. root_armed(f2)
    BY <2>2 DEF root_armed, armed
  <2>4. \A x \in queued(q) : (x.node = n /\ Belongs(x, f2)) \/ (x.node # n /\ x \in queued(rq))
    BY <1>3, <2>2 DEF Belongs
  <2> QED  BY <1>1, <1>3, <1>5, <1>8, <2>2, <2>3, <2>4, RootAssigned
<1> QED  BY <1>6, <1>7, <1>8

\* A NACK is answered with fragments of the pending PK, under its id and key.
LEMMA RecvNackRootPreserves ==
  ASSUME RootTypeOK, RootSafe, NEW n \in Node, NEW p \in Packet, RootRecvNack(n, p)
  PROVE  RootTypeOK' /\ RootSafe'
<1> DEFINE s0     == root_session(n)
           served == s0.pending_msg_type = "PK" /\ p.missing_msg_type = "PK"
                       /\ p.missing_msg_id = s0.pending_msg_id
           room   == pqc_tx_free_slots(rq) >= Cardinality(p.missing)
           id     == p.missing_msg_id
           fs     == p.missing
           d      == IF room THEN "long" ELSE "short"
           s1     == retry_in(s0, d)
           s      == IF ~served THEN s0 ELSE s1
           ps     == pk_fragments(n, id, fs)
           q1     == pqc_udp_send_all(rq, ps)
           q      == IF served /\ room THEN q1 ELSE rq
<1>1. /\ rs' = [rs EXCEPT ![n] = s] /\ rq' = q /\ UNCHANGED <<rx_slots, impact>>
      /\ id \in MsgId /\ fs \in SUBSET Frags
  BY DEF RootRecvNack, Packet
<1>2. /\ s0 \in Session /\ root_armed(s0)
      /\ \A x \in queued(rq) : x.node = n => Belongs(x, s0)
      /\ impact = n => s0.state \in {"WAIT_CT", "FAILED"}
  BY RootSession
<1>3. rx_slots' \in [1 .. RxSlots -> RootSlot]
  BY <1>1 DEF RootTypeOK
<1>4. d \in Deadlines
  BY DEF Deadlines
<1> HIDE DEF s0, d
<1>5. /\ s1 \in Session /\ s1.state = s0.state /\ s1.established = s0.established
      /\ s1.pending_msg_type = s0.pending_msg_type /\ s1.pending_msg_id = s0.pending_msg_id
      /\ s1.waiting_response = s0.waiting_response
  BY <1>2, <1>4, RetryIn
<1> HIDE DEF s1
<1>6. /\ s \in Session /\ s.state = s0.state /\ s.established = s0.established
      /\ s.pending_msg_type = s0.pending_msg_type /\ s.pending_msg_id = s0.pending_msg_id
      /\ s.waiting_response = s0.waiting_response
  BY <1>2, <1>5
<1>7. root_armed(s)
  <2> HIDE DEF s
  <2> QED  BY <1>2, <1>6 DEF root_armed, armed
<1>8. CASE ~(served /\ room)
  <2>1. q = rq
    BY <1>8
  <2> HIDE DEF s, q, served, room
  <2>2. \A x \in queued(rq) : (x.node = n /\ Belongs(x, s)) \/ (x.node # n /\ x \in queued(rq))
    BY <1>2, <1>6 DEF Belongs
  <2> QED  BY <1>1, <1>2, <1>3, <1>6, <1>7, <2>1, <2>2, RootFacts, RootAssigned
<1>9. CASE served /\ room
  <2>1. q = q1 /\ s0.pending_msg_type = "PK" /\ id = s0.pending_msg_id
        /\ pqc_tx_free_slots(rq) >= Cardinality(fs)
    BY <1>9
  <2> HIDE DEF s, q, id, fs
  <2>2. /\ ps \in Seq(Packet) /\ Len(ps) = Cardinality(fs)
        /\ \A k \in 1 .. Len(ps) :
             ps[k].kind = "PK" /\ ps[k].node = n /\ ps[k].msg_id = id
    BY <1>1, <1>3, PkFragments
  <2>3. Len(ps) <= pqc_tx_free_slots(rq)
    <3>1. Cardinality(fs) \in Nat
      BY <1>1, FragsFinite
    <3> QED  BY <2>1, <2>2, <3>1, RootFacts
  <2> HIDE DEF ps
  <2>4. /\ q1 \in TxQueues /\ CountIsExact(q1)
        /\ queued(q1) \subseteq queued(rq) \cup {ps[k] : k \in 1 .. Len(ps)}
    BY <2>2, <2>3, RootFacts, Queued
  <2> HIDE DEF q1
  <2>5. \A x \in queued(q1) : (x.node = n /\ Belongs(x, s)) \/ (x.node # n /\ x \in queued(rq))
    BY <1>2, <1>6, <2>1, <2>2, <2>4 DEF Belongs
  <2> QED  BY <1>1, <1>2, <1>3, <1>6, <1>7, <2>1, <2>4, <2>5, RootAssigned
<1> QED  BY <1>8, <1>9

\* A metrics report changes the mask and the summary flag of the session.
LEMMA RecvMetricsPreserves ==
  ASSUME RootTypeOK, RootSafe, NEW n \in Node, NEW p \in Packet, RootRecvMetrics(n, p)
  PROVE  RootTypeOK' /\ RootSafe'
<1> DEFINE s0   == root_session(n)
           mask == s0.node_metrics_mask \cup {p.group}
           s1   == [s0 EXCEPT !.node_metrics_mask = mask]
           s    == summarised(s1)
           q    == rq
<1>1. /\ rs' = [rs EXCEPT ![n] = s] /\ rq' = q /\ UNCHANGED <<rx_slots, impact>>
      /\ p.group \in Nat
  BY DEF RootRecvMetrics, Packet
<1>2. /\ s0 \in Session /\ root_armed(s0)
      /\ \A x \in queued(rq) : x.node = n => Belongs(x, s0)
      /\ impact = n => s0.state \in {"WAIT_CT", "FAILED"}
  BY RootSession
<1>3. rx_slots' \in [1 .. RxSlots -> RootSlot]
  BY <1>1 DEF RootTypeOK
<1> HIDE DEF s0
<1>4. mask \in SUBSET Nat
  BY <1>1, <1>2 DEF Session
<1> HIDE DEF mask
<1>5. /\ s1 \in Session /\ s1.state = s0.state /\ s1.established = s0.established
      /\ s1.pending_msg_type = s0.pending_msg_type /\ s1.pending_msg_id = s0.pending_msg_id
      /\ s1.waiting_response = s0.waiting_response
  BY <1>2, <1>4, Zenon DEF Session
<1> HIDE DEF s1
<1>6. /\ s \in Session /\ s.state = s0.state /\ s.established = s0.established
      /\ s.pending_msg_type = s0.pending_msg_type /\ s.pending_msg_id = s0.pending_msg_id
      /\ s.waiting_response = s0.waiting_response
  BY <1>5, Summarised
<1> HIDE DEF s
<1>7. root_armed(s)
  BY <1>2, <1>6 DEF root_armed, armed
<1>8. \A x \in queued(q) : (x.node = n /\ Belongs(x, s)) \/ (x.node # n /\ x \in queued(rq))
  BY <1>2, <1>6 DEF Belongs
<1>9. q \in TxQueues /\ CountIsExact(q)
  BY RootFacts
<1> HIDE DEF q
<1> QED  BY <1>1, <1>2, <1>3, <1>6, <1>7, <1>8, <1>9, RootAssigned

-----------------------------------------------------------------------------
\* A packet leaves the queue of the root.
LEMMA RootTxPreserves ==
  ASSUME RootTypeOK, RootSafe, RootTx
  PROVE  RootTypeOK' /\ RootSafe' /\ pqc_tx_next(rq) \in Packet
<1> DEFINE q == pqc_tx_process(rq)
<1>1. rq' = q /\ active(rq) # {} /\ UNCHANGED <<rs, rx_slots, impact>>
  BY DEF RootTx
<1>2. rq \in TxQueues /\ CountIsExact(rq)
  BY DEF RootTypeOK, RootSafe
<1>3. q \in TxQueues /\ queued(q) \subseteq queued(rq) /\ pqc_tx_next(rq) \in Packet
  BY <1>1, <1>2, ProcessQueue, PacketFields DEF TxQueues
<1>4. CountIsExact(q)
  BY <1>1, <1>2, ProcessCounts DEF TxQueues
<1> HIDE DEF q
<1>5. RootTypeOK'
  BY <1>1, <1>3 DEF RootTypeOK
<1>6. RootQueueMatchesSession'
  BY <1>1, <1>3 DEF RootSafe, RootQueueMatchesSession
<1>7. RootSafe'
  BY <1>1, <1>4, <1>6 DEF RootSafe, ImpactWindowIsOpen
<1> QED  BY <1>3, <1>5, <1>7

\* The reset after a failure: session, queue and impact window together.
LEMMA FailResetRoot ==
  ASSUME RootTypeOK, RootSafe, NEW n \in Node, root_fail_reset(n),
         rx_slots' \in [1 .. RxSlots -> RootSlot]
  PROVE  RootTypeOK' /\ RootSafe'
<1> DEFINE s == session_init
           q == pqc_tx_drop_node(rq, n)
<1>1. rs' = [rs EXCEPT ![n] = s] /\ rq' = q /\ impact' = impact_end(n, impact)
  BY InitSession DEF root_fail_reset
<1>2. /\ s \in Session /\ s.state = "IDLE" /\ s.established = FALSE
      /\ s.pending_msg_type = "NONE" /\ s.waiting_response = FALSE
  BY InitSession
<1>3. q \in TxQueues /\ queued(q) = {x \in queued(rq) : x.node # n}
  BY RootFacts, DropNodeQueue DEF TxQueues
<1>4. CountIsExact(q)
  BY RootFacts, DropCounts DEF TxQueues
<1> HIDE DEF s, q
<1>5. root_armed(s)
  BY <1>2 DEF root_armed, armed
<1>6. \A x \in queued(q) : (x.node = n /\ Belongs(x, s)) \/ (x.node # n /\ x \in queued(rq))
  BY <1>3
<1>7. impact' = Nobody \/ (impact' = impact /\ impact # n)
  BY <1>1 DEF impact_end
<1> QED  BY <1>1, <1>2, <1>3, <1>4, <1>5, <1>6, <1>7, RootAssigned

\* The retry timer of the root: postponed while its queue drains.
LEMMA RootPostponedPreserves ==
  ASSUME RootTypeOK, RootSafe, NEW n \in Node, RootRetryPostponed(n)
  PROVE  RootTypeOK' /\ RootSafe'
<1> DEFINE s == retry_in(rs[n], "short")
           q == rq
<1>1. rs' = [rs EXCEPT ![n] = s] /\ rq' = q /\ UNCHANGED <<rx_slots, impact>>
  BY DEF RootRetryPostponed
<1>2. /\ s \in Session /\ s.state = rs[n].state /\ s.established = rs[n].established
      /\ s.pending_msg_type = rs[n].pending_msg_type /\ s.pending_msg_id = rs[n].pending_msg_id
      /\ s.waiting_response = rs[n].waiting_response
  BY RootFacts, RetryIn DEF Deadlines
<1> HIDE DEF s
<1>3. root_armed(s)
  BY <1>2, RootFacts DEF root_armed, armed
<1>4. \A x \in queued(q) : (x.node = n /\ Belongs(x, s)) \/ (x.node # n /\ x \in queued(rq))
  BY <1>2, RootFacts DEF Belongs
<1>5. q \in TxQueues /\ CountIsExact(q) /\ (impact = n => s.state \in {"WAIT_CT", "FAILED"})
  BY <1>2, RootFacts
<1>6. rx_slots' \in [1 .. RxSlots -> RootSlot]
  BY <1>1 DEF RootTypeOK
<1> HIDE DEF q
<1> QED  BY <1>1, <1>2, <1>3, <1>4, <1>5, <1>6, RootAssigned

\* The root asks again for the gaps of a CT.
LEMMA RootRetryNackPreserves ==
  ASSUME RootTypeOK, RootSafe, NEW n \in Node, RootRetryNack(n)
  PROVE  RootTypeOK' /\ RootSafe'
<1> DEFINE i    == first_of(owned(rx_slots, n))
           slot == rx_slots[i]
           id   == slot.ctx.msg_id
           nack == NACK(n, "CT", id, missing(slot.ctx))
           s1   == session_next_msg_id(rs[n])
           s    == hs_mark_retry(s1)
           q    == pqc_udp_send_fragment(rq, nack)
<1>1. /\ rs' = [rs EXCEPT ![n] = s] /\ rq' = q /\ UNCHANGED impact
      /\ rx_slots' = [rx_slots EXCEPT ![i] = rx_slot_note_nack(slot)]
      /\ ~pqc_tx_has_pending(rq) /\ session_can_retry(rs[n])
      /\ rs[n].pending_msg_type = "CT" /\ owned(rx_slots, n) # {}
  BY DEF RootRetryNack, partial_ct
<1>2. i \in 1 .. RxSlots
  BY <1>1, OwnedSlots
<1>3. slot \in RootSlot
  BY <1>2 DEF RootTypeOK
<1> HIDE DEF i, slot
<1>4. rx_slot_note_nack(slot) \in RootSlot /\ id \in MsgId
  <2>1. rx_slot_note_nack(slot) \in RootSlot
    BY <1>3, NoteNackType DEF RootSlot
  <2>2. id \in MsgId
    BY <1>3 DEF RootSlot, RxSlot, RxContext
  <2> QED  BY <2>1, <2>2
<1>5. rx_slots' \in [1 .. RxSlots -> RootSlot]
  BY <1>1, <1>2, <1>4 DEF RootTypeOK
<1> HIDE DEF id
<1>6. nack \in Packet /\ nack.kind = "NACK" /\ nack.node = n
  BY <1>3, <1>4, AskForCt
<1> HIDE DEF nack
<1>7. queued(rq) = {} /\ pqc_tx_free_slots(rq) > 0
  BY <1>1, RootFacts, NothingPending, TxQueueAssumption DEF TxQueues
<1>8. q \in TxQueues /\ CountIsExact(q) /\ queued(q) \subseteq queued(rq) \cup {nack}
  BY <1>6, <1>7, RootFacts, QueuedOne
<1> HIDE DEF q
<1>9. /\ s1 \in Session /\ s1.state = rs[n].state /\ s1.established = rs[n].established
      /\ s1.pending_msg_type = rs[n].pending_msg_type /\ s1.waiting_response = rs[n].waiting_response
      /\ s1.retry_count = rs[n].retry_count
  BY RootFacts, NextMsgId DEF session_next_msg_id, session_next_msg_ids, Session
<1> HIDE DEF s1
<1>10. session_can_retry(s1)
  BY <1>1, <1>9 DEF session_can_retry
<1>11. /\ s \in Session /\ s.state = rs[n].state /\ s.established = rs[n].established
       /\ s.pending_msg_type = rs[n].pending_msg_type /\ s.waiting_response = rs[n].waiting_response
  BY <1>9, <1>10, MarkRetry
<1> HIDE DEF s
<1>12. root_armed(s)
  BY <1>11, RootFacts DEF root_armed, armed
<1>13. \A x \in queued(q) : (x.node = n /\ Belongs(x, s)) \/ (x.node # n /\ x \in queued(rq))
  BY <1>1, <1>6, <1>7, <1>8, <1>11 DEF Belongs
<1>14. impact = n => s.state \in {"WAIT_CT", "FAILED"}
  BY <1>11, RootFacts
<1> QED  BY <1>1, <1>5, <1>8, <1>11, <1>12, <1>13, <1>14, RootAssigned

\* The PK again: the queue is empty, so it fits.
LEMMA RootRetryPkPreserves ==
  ASSUME RootTypeOK, RootSafe, NEW n \in Node, RootRetryPk(n)
  PROVE  RootTypeOK' /\ RootSafe'
<1> DEFINE s  == hs_mark_retry(rs[n])
           id == rs[n].pending_msg_id
           fs == FragIdx("PK")
           ps == pk_fragments(n, id, fs)
           q  == pqc_udp_send_all(rq, ps)
<1>1. /\ rs' = [rs EXCEPT ![n] = s] /\ rq' = q /\ UNCHANGED impact
      /\ rx_slots' = released(rx_slots, n)
      /\ ~pqc_tx_has_pending(rq) /\ session_can_retry(rs[n]) /\ rs[n].pending_msg_type = "PK"
  BY DEF RootRetryPk
<1>2. rx_slots' \in [1 .. RxSlots -> RootSlot]
  BY <1>1, OwnedSlots
<1>3. /\ s \in Session /\ s.state = rs[n].state /\ s.established = rs[n].established
      /\ s.pending_msg_type = rs[n].pending_msg_type /\ s.pending_msg_id = rs[n].pending_msg_id
      /\ s.waiting_response = rs[n].waiting_response
  BY <1>1, RootFacts, MarkRetry
<1>4. id \in MsgId
  BY RootFacts DEF Session, RootTypeOK
<1>5. fs \in SUBSET Frags /\ Cardinality(fs) = PkFrags
  BY WholeMessage
<1>6. id = rs[n].pending_msg_id
  OBVIOUS
<1> HIDE DEF s, id, fs
<1>7. /\ ps \in Seq(Packet) /\ Len(ps) = PkFrags
      /\ \A k \in 1 .. Len(ps) :
           ps[k].kind = "PK" /\ ps[k].node = n /\ ps[k].msg_id = id
  BY <1>4, <1>5, PkFragments
<1> HIDE DEF ps
<1>8. queued(rq) = {} /\ Len(ps) <= pqc_tx_free_slots(rq)
  BY <1>1, <1>7, RootFacts, NothingPending, SizeAssumption DEF TxQueues
<1>9. /\ q \in TxQueues /\ CountIsExact(q)
      /\ queued(q) \subseteq queued(rq) \cup {ps[k] : k \in 1 .. Len(ps)}
  BY <1>7, <1>8, RootFacts, Queued
<1> HIDE DEF q
<1>10. root_armed(s)
  BY <1>3, RootFacts DEF root_armed, armed
<1>11. \A x \in queued(q) : (x.node = n /\ Belongs(x, s)) \/ (x.node # n /\ x \in queued(rq))
  BY <1>1, <1>3, <1>6, <1>7, <1>8, <1>9 DEF Belongs
<1>12. impact = n => s.state \in {"WAIT_CT", "FAILED"}
  BY <1>3, RootFacts
<1> QED  BY <1>1, <1>2, <1>3, <1>9, <1>10, <1>11, <1>12, RootAssigned

-----------------------------------------------------------------------------
\* Every step of the root for one node keeps the types and the invariants of the
\* root, and does not touch the nodes.
LEMMA RootStepPreserves ==
  ASSUME TypeOK, RootSafe, NEW n \in Node, RootStep(n)
  PROVE  TypeOK' /\ RootSafe' /\ UNCHANGED nodeVars
<1>1. NodeTypeOK /\ RootTypeOK /\ NetTypeOK
  BY DEF TypeOK
<1>2. UNCHANGED nodeVars
  BY DEF RootStep, RootRecv, RootRetry, RootFailReset
<1>3. NodeTypeOK'
  BY <1>1, <1>2 DEF NodeTypeOK, nodeVars
<1>4. CASE RootRecv(n)
  <2>1. PICK i \in DOMAIN up[n] :
          /\ udp_deliver(up, n, i)
          /\ \/ RootRecvNoSession(n, up[n][i]) \/ RootRecvGetpk(n, up[n][i])
             \/ RootRecvCtDuplicate(n, up[n][i]) \/ RootRecvCtUnexpected(n, up[n][i])
             \/ RootRecvCtRefused(n, up[n][i]) \/ RootRecvCtPart(n, up[n][i])
             \/ RootRecvCtComplete(n, up[n][i]) \/ RootRecvNack(n, up[n][i])
             \/ RootRecvMetrics(n, up[n][i])
    BY <1>4 DEF RootRecv
  <2>2. NetTypeOK' /\ up[n][i] \in Packet
    BY <1>1, <1>4, <2>1, DeliverUp DEF RootRecv
  <2>3. RootTypeOK' /\ RootSafe'
    <3> DEFINE p == up[n][i]
    <3>1. /\ p \in Packet
          /\ \/ RootRecvNoSession(n, p) \/ RootRecvGetpk(n, p)
             \/ RootRecvCtDuplicate(n, p) \/ RootRecvCtUnexpected(n, p)
             \/ RootRecvCtRefused(n, p) \/ RootRecvCtPart(n, p)
             \/ RootRecvCtComplete(n, p) \/ RootRecvNack(n, p) \/ RootRecvMetrics(n, p)
      BY <2>1, <2>2
    <3> HIDE DEF p
    <3>2. CASE RootRecvNoSession(n, p)
      BY <1>1, <3>2 DEF RootRecvNoSession, rootVars, RootTypeOK, RootSafe,
         RootQueueMatchesSession, ImpactWindowIsOpen
    <3> QED  BY <1>1, <3>1, <3>2, RecvGetpkPreserves, RecvCtDuplicatePreserves,
                RecvCtUnexpectedPreserves, RecvCtRefusedPreserves, RecvCtPartPreserves,
                RecvCtCompletePreserves, RecvNackRootPreserves, RecvMetricsPreserves
  <2> QED  BY <1>2, <1>3, <2>2, <2>3 DEF TypeOK
<1>5. CASE RootRetry(n)
  <2>1. NetTypeOK'
    BY <1>1, <1>5, Timeouts DEF RootRetry
  <2>2. CASE RootRetryExhausted(n)
    <3>1. rx_slots' \in [1 .. RxSlots -> RootSlot]
      BY <1>1, <2>2, OwnedSlots DEF RootRetryExhausted
    <3>2. RootTypeOK' /\ RootSafe'
      BY <1>1, <1>5, <2>2, <3>1, FailResetRoot DEF RootRetryExhausted, RootRetry
    <3> QED  BY <1>2, <1>3, <2>1, <3>2 DEF TypeOK
  <2>3. CASE RootRetryPostponed(n) \/ RootRetryNack(n) \/ RootRetryPk(n)
    <3>1. RootTypeOK' /\ RootSafe'
      BY <1>1, <1>5, <2>3, RootPostponedPreserves, RootRetryNackPreserves,
         RootRetryPkPreserves DEF RootRetry
    <3> QED  BY <1>2, <1>3, <2>1, <3>1 DEF TypeOK
  <2> QED  BY <1>5, <2>2, <2>3 DEF RootRetry
<1>6. CASE RootFailReset(n)
  <2>1. NetTypeOK'
    BY <1>1, <1>6 DEF RootFailReset, netVars, NetTypeOK
  <2>2. rx_slots' \in [1 .. RxSlots -> RootSlot]
    BY <1>1, <1>6 DEF RootFailReset, RootTypeOK
  <2>3. RootTypeOK' /\ RootSafe'
    BY <1>1, <1>6, <2>2, FailResetRoot DEF RootFailReset
  <2> QED  BY <1>2, <1>3, <2>1, <2>3 DEF TypeOK
<1> QED  BY <1>4, <1>5, <1>6 DEF RootStep

\* The steps of the root that are for no node in particular.
LEMMA RootWidePreserves ==
  ASSUME TypeOK, RootSafe,
         RootTx \/ (\E i \in 1 .. RxSlots : RootRxTimeout(i)) \/ RootReboot
  PROVE  TypeOK' /\ RootSafe' /\ UNCHANGED nodeVars
<1>1. NodeTypeOK /\ RootTypeOK /\ NetTypeOK
  BY DEF TypeOK
<1>2. UNCHANGED nodeVars
  BY DEF RootTx, RootRxTimeout, RootReboot
<1>3. NodeTypeOK'
  BY <1>1, <1>2 DEF NodeTypeOK, nodeVars
<1>4. CASE RootTx
  <2>1. RootTypeOK' /\ RootSafe' /\ pqc_tx_next(rq) \in Packet
    BY <1>1, <1>4, RootTxPreserves
  <2>2. NetTypeOK'
    BY <1>1, <1>4, <2>1, SendDown DEF RootTx
  <2> QED  BY <1>2, <1>3, <2>1, <2>2 DEF TypeOK
<1>5. CASE \E i \in 1 .. RxSlots : RootRxTimeout(i)
  <2>1. PICK i \in 1 .. RxSlots : RootRxTimeout(i)
    BY <1>5
  <2>2. /\ rx_slots' \in [1 .. RxSlots -> RootSlot]
        /\ UNCHANGED <<rs, rq, impact, up, down>> /\ long_timeout(rx_slots[i].owner)
    BY <1>1, <2>1, RootSlotFreed DEF RootRxTimeout
  <2>3. NetTypeOK'
    BY <1>1, <2>2, Timeouts
  <2>4. RootTypeOK' /\ RootSafe'
    BY <1>1, <2>2 DEF RootTypeOK, RootSafe, RootQueueMatchesSession, ImpactWindowIsOpen
  <2> QED  BY <1>2, <1>3, <2>3, <2>4 DEF TypeOK
<1>6. CASE RootReboot
  <2>1. /\ rs' = [n \in Node |-> UnusedSession] /\ rq' = pqc_tx_init
        /\ rx_slots' = [i \in 1 .. RxSlots |-> FreeSlot(Nobody)]
        /\ impact' = Nobody
    BY <1>6 DEF RootReboot
  <2>2. NetTypeOK'
    BY <1>1, <1>6, SpendFault DEF RootReboot, NetTypeOK
  <2>3. /\ UnusedSession \in Session /\ UnusedSession.state = "UNUSED"
        /\ UnusedSession.established = FALSE /\ UnusedSession.pending_msg_type = "NONE"
        /\ UnusedSession.waiting_response = FALSE
    BY InitSession
  <2>4. pqc_tx_init \in TxQueues /\ CountIsExact(pqc_tx_init) /\ queued(pqc_tx_init) = {}
    BY InitQueue, InitCounts DEF TxQueues
  <2>5. FreeSlot(Nobody) \in RootSlot
    BY FreeSlotType, Zeros DEF RootSlot
  <2>6. RootTypeOK'
    BY <1>1, <2>1, <2>3, <2>4, <2>5 DEF RootTypeOK
  <2>7. root_armed(UnusedSession)
    BY <2>3 DEF root_armed, armed
  <2>8. RootSafe'
    BY <2>1, <2>4, <2>7, NodeAssumption
       DEF RootSafe, RootQueueMatchesSession, ImpactWindowIsOpen
  <2> QED  BY <1>2, <1>3, <2>2, <2>6, <2>8 DEF TypeOK
<1> QED  BY <1>4, <1>5, <1>6
=============================================================================
