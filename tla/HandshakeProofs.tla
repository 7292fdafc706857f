--------------------------- MODULE HandshakeProofs ---------------------------
(***************************************************************************)
(* The invariants of Handshake that hold whatever the network, the timers  *)
(* and the power supply do, for any number of nodes, fragments, retries,   *)
(* queue entries, receive slots and faults.                                *)
(*                                                                         *)
(* None of them is inductive alone: that a session fits its queue rests on *)
(* an exact tx_count (an empty queue is what hs_fsm_retry waits for), on   *)
(* the state and the pending message of the session going together, and on *)
(* the types.  Their conjunction IInv is.                                  *)
(*                                                                         *)
(* A second invariant, OriginInv, follows the secrets: wherever one is, in *)
(* a session, a buffer, a receive slot, a queue or in flight, the node it  *)
(* belongs to has begun at least as many handshakes as it takes to draw    *)
(* it.  It gives SlotsConsistent and, step by step, the refinement of      *)
(* KeyExchange.                                                            *)
(***************************************************************************)
EXTENDS RootProofs

IInv == TypeOK /\ NodeSafe /\ RootSafe

\* The invariant holds when everything has just been switched on.
LEMMA InitInv == Init => IInv
<1> SUFFICES ASSUME Init PROVE IInv
  OBVIOUS
<1>1. /\ session_init \in Session /\ UnusedSession \in Session
      /\ session_init.state = "IDLE" /\ UnusedSession.state = "UNUSED"
      /\ \A s \in {session_init, UnusedSession} :
           /\ s.established = FALSE /\ s.pending_msg_type = "NONE"
           /\ s.waiting_response = FALSE
  BY InitSession
<1>2. pqc_tx_init \in TxQueues /\ CountIsExact(pqc_tx_init) /\ queued(pqc_tx_init) = {}
  BY InitQueue, InitCounts DEF TxQueues
<1>3. FreeSlot(Nobody) \in RootSlot /\ FreeSlot(Nobody) \in NodeSlot /\ NoSecret \in Secret
  BY FreeSlotType, Zeros DEF RootSlot, NodeSlot
<1>4. NodeTypeOK
  <2>1. /\ ns \in [Node -> Session] /\ nq \in [Node -> TxQueues] /\ node_ct \in [Node -> Secret]
        /\ nrx \in [Node -> NodeSlot] /\ attempts \in [Node -> Nat] /\ prng \in [Node -> Nat]
    BY <1>1, <1>2, <1>3 DEF Init
  <2>2. getpk \in [Node -> BOOLEAN] /\ metrics_pending \in [Node -> BOOLEAN]
    BY Zenon DEF Init
  <2> QED  BY <2>1, <2>2 DEF NodeTypeOK
<1>5. RootTypeOK
  BY <1>1, <1>2, <1>3 DEF Init, RootTypeOK
<1>6. NetTypeOK
  <2>1. faults \in Faults
    BY FaultAssumption DEF Init, Faults
  <2>2. << >> \in Seq(Packet)
    OBVIOUS
  <2> QED  BY <2>1, <2>2 DEF Init, NetTypeOK
<1>7. node_armed(session_init) /\ root_armed(UnusedSession)
  BY <1>1 DEF node_armed, root_armed, armed
<1>8. NodeSafe
  <2> SUFFICES ASSUME NEW n \in Node
               PROVE  NodeGood(ns[n], getpk[n], node_ct[n], nq[n])
    BY DEF NodeSafe
  <2>1. ns[n] = session_init /\ node_ct[n] = NoSecret /\ nq[n] = pqc_tx_init
    BY DEF Init
  <2>2. getpk[n] = FALSE
    BY Zenon DEF Init
  <2>3. CtsAreCurrent(nq[n], ns[n])
    BY <1>2, <2>1 DEF CtsAreCurrent
  <2> QED  BY <1>1, <1>2, <1>7, <2>1, <2>2, <2>3 DEF NodeGood
<1>9. RootSafe
  BY <1>2, <1>7, NodeAssumption DEF Init, RootSafe, RootQueueMatchesSession, ImpactWindowIsOpen
<1> QED  BY <1>4, <1>5, <1>6, <1>8, <1>9 DEF IInv, TypeOK

\* Every step preserves the invariant.
LEMMA NextInv == IInv /\ [Next]_vars => IInv'
<1> SUFFICES ASSUME IInv, [Next]_vars PROVE IInv'
  OBVIOUS
<1>1. TypeOK /\ NodeSafe /\ RootSafe
  BY DEF IInv
<1>2. CASE \E n \in Node : NodeStep(n)
  <2>1. PICK n \in Node : NodeStep(n)
    BY <1>2
  <2>2. TypeOK' /\ NodeSafe' /\ UNCHANGED rootVars
    BY <1>1, <2>1, NodeStepPreserves
  <2>3. RootSafe'
    BY <1>1, <2>2 DEF rootVars, RootSafe, RootQueueMatchesSession, ImpactWindowIsOpen
  <2> QED  BY <2>2, <2>3 DEF IInv
<1>3. CASE \E n \in Node : RootStep(n)
  <2>1. PICK n \in Node : RootStep(n)
    BY <1>3
  <2>2. TypeOK' /\ RootSafe' /\ UNCHANGED nodeVars
    BY <1>1, <2>1, RootStepPreserves
  <2>3. NodeSafe'
    BY <1>1, <2>2 DEF nodeVars, NodeSafe
  <2> QED  BY <2>2, <2>3 DEF IInv
<1>4. CASE RootTx \/ (\E i \in 1 .. RxSlots : RootRxTimeout(i)) \/ RootReboot
  <2>1. TypeOK' /\ RootSafe' /\ UNCHANGED nodeVars
    BY <1>1, <1>4, RootWidePreserves
  <2>2. NodeSafe'
    BY <1>1, <2>1 DEF nodeVars, NodeSafe
  <2> QED  BY <2>1, <2>2 DEF IInv
<1>5. CASE UNCHANGED vars
  BY <1>1, <1>5 DEF IInv, vars, nodeVars, rootVars, netVars, TypeOK, NodeTypeOK, RootTypeOK,
     NetTypeOK, NodeSafe, RootSafe, RootQueueMatchesSession, ImpactWindowIsOpen
<1> QED  BY <1>2, <1>3, <1>4, <1>5 DEF Next

\* The inductive invariant holds in every reachable state.
THEOREM Invariant == Spec => []IInv
BY InitInv, NextInv, PTL DEF Spec

\* What the named invariants of Handshake say is part of it.
LEMMA Consequences ==
  IInv => /\ TypeOK /\ WaitsAreArmed /\ GetpkInFlightMatches /\ CtMatchesSecret
          /\ TxCountExact /\ NodeQueueMatchesSession /\ RootQueueMatchesSession
          /\ ImpactWindowIsOpen
<1> SUFFICES ASSUME IInv
             PROVE  /\ TypeOK /\ WaitsAreArmed /\ GetpkInFlightMatches /\ CtMatchesSecret
                    /\ TxCountExact /\ NodeQueueMatchesSession /\ RootQueueMatchesSession
                    /\ ImpactWindowIsOpen
  OBVIOUS
<1>1. TypeOK /\ NodeSafe /\ RootSafe
  BY DEF IInv
<1>2. WaitsAreArmed
  BY <1>1 DEF WaitsAreArmed, NodeSafe, NodeGood, RootSafe
<1>3. GetpkInFlightMatches
  BY <1>1 DEF GetpkInFlightMatches, NodeSafe, NodeGood
<1>4. CtMatchesSecret
  BY <1>1 DEF CtMatchesSecret, NodeSafe, NodeGood
<1>5. TxCountExact
  BY <1>1 DEF TxCountExact, NodeSafe, NodeGood, RootSafe
<1>6. NodeQueueMatchesSession
  BY <1>1 DEF NodeQueueMatchesSession, NodeSafe, NodeGood, CtsAreCurrent
<1> QED  BY <1>1, <1>2, <1>3, <1>4, <1>5, <1>6 DEF RootSafe

\* Type correctness of both firmware images and of the network.
THEOREM TypeCorrectness == Spec => []TypeOK
BY Invariant, Consequences, PTL

\* Neither side ever waits without an armed retry timer, or keeps a message pending
\* in a state that does not wait for its answer (session_set_pending and
\* session_clear_pending around every transition of handshake_fsm.c).
THEOREM WaitsStayArmed == Spec => []WaitsAreArmed
BY Invariant, Consequences, PTL

\* getpk_in_flight of node_main.c never disagrees with the session.
THEOREM FlagMatchesSession == Spec => []GetpkInFlightMatches
BY Invariant, Consequences, PTL

\* node_ct holds the ciphertext of the session's secret in WAIT_ACK and is wiped in
\* every other state (crypto_worker_secure_zero in handshake_fsm.c).
THEOREM CiphertextIsKeptAndWiped == Spec => []CtMatchesSecret
BY Invariant, Consequences, PTL

\* tx_count is exact in both roles, through every handler that queues, sends or
\* drops packets.
THEOREM QueueCountsExact == Spec => []TxCountExact
BY Invariant, Consequences, PTL

\* No fragment of an earlier ciphertext, nor of the wiped buffer, is ever in the
\* queue of a node, although nothing drops them there.
THEOREM NodeQueueIsCurrent == Spec => []NodeQueueMatchesSession
BY Invariant, Consequences, PTL

\* What the root has queued for a node always belongs to that node's session as it
\* is now: same PK id, no ACK of a session that is not established.
THEOREM RootQueueIsCurrent == Spec => []RootQueueMatchesSession
BY Invariant, Consequences, PTL

\* The impact window is never left open for a handshake that is over.
THEOREM ImpactWindowCloses == Spec => []ImpactWindowIsOpen
BY Invariant, Consequences, PTL

-----------------------------------------------------------------------------
(* Where secrets and fragments come from.  The second inductive invariant  *)
(* follows every secret from the node that draws it through its queue, the *)
(* network and the receive slots into the session of the root, and every   *)
(* fragment number from the message it belongs to.  It rests on IInv.      *)

\* The secrets a node that has begun k handshakes may have drawn.
Drawn(k) == 1 .. k

\* A packet that names only fragments its message has.
Fits(p) ==
  /\ p.kind \in {"PK", "CT"} => p.frag \in FragIdx(p.kind)
  /\ p.kind = "NACK" => p.missing \subseteq FragIdx(p.missing_msg_type)
Fitting == {p \in Packet : Fits(p)}

\* What node n queues, and what of it reaches the root: a ciphertext is one that
\* n may have made.
Mine(n)   == {p \in Fitting : p.node = n}
Own(k) == {p \in Fitting : k > 0 /\ (p.kind = "CT" => p.ct \in Drawn(k))}

\* A receive slot is free and clean, or holds a counted part of a message.
SlotGood(slot, type) ==
  IF slot.owner = Nobody THEN ~slot.ctx.active
  ELSE /\ slot.ctx.active /\ slot.ctx.msg_type = type
       /\ slot.ctx.received_frags = Cardinality(bitmap(slot.ctx))
       /\ slot.ctx.received_frags < total_frags(type)

\* A node that has begun k handshakes and drawn d secrets since its start: what
\* its state says about its secret, its queue and its slot.
SecretMatches(s, k, d) ==
  /\ d <= k /\ (s.state = "WAIT_PK" => d < k)
  /\ s.state # "IDLE" => k > 0
  /\ s.state \in {"IDLE", "WAIT_PK"} => s.ss = NoSecret
  /\ s.state \in {"WAIT_ACK", "ESTABLISHED"} => s.ss \in Drawn(k)
NodeOrigin(n) ==
  /\ SecretMatches(ns[n], attempts[n], prng[n])
  /\ nq[n] \in Queues(Mine(n), Node)
  /\ queued(nq[n]) # {} => attempts[n] > 0
  /\ SlotGood(nrx[n], "PK") /\ (nrx[n].owner # Nobody => ns[n].state = "WAIT_PK")

\* The root: an established session holds a secret its node may have drawn, and no
\* other session holds one.
RootOrigin(n) ==
  IF rs[n].state = "ESTABLISHED"
  THEN rs[n].ss \in Drawn(attempts[n])
  ELSE rs[n].ss = NoSecret

\* The receive slots of the root: one per node, with ciphertexts of that node.
SlotOrigin ==
  /\ \A i \in 1 .. RxSlots :
       /\ SlotGood(rx_slots[i], "CT")
       /\ \A n \in Node : rx_slots[i].owner = n =>
                            contents(rx_slots[i].ctx) \subseteq Drawn(attempts[n])
  /\ \A i, j \in 1 .. RxSlots :
       rx_slots[i].owner # Nobody /\ rx_slots[i].owner = rx_slots[j].owner => i = j

NetOrigin ==
  /\ rq \in Queues(Fitting, Node)
  /\ \A n \in Node : up[n] \in Seq(Own(attempts[n])) /\ down[n] \in Seq(Fitting)

OriginInv ==
  /\ \A n \in Node : NodeOrigin(n)
  /\ \A n \in Node : RootOrigin(n)
  /\ SlotOrigin /\ NetOrigin

-----------------------------------------------------------------------------
(* Packets that fit.                                                       *)

\* The single packets of the handlers.
LEMMA SinglePacketsFit ==
  ASSUME NEW n \in Node
  PROVE  /\ GETPK(n) \in Mine(n) /\ \A id \in MsgId : ACK(n, id) \in Mine(n)
         /\ \A g \in Nat : METRICS(n, g) \in Mine(n)
         /\ \A type \in {"PK", "CT"}, id \in MsgId : \A fs \in SUBSET FragIdx(type) :
              NACK(n, type, id, fs) \in Mine(n)
<1>1. GETPK(n) \in Mine(n)
  BY PacketTypes DEF Mine, Fitting, Fits, GETPK
<1>2. \A id \in MsgId : ACK(n, id) \in Mine(n)
  BY PacketTypes DEF Mine, Fitting, Fits, ACK
<1>3. \A g \in Nat : METRICS(n, g) \in Mine(n)
  BY PacketTypes DEF Mine, Fitting, Fits, METRICS
<1>4. ASSUME NEW type \in {"PK", "CT"}, NEW id \in MsgId, NEW fs \in SUBSET FragIdx(type)
      PROVE  NACK(n, type, id, fs) \in Mine(n)
  <2>1. fs \in SUBSET Frags
    BY FragIdxInFrags
  <2>2. NACK(n, type, id, fs) \in Packet
    BY <2>1, PacketTypes
  <2> QED  BY <2>2 DEF Mine, Fitting, Fits, NACK
<1> QED  BY <1>1, <1>2, <1>3, <1>4

\* The fragments of a ciphertext that are sent, all or those a NACK asks for.
LEMMA CtFragmentsFit ==
  ASSUME NEW n \in Node, NEW id \in MsgId, NEW fs \in SUBSET FragIdx("CT"), NEW ct \in Secret
  PROVE  ct_fragments(n, id, fs, ct) \in Seq(Mine(n))
<1> DEFINE c == Cardinality(fs)
<1>1. c \in Nat
  BY FragsFinite, FragIdxInFrags
<1>2. ASSUME NEW k \in 1 .. c
      PROVE  CT(n, id, nth(fs, k), ct) \in Mine(n)
  <2> DEFINE f == nth(fs, k)
  <2>1. f \in FragIdx("CT")
    BY NthInMessage
  <2>2. f \in Nat
    BY <1>1, NthIsNat, FragIdxInFrags
  <2> HIDE DEF f
  <2>3. CT(n, id, f, ct) \in Packet
    BY <2>2, PacketTypes
  <2>4. CT(n, id, f, ct) \in Mine(n)
    BY <2>1, <2>3 DEF Mine, Fitting, Fits, CT
  <2> QED  BY <2>4 DEF f
<1>3. ct_fragments(n, id, fs, ct) = [k \in 1 .. c |-> CT(n, id, nth(fs, k), ct)]
  BY DEF ct_fragments
<1> HIDE DEF c
<1> QED  BY <1>1, <1>2, <1>3

\* The same for the public key.
LEMMA PkFragmentsFit ==
  ASSUME NEW n \in Node, NEW id \in MsgId, NEW fs \in SUBSET FragIdx("PK")
  PROVE  pk_fragments(n, id, fs) \in Seq(Fitting)
<1> DEFINE c == Cardinality(fs)
<1>1. c \in Nat
  BY FragsFinite, FragIdxInFrags
<1>2. ASSUME NEW k \in 1 .. c
      PROVE  PK(n, id, nth(fs, k)) \in Fitting
  <2> DEFINE f == nth(fs, k)
  <2>1. f \in FragIdx("PK")
    BY NthInMessage
  <2>2. f \in Nat
    BY <1>1, NthIsNat, FragIdxInFrags
  <2> HIDE DEF f
  <2>3. PK(n, id, f) \in Packet
    BY <2>2, PacketTypes
  <2>4. PK(n, id, f) \in Fitting
    BY <2>1, <2>3 DEF Fitting, Fits, PK
  <2> QED  BY <2>4 DEF f
<1>3. pk_fragments(n, id, fs) = [k \in 1 .. c |-> PK(n, id, nth(fs, k))]
  BY DEF pk_fragments
<1> HIDE DEF c
<1> QED  BY <1>1, <1>2, <1>3

\* The reports of a node.
LEMMA ReportsFit ==
  ASSUME NEW n \in Node, NEW q, pqc_tx_free_slots(q) \in Nat
  PROVE  reports(n, q) \in Seq(Mine(n))
<1> DEFINE room == pqc_tx_free_slots(q)
           c    == IF room < MetricsGroups THEN room ELSE MetricsGroups
<1>1. c \in Nat
  BY SizeAssumption
<1>2. reports(n, q) = [g \in 1 .. c |-> METRICS(n, g)]
  BY DEF reports
<1>3. \A g \in 1 .. c : METRICS(n, g) \in Mine(n)
  BY <1>1, SinglePacketsFit
<1> HIDE DEF c
<1> QED  BY <1>1, <1>2, <1>3

\* What a receiver asks for is missing in the message it collects.
LEMMA NackFits ==
  ASSUME NEW n \in Node, NEW type \in {"PK", "CT"}, NEW id \in MsgId, NEW rx, rx.msg_type = type
  PROVE  NACK(n, type, id, missing(rx)) \in Mine(n)
<1> DEFINE fs == missing(rx)
<1>1. fs \in SUBSET FragIdx(type)
  BY DEF missing
<1> HIDE DEF fs
<1>2. NACK(n, type, id, fs) \in Mine(n)
  BY <1>1, SinglePacketsFit
<1> QED  BY <1>2 DEF fs

-----------------------------------------------------------------------------
(* Receive slots.                                                          *)

\* rx_slot_note_nack touches neither the owner nor what the slot holds.
LEMMA NoteNackKeeps ==
  ASSUME NEW type, NEW payload, NEW slot \in RxSlot(Node \cup {Nobody}, MsgId, type, payload)
  PROVE  rx_slot_note_nack(slot).owner = slot.owner /\ rx_slot_note_nack(slot).ctx = slot.ctx
<1> DEFINE k == Cardinality(missing(slot.ctx))
<1> HIDE DEF k
<1>1. rx_slot_note_nack(slot)
        = [slot EXCEPT !.last_nack_received_frags = slot.ctx.received_frags,
                       !.last_nack_missing_count = k]
  BY DEF rx_slot_note_nack, k
<1> QED  BY <1>1, Zenon DEF RxSlot

\* What the type of a slot says of it, whatever its fragments carry.
SlotShape(slot, type) ==
  /\ slot = [owner |-> slot.owner, last_nack_received_frags |-> slot.last_nack_received_frags,
             last_nack_missing_count |-> slot.last_nack_missing_count, ctx |-> slot.ctx]
  /\ bitmap(slot.ctx) \subseteq FragIdx(type)

LEMMA SlotShapes ==
  ASSUME NEW owners, NEW ids, NEW type, NEW payload, NEW slot \in RxSlot(owners, ids, type, payload)
  PROVE  SlotShape(slot, type)
<1>1. slot.ctx \in RxContext(ids, type, payload)
  BY DEF RxSlot
<1>2. bitmap(slot.ctx) \subseteq FragIdx(type)
  BY <1>1 DEF bitmap, RxContext
<1>3. slot = [owner |-> slot.owner, last_nack_received_frags |-> slot.last_nack_received_frags,
              last_nack_missing_count |-> slot.last_nack_missing_count, ctx |-> slot.ctx]
  BY DEF RxSlot
<1> QED  BY <1>2, <1>3 DEF SlotShape

\* A slot r that took a fragment with content c: it has its owner, counts right, and
\* holds only what it held before and c.  Unless the message is complete it is as it
\* should be.
SlotTook(r, slot, owner, type, id, c) ==
  /\ r.owner = (IF slot.owner = Nobody THEN owner ELSE slot.owner)
  /\ r.ctx.msg_type = type /\ r.ctx.msg_id = id
  /\ contents(r.ctx) \subseteq (IF slot.owner = Nobody THEN {} ELSE contents(slot.ctx)) \cup {c}
  /\ ~fragment_rx_complete(r.ctx) => SlotGood(r, type)

LEMMA SlotAfterGood ==
  ASSUME NEW type \in {"PK", "CT"}, NEW slot, SlotShape(slot, type), SlotGood(slot, type),
         NEW owner \in Node, NEW id, NEW f \in Nat, NEW c,
         fragment_rx_accepts(slot.ctx, type, id, f)
  PROVE  SlotTook(slot_after(slot, owner, type, id, f, c), slot, owner, type, id, c)
<1> DEFINE s == IF slot.owner = Nobody THEN NewSlot(owner) ELSE slot
           x == fragment_rx_add(s.ctx, type, id, f, c)
           r == slot_after(slot, owner, type, id, f, c)
<1>1. SlotShape(s, type)
  <2>1. SlotShape(NewSlot(owner), type)
    BY DEF SlotShape, NewSlot, FreeSlot, fragment_rx_init, bitmap
  <2> QED  BY <2>1
<1>2. s.owner = (IF slot.owner = Nobody THEN owner ELSE slot.owner)
  BY DEF NewSlot, FreeSlot
<1>3. s.ctx = (IF slot.owner = Nobody THEN fragment_rx_init ELSE slot.ctx)
  BY DEF NewSlot, FreeSlot
<1>4. s.ctx.received_frags = Cardinality(bitmap(s.ctx))
  <2>1. CASE slot.owner = Nobody
    BY <1>3, <2>1, FS_EmptySet DEF fragment_rx_init, bitmap
  <2>2. CASE slot.owner # Nobody
    BY <1>3, <2>2 DEF SlotGood
  <2> QED  BY <2>1, <2>2
<1>5. fragment_rx_accepts(s.ctx, type, id, f)
  BY <1>3 DEF fragment_rx_accepts, fragment_rx_init
<1>6. contents(s.ctx) = IF slot.owner = Nobody THEN {} ELSE contents(slot.ctx)
  BY <1>3 DEF contents, fragment_rx_init
<1>7. r = [s EXCEPT !.ctx = x]
  BY DEF slot_after
<1>8. bitmap(s.ctx) \subseteq FragIdx(type)
  BY <1>1 DEF SlotShape
<1> HIDE DEF s
<1>9. /\ x.active = TRUE /\ x.msg_type = type /\ x.msg_id = id
      /\ x.received_frags = Cardinality(bitmap(x))
      /\ x.received_frags \in Nat /\ x.received_frags <= total_frags(type)
      /\ contents(x) \subseteq contents(s.ctx) \cup {c}
  <2> DEFINE rx == s.ctx
             y  == fragment_rx_add(rx, type, id, f, c)
  <2>1. /\ bitmap(rx) \subseteq FragIdx(type) /\ fragment_rx_accepts(rx, type, id, f)
        /\ rx.received_frags = Cardinality(bitmap(rx))
    BY <1>4, <1>5, <1>8
  <2> HIDE DEF rx
  <2>2. /\ y.active = TRUE /\ y.msg_type = type /\ y.msg_id = id
        /\ y.received_frags = Cardinality(bitmap(y))
        /\ y.received_frags \in Nat /\ y.received_frags <= total_frags(type)
        /\ contents(y) \subseteq contents(rx) \cup {c}
    BY <2>1, RxAddCounts
  <2>3. x = y
    BY DEF rx
  <2> HIDE DEF x, y
  <2> QED  BY <2>2, <2>3 DEF rx
<1> HIDE DEF x, r
<1>10. r.owner = s.owner /\ r.ctx = x
  BY <1>1, <1>7 DEF SlotShape
<1>11. r.owner # Nobody
  BY <1>2, <1>10, NodeAssumption
<1>12. ~fragment_rx_complete(r.ctx) => SlotGood(r, type)
  <2>1. total_frags(type) \in Nat
    BY TotalFrags, FragsAssumption
  <2> QED  BY <1>9, <1>10, <1>11, <2>1 DEF fragment_rx_complete, SlotGood
<1>13. /\ r.owner = (IF slot.owner = Nobody THEN owner ELSE slot.owner)
       /\ r.ctx.msg_type = type /\ r.ctx.msg_id = id
  BY <1>2, <1>9, <1>10
<1>14. contents(r.ctx)
         \subseteq (IF slot.owner = Nobody THEN {} ELSE contents(slot.ctx)) \cup {c}
  BY <1>6, <1>9, <1>10
<1>15. SlotTook(r, slot, owner, type, id, c)
  BY <1>12, <1>13, <1>14 DEF SlotTook
<1> QED  BY <1>15 DEF r

-----------------------------------------------------------------------------
(* What a step of a node does to its secret.                               *)

\* The session, and the number of handshakes, of n in one step: it stays, a
\* handshake begins, the node encapsulates, the ACK confirms, or a reset.
NodeStays(n) ==
  /\ ns'[n].state = ns[n].state /\ ns'[n].ss = ns[n].ss
  /\ attempts'[n] = attempts[n] /\ prng'[n] = prng[n]
NodeBegins(n) ==
  /\ ns[n].state = "IDLE" /\ ns'[n].state = "WAIT_PK" /\ ns'[n].ss = ns[n].ss
  /\ attempts'[n] = attempts[n] + 1 /\ prng'[n] = prng[n]
NodeEncapsulates(n) ==
  /\ ns[n].state = "WAIT_PK" /\ ns'[n].state \in {"WAIT_ACK", "FAILED"}
  /\ ns'[n].ss = prng[n] + 1 /\ prng'[n] = prng[n] + 1 /\ attempts'[n] = attempts[n]
NodeConfirmed(n) ==
  /\ ns[n].state = "WAIT_ACK" /\ ns'[n].state = "ESTABLISHED" /\ ns'[n].ss = ns[n].ss
  /\ attempts'[n] = attempts[n] /\ prng'[n] = prng[n]
NodeResets(n) ==
  /\ ns'[n].state = "IDLE" /\ ns'[n].ss = NoSecret /\ attempts'[n] = attempts[n]
  /\ (ns[n].state # "ESTABLISHED" /\ prng'[n] = prng[n]) \/ prng'[n] = 0

NodeChange(n) ==
  \/ NodeStays(n) \/ NodeBegins(n) \/ NodeEncapsulates(n) \/ NodeConfirmed(n) \/ NodeResets(n)

\* A step of n as a whole, as far as OriginInv looks at it.
NodeEffect(n) ==
  /\ NodeChange(n)
  /\ nq'[n] \in Queues(Mine(n), Node)
  /\ queued(nq'[n]) \subseteq queued(nq[n]) \/ ns'[n].state # "IDLE"
  /\ SlotGood(nrx'[n], "PK") /\ (nrx'[n].owner # Nobody => ns'[n].state = "WAIT_PK")
  /\ \A m \in Node \ {n} : /\ ns'[m] = ns[m] /\ nq'[m] = nq[m] /\ nrx'[m] = nrx[m]
                           /\ attempts'[m] = attempts[m] /\ prng'[m] = prng[m]

\* The secrets of k handshakes are among those of more.
LEMMA OwnGrows ==
  ASSUME NEW k \in Nat, NEW l \in Nat, k <= l
  PROVE  Drawn(k) \subseteq Drawn(l) /\ Own(k) \subseteq Own(l)
<1>1. Drawn(k) \subseteq Drawn(l)
  BY DEF Drawn
<1> QED  BY <1>1 DEF Own

\* Such a step keeps the invariant of every node, and no handshake is forgotten.
LEMMA EffectPreserves ==
  ASSUME NodeTypeOK, NodeTypeOK', \A m \in Node : NodeOrigin(m), NEW n \in Node, NodeEffect(n)
  PROVE  /\ (\A m \in Node : NodeOrigin(m))'
         /\ \A m \in Node : attempts[m] \in Nat /\ attempts'[m] \in Nat /\ attempts[m] <= attempts'[m]
<1>1. \A m \in Node : /\ ns[m] \in Session /\ ns'[m] \in Session
                      /\ attempts[m] \in Nat /\ attempts'[m] \in Nat
  BY DEF NodeTypeOK
<1>2. \A m \in Node : attempts[m] <= attempts'[m]
  BY <1>1 DEF NodeEffect, NodeChange, NodeStays, NodeBegins, NodeEncapsulates, NodeConfirmed,
     NodeResets
<1>3. SecretMatches(ns'[n], attempts'[n], prng'[n])
  <2>1. SecretMatches(ns[n], attempts[n], prng[n])
    BY DEF NodeOrigin
  <2>2. attempts[n] \in Nat /\ prng[n] \in Nat
    BY DEF NodeTypeOK
  <2>3. CASE NodeStays(n)
    BY <2>1, <2>3 DEF NodeStays, SecretMatches
  <2>4. CASE NodeBegins(n)
    BY <2>1, <2>2, <2>4 DEF NodeBegins, SecretMatches
  <2>5. CASE NodeEncapsulates(n)
    BY <2>1, <2>2, <2>5 DEF NodeEncapsulates, SecretMatches, Drawn
  <2>6. CASE NodeConfirmed(n)
    BY <2>1, <2>6 DEF NodeConfirmed, SecretMatches
  <2>7. CASE NodeResets(n)
    BY <2>1, <2>2, <2>7 DEF NodeResets, SecretMatches
  <2> QED  BY <2>3, <2>4, <2>5, <2>6, <2>7 DEF NodeEffect, NodeChange
<1>4. queued(nq'[n]) # {} => attempts'[n] > 0
  <2>1. CASE queued(nq'[n]) \subseteq queued(nq[n])
    BY <1>1, <1>2, <2>1 DEF NodeOrigin
  <2>2. CASE ns'[n].state # "IDLE"
    BY <1>3, <2>2 DEF SecretMatches
  <2> QED  BY <2>1, <2>2 DEF NodeEffect
<1>5. NodeOrigin(n)'
  BY <1>3, <1>4 DEF NodeEffect, NodeOrigin
<1>6. \A m \in Node \ {n} : NodeOrigin(m)'
  BY DEF NodeEffect, NodeOrigin
<1>7. (\A m \in Node : NodeOrigin(m))'
  BY <1>5, <1>6
<1> QED  BY <1>1, <1>2, <1>7

\* The end of udp_rx_callback when the session is not established: no reports.
LEMMA RxSilent ==
  ASSUME NodeTypeOK, NEW n \in Node, NEW s, NEW q, s.state # "ESTABLISHED", node_rx_done(n, s, q)
  PROVE  ns' = [ns EXCEPT ![n] = s] /\ nq' = [nq EXCEPT ![n] = q]
BY DEF node_rx_done, session_is_established

\* The end of udp_rx_callback when the handler queued nothing: reports at most.
LEMMA RxReports ==
  ASSUME NodeTypeOK, NodeSafe, NEW n \in Node, NodeOrigin(n), NEW s \in Session,
         node_rx_done(n, s, nq[n])
  PROVE  /\ ns'[n].state = s.state /\ ns'[n].ss = s.ss
         /\ \A m \in Node \ {n} : ns'[m] = ns[m] /\ nq'[m] = nq[m]
         /\ nq'[n] \in Queues(Mine(n), Node)
         /\ queued(nq'[n]) \subseteq queued(nq[n]) \/ s.state = "ESTABLISHED"
<1> DEFINE q     == nq[n]
           sends == session_is_established(s) /\ (~session_is_established(ns[n]) \/ metrics_pending[n])
           rep   == reports(n, q)
           s2    == session_next_msg_ids(s, Len(rep))
           q2    == pqc_udp_send_all(q, rep)
<1>1. pqc_tx_free_slots(q) \in Nat /\ q \in Queues(Mine(n), Node)
  BY NodeFacts DEF NodeOrigin
<1>2. /\ ns' = [ns EXCEPT ![n] = IF sends THEN s2 ELSE s]
      /\ nq' = [nq EXCEPT ![n] = IF sends THEN q2 ELSE q]
      /\ sends => s.state = "ESTABLISHED"
  BY DEF node_rx_done, session_is_established
<1> HIDE DEF q, sends
<1>3. rep \in Seq(Mine(n)) /\ Len(rep) \in Nat
  BY <1>1, ReportsFit
<1> HIDE DEF rep
<1>4. q2 \in Queues(Mine(n), Node)
  BY <1>1, <1>3, SendAllQueue
<1>5. s2.state = s.state /\ s2.ss = s.ss
  BY <1>3, NextMsgIds
<1> HIDE DEF s2, q2
<1>6. /\ ns'[n] = (IF sends THEN s2 ELSE s) /\ nq'[n] = (IF sends THEN q2 ELSE q)
      /\ \A m \in Node \ {n} : ns'[m] = ns[m] /\ nq'[m] = nq[m]
  BY <1>2 DEF NodeTypeOK
<1> QED  BY <1>1, <1>2, <1>4, <1>5, <1>6 DEF q

\* A handler that leaves session and queue alone, and a good slot.
LEMMA RxKeeps ==
  ASSUME NodeTypeOK, NodeSafe, NEW n \in Node, NodeOrigin(n), node_rx_done(n, ns[n], nq[n]),
         UNCHANGED <<attempts, prng>>, \A m \in Node \ {n} : nrx'[m] = nrx[m],
         SlotGood(nrx'[n], "PK"), nrx'[n].owner # Nobody => ns[n].state = "WAIT_PK"
  PROVE  NodeEffect(n)
<1>1. ns[n] \in Session
  BY DEF NodeTypeOK
<1>2. /\ ns'[n].state = ns[n].state /\ ns'[n].ss = ns[n].ss
      /\ \A m \in Node \ {n} : ns'[m] = ns[m] /\ nq'[m] = nq[m]
      /\ nq'[n] \in Queues(Mine(n), Node)
      /\ queued(nq'[n]) \subseteq queued(nq[n]) \/ ns[n].state = "ESTABLISHED"
  <2> DEFINE s == ns[n]
  <2>1. node_rx_done(n, s, nq[n]) /\ s \in Session
    BY <1>1
  <2> HIDE DEF s
  <2>2. /\ ns'[n].state = s.state /\ ns'[n].ss = s.ss
        /\ \A m \in Node \ {n} : ns'[m] = ns[m] /\ nq'[m] = nq[m]
        /\ nq'[n] \in Queues(Mine(n), Node)
        /\ queued(nq'[n]) \subseteq queued(nq[n]) \/ s.state = "ESTABLISHED"
    BY <2>1, RxReports
  <2> QED  BY <2>2 DEF s
<1> QED  BY <1>2 DEF NodeEffect, NodeChange, NodeStays

\* A handler that assigns session and queue of n.
LEMMA EffectOf ==
  ASSUME NodeTypeOK, NEW n \in Node, NEW s, NEW q,
         ns' = [ns EXCEPT ![n] = s], nq' = [nq EXCEPT ![n] = q],
         ns'[n] = s => NodeChange(n),
         q \in Queues(Mine(n), Node), queued(q) \subseteq queued(nq[n]) \/ s.state # "IDLE",
         SlotGood(nrx'[n], "PK"), nrx'[n].owner # Nobody => s.state = "WAIT_PK",
         \A m \in Node \ {n} : nrx'[m] = nrx[m] /\ attempts'[m] = attempts[m] /\ prng'[m] = prng[m]
  PROVE  NodeEffect(n)
<1>1. /\ ns'[n] = s /\ nq'[n] = q
      /\ \A m \in Node \ {n} : ns'[m] = ns[m] /\ nq'[m] = nq[m]
  BY DEF NodeTypeOK
<1> QED  BY <1>1 DEF NodeEffect

\* The slot of a node that is released, or left as it is.
LEMMA FreedSlotGood ==
  ASSUME NodeTypeOK, NEW n \in Node, nrx' = [nrx EXCEPT ![n] = FreeSlot(Nobody)]
  PROVE  /\ SlotGood(nrx'[n], "PK") /\ nrx'[n].owner = Nobody
         /\ \A m \in Node \ {n} : nrx'[m] = nrx[m]
<1>1. nrx'[n] = FreeSlot(Nobody) /\ \A m \in Node \ {n} : nrx'[m] = nrx[m]
  BY DEF NodeTypeOK
<1>2. FreeSlot(Nobody).owner = Nobody /\ FreeSlot(Nobody).ctx = fragment_rx_init
  BY DEF FreeSlot
<1>3. fragment_rx_init.active = FALSE
  BY DEF fragment_rx_init
<1> QED  BY <1>1, <1>2, <1>3 DEF SlotGood

\* A node asks for the key.
LEMMA RequestPkEffect ==
  ASSUME NodeTypeOK, NodeSafe, NEW n \in Node, NodeOrigin(n), NodeRequestPk(n)
  PROVE  NodeEffect(n)
<1> DEFINE s1 == session_set_state(ns[n], "WAIT_PK")
           s  == session_set_pending(s1, "GETPK", 0)
           p  == GETPK(n)
           q  == pqc_udp_send_fragment(nq[n], p)
<1>1. /\ ns' = [ns EXCEPT ![n] = s] /\ nq' = [nq EXCEPT ![n] = q] /\ nrx' = nrx
      /\ attempts' = [attempts EXCEPT ![n] = @ + 1] /\ ns[n].state = "IDLE"
      /\ UNCHANGED prng
  BY DEF NodeRequestPk
<1>2. /\ s.state = "WAIT_PK" /\ s.ss = ns[n].ss
  <2>1. s1 \in Session /\ s1.state = "WAIT_PK" /\ s1.ss = ns[n].ss
    BY NodeFacts, SetState DEF States
  <2> HIDE DEF s1
  <2> QED  BY <2>1, Zeros, PendingGetpk
<1>3. p \in Mine(n)
  BY SinglePacketsFit
<1> HIDE DEF p
<1>4. q \in Queues(Mine(n), Node)
  BY <1>3, SendFragmentQueue DEF NodeOrigin
<1> HIDE DEF s, q
<1>5. attempts'[n] = attempts[n] + 1 /\ \A m \in Node \ {n} : attempts'[m] = attempts[m]
  BY <1>1 DEF NodeTypeOK
<1>6. ns'[n] = s => NodeChange(n)
  BY <1>1, <1>2, <1>5 DEF NodeChange, NodeBegins
<1>7. /\ SlotGood(nrx'[n], "PK") /\ (nrx'[n].owner # Nobody => s.state = "WAIT_PK")
      /\ \A m \in Node \ {n} : nrx'[m] = nrx[m] /\ attempts'[m] = attempts[m] /\ prng'[m] = prng[m]
  BY <1>1, <1>2, <1>5 DEF NodeOrigin
<1>8. queued(q) \subseteq queued(nq[n]) \/ s.state # "IDLE"
  BY <1>2
<1> QED  BY <1>1, <1>4, <1>6, <1>7, <1>8, EffectOf

\* A packet leaves the queue of a node; it is one of the node's own, and was queued.
LEMMA TxEffect ==
  ASSUME NodeTypeOK, NodeSafe, NEW n \in Node, NodeOrigin(n), NodeTx(n)
  PROVE  /\ NodeEffect(n) /\ UNCHANGED <<attempts, prng>>
         /\ pqc_tx_next(nq[n]) \in Mine(n) /\ pqc_tx_next(nq[n]) \in queued(nq[n])
<1> DEFINE s  == ns[n]
           q  == nq[n]
           q2 == pqc_tx_process(q)
<1>1. /\ nq' = [nq EXCEPT ![n] = q2] /\ active(q) # {}
      /\ UNCHANGED <<ns, nrx, attempts, prng>>
  BY DEF NodeTx
<1>2. \A p \in Mine(n) : p.node \in Node
  BY DEF Mine
<1>3. q \in Queues(Mine(n), Node) /\ ns' = [ns EXCEPT ![n] = s]
  BY <1>1, Kept DEF NodeOrigin
<1> HIDE DEF q, s
<1>4. /\ pqc_tx_next(q) \in queued(q) /\ pqc_tx_next(q) \in Mine(n)
      /\ q2 \in Queues(Mine(n), Node) /\ queued(q2) \subseteq queued(q)
  BY <1>1, <1>2, <1>3, ProcessQueue
<1> HIDE DEF q2
<1>5. ns'[n] = s => NodeChange(n)
  BY <1>1 DEF NodeChange, NodeStays
<1>6. /\ SlotGood(nrx'[n], "PK") /\ (nrx'[n].owner # Nobody => s.state = "WAIT_PK")
      /\ \A m \in Node \ {n} : nrx'[m] = nrx[m] /\ attempts'[m] = attempts[m] /\ prng'[m] = prng[m]
  BY <1>1 DEF NodeOrigin, s
<1>7. queued(q2) \subseteq queued(nq[n]) \/ s.state # "IDLE"
  BY <1>4 DEF q
<1>8. NodeEffect(n)
  BY <1>1, <1>3, <1>4, <1>5, <1>6, <1>7, EffectOf
<1> QED  BY <1>1, <1>4, <1>8 DEF q

\* A packet that is refused.
LEMMA RecvIgnoredEffect ==
  ASSUME NodeTypeOK, NodeSafe, NEW n \in Node, NodeOrigin(n), NEW p, NodeRecvIgnored(n, p)
  PROVE  NodeEffect(n)
<1>1. node_rx_done(n, ns[n], nq[n]) /\ UNCHANGED <<nrx, attempts, prng>>
  BY DEF NodeRecvIgnored
<1>2. /\ SlotGood(nrx'[n], "PK") /\ (nrx'[n].owner # Nobody => ns[n].state = "WAIT_PK")
      /\ \A m \in Node \ {n} : nrx'[m] = nrx[m]
  BY <1>1 DEF NodeOrigin
<1> QED  BY <1>1, <1>2, RxKeeps

\* The fragments a NACK asks for lie inside the ciphertext.
LEMMA RecvNackEffect ==
  ASSUME NodeTypeOK, NodeSafe, NEW n \in Node, NodeOrigin(n), NEW p \in Fitting, NodeRecvNack(n, p)
  PROVE  NodeEffect(n)
<1> DEFINE s  == ns[n]
           q  == nq[n]
           id == p.missing_msg_id
           fs == p.missing
           ct == node_ct[n]
           ps == ct_fragments(n, id, fs, ct)
           q2 == pqc_udp_send_all(q, ps)
           s1 == retry_in(s, "short")
           s2 == retry_in(s, "long")
<1>1. /\ UNCHANGED <<nrx, attempts, prng>> /\ p.kind = "NACK" /\ s.pending_msg_type = "CT"
      /\ p.missing_msg_type = "CT"
      /\ node_rx_done(n, s1, q) \/ node_rx_done(n, s2, q2)
  BY DEF NodeRecvNack
<1>2. id \in MsgId /\ fs \in SUBSET FragIdx("CT")
  BY <1>1 DEF Fitting, Fits, Packet
<1>3. s.state = "WAIT_ACK" /\ ct \in Secret /\ s \in Session /\ q \in Queues(Mine(n), Node)
  BY <1>1, NodeFacts DEF node_armed, NodeOrigin
<1>4. /\ s1.state = s.state /\ s1.ss = s.ss /\ s2.state = s.state /\ s2.ss = s.ss
  BY <1>3, RetryIn DEF Deadlines
<1> HIDE DEF id, fs, ct
<1>5. ps \in Seq(Mine(n))
  BY <1>2, <1>3, CtFragmentsFit
<1> HIDE DEF ps
<1>6. q2 \in Queues(Mine(n), Node)
  BY <1>3, <1>5, SendAllQueue
<1> HIDE DEF s1, s2, q2
<1>7. \/ ns' = [ns EXCEPT ![n] = s1] /\ nq' = [nq EXCEPT ![n] = q]
      \/ ns' = [ns EXCEPT ![n] = s2] /\ nq' = [nq EXCEPT ![n] = q2]
  <2>1. s1.state # "ESTABLISHED" /\ s2.state # "ESTABLISHED"
    BY <1>3, <1>4
  <2> HIDE DEF q
  <2> QED  BY <1>1, <2>1, RxSilent
<1>8. /\ SlotGood(nrx'[n], "PK") /\ nrx'[n].owner = Nobody
      /\ \A m \in Node \ {n} : nrx'[m] = nrx[m] /\ attempts'[m] = attempts[m] /\ prng'[m] = prng[m]
  BY <1>1, <1>3 DEF NodeOrigin
<1>9. CASE ns' = [ns EXCEPT ![n] = s1] /\ nq' = [nq EXCEPT ![n] = q]
  <2>1. ns'[n] = s1 => NodeChange(n)
    BY <1>1, <1>4 DEF NodeChange, NodeStays
  <2>2. s1.state # "IDLE"
    BY <1>3, <1>4
  <2> HIDE DEF q
  <2> QED  BY <1>3, <1>8, <1>9, <2>1, <2>2, EffectOf
<1>10. CASE ns' = [ns EXCEPT ![n] = s2] /\ nq' = [nq EXCEPT ![n] = q2]
  <2>1. ns'[n] = s2 => NodeChange(n)
    BY <1>1, <1>4 DEF NodeChange, NodeStays
  <2>2. s2.state # "IDLE"
    BY <1>3, <1>4
  <2> QED  BY <1>6, <1>8, <1>10, <2>1, <2>2, EffectOf
<1> QED  BY <1>7, <1>9, <1>10

\* A PK fragment that completes nothing: it is refused, or becomes part of a slot
\* that counts right.
LEMMA RecvPkPartEffect ==
  ASSUME NodeTypeOK, NodeSafe, NEW n \in Node, NodeOrigin(n), NEW p \in Fitting, NodeRecvPkPart(n, p)
  PROVE  NodeEffect(n)
<1> DEFINE old  == nrx[n]
           id   == p.msg_id
           f    == p.frag
           slot == slot_after(old, n, "PK", id, f, root_pk)
           nack == NACK(n, "PK", slot.ctx.msg_id, missing(slot.ctx))
           s1   == session_next_msg_id(ns[n])
           s2   == retry_in(s1, "short")
           q2   == pqc_udp_send_fragment(nq[n], nack)
           acc  == fragment_rx_accepts(old.ctx, "PK", id, f)
<1>1. /\ UNCHANGED <<attempts, prng>> /\ p.kind = "PK" /\ ns[n].state = "WAIT_PK"
      /\ acc => ~fragment_rx_complete(slot.ctx)
      /\ \/ /\ acc /\ nrx' = [nrx EXCEPT ![n] = rx_slot_note_nack(slot)]
            /\ node_rx_done(n, s2, q2)
         \/ nrx' = [nrx EXCEPT ![n] = slot] /\ node_rx_done(n, ns[n], nq[n])
  BY DEF NodeRecvPkPart
<1>2. id \in MsgId /\ f \in Nat /\ f \in FragIdx("PK")
  BY <1>1 DEF Fitting, Fits, Packet
<1>3. old \in RxSlot(Node \cup {Nobody}, MsgId, "PK", {root_pk}) /\ SlotGood(old, "PK")
  BY NodeFacts DEF NodeSlot, NodeOrigin
<1>4. s2.state = ns[n].state /\ s2.ss = ns[n].ss
  <2>1. s1 \in Session /\ s1.state = ns[n].state /\ s1.ss = ns[n].ss
    BY NodeFacts, NextMsgId
  <2> HIDE DEF s1
  <2> QED  BY <2>1, RetryIn DEF Deadlines
<1> HIDE DEF s2
<1>5. ASSUME acc PROVE SlotGood(slot, "PK") /\ slot.ctx.msg_type = "PK" /\ slot.ctx.msg_id = id
  <2> DEFINE c == root_pk
             r == slot_after(old, n, "PK", id, f, c)
  <2>1. /\ acc /\ slot = r /\ (acc => ~fragment_rx_complete(slot.ctx)) /\ f \in Nat
        /\ SlotShape(old, "PK") /\ SlotGood(old, "PK")
    BY <1>1, <1>2, <1>3, <1>5, SlotShapes
  <2> HIDE DEF c, old, id, f, slot
  <2>2. SlotTook(r, old, n, "PK", id, c)
    BY <2>1, SlotAfterGood
  <2> HIDE DEF r
  <2> QED  BY <2>1, <2>2 DEF SlotTook
<1>6. slot \in RxSlot(Node \cup {Nobody}, MsgId, "PK", {root_pk})
  <2> DEFINE c == root_pk
  <2>1. c \in {root_pk}
    OBVIOUS
  <2>2. slot = slot_after(old, n, "PK", id, f, c)
    OBVIOUS
  <2> HIDE DEF c, old, id, f, slot
  <2> QED  BY <1>2, <1>3, <2>1, <2>2, SlotAfter
<1>7. ASSUME ~acc PROVE SlotGood(slot, "PK")
  <2>1. old.owner # Nobody
    <3>1. f < total_frags("PK")
      BY <1>2, TotalFrags, FragsAssumption DEF FragIdx
    <3>2. old.ctx.active
      BY <1>7, <3>1 DEF fragment_rx_accepts
    <3> QED  BY <1>3, <3>2 DEF SlotGood
  <2> DEFINE x == fragment_rx_add(old.ctx, "PK", id, f, root_pk)
  <2>2. x = old.ctx
    BY <1>7 DEF fragment_rx_add
  <2>3. slot = [old EXCEPT !.ctx = x]
    BY <2>1 DEF slot_after
  <2> HIDE DEF x, old, slot
  <2>4. slot.owner = old.owner /\ slot.ctx = x
    BY <1>3, <2>3, Zenon DEF RxSlot
  <2> QED  BY <1>3, <2>2, <2>4 DEF SlotGood
<1>8. SlotGood(slot, "PK")
  BY <1>5, <1>7
<1>9. CASE /\ acc /\ nrx' = [nrx EXCEPT ![n] = rx_slot_note_nack(slot)]
           /\ node_rx_done(n, s2, q2)
  <2>1. nack \in Mine(n)
    <3> DEFINE rx == slot.ctx
               mi == rx.msg_id
    <3>1. rx.msg_type = "PK" /\ mi \in MsgId
      BY <1>2, <1>5, <1>9
    <3>2. nack = NACK(n, "PK", mi, missing(rx))
      OBVIOUS
    <3> HIDE DEF rx, mi, nack, slot
    <3> QED  BY <3>1, <3>2, NackFits
  <2> HIDE DEF nack
  <2>2. q2 \in Queues(Mine(n), Node)
    BY <2>1, SendFragmentQueue DEF NodeOrigin
  <2> HIDE DEF q2, slot
  <2>3. rx_slot_note_nack(slot).owner = slot.owner /\ rx_slot_note_nack(slot).ctx = slot.ctx
    BY <1>6, NoteNackKeeps
  <2>4. SlotGood(rx_slot_note_nack(slot), "PK")
    BY <1>8, <2>3 DEF SlotGood
  <2>5. /\ nrx'[n] = rx_slot_note_nack(slot)
        /\ \A m \in Node \ {n} : nrx'[m] = nrx[m] /\ attempts'[m] = attempts[m] /\ prng'[m] = prng[m]
    BY <1>1, <1>9 DEF NodeTypeOK
  <2>6. ns' = [ns EXCEPT ![n] = s2] /\ nq' = [nq EXCEPT ![n] = q2]
    <3>1. s2.state # "ESTABLISHED" /\ node_rx_done(n, s2, q2)
      BY <1>1, <1>4, <1>9
    <3> QED  BY <3>1, RxSilent
  <2>7. ns'[n] = s2 => NodeChange(n)
    BY <1>1, <1>4 DEF NodeChange, NodeStays
  <2>8. s2.state = "WAIT_PK"
    BY <1>1, <1>4
  <2> QED  BY <2>2, <2>4, <2>5, <2>6, <2>7, <2>8, EffectOf
<1>10. CASE nrx' = [nrx EXCEPT ![n] = slot] /\ node_rx_done(n, ns[n], nq[n])
  <2> HIDE DEF slot
  <2>1. nrx'[n] = slot /\ \A m \in Node \ {n} : nrx'[m] = nrx[m]
    BY <1>10 DEF NodeTypeOK
  <2>2. SlotGood(nrx'[n], "PK") /\ (nrx'[n].owner # Nobody => ns[n].state = "WAIT_PK")
    BY <1>1, <1>8, <2>1
  <2>3. node_rx_done(n, ns[n], nq[n]) /\ UNCHANGED <<attempts, prng>>
    BY <1>1, <1>10
  <2> QED  BY <2>1, <2>2, <2>3, RxKeeps
<1> QED  BY <1>1, <1>9, <1>10

\* The PK is complete: the node draws the one secret of this handshake.
LEMMA RecvPkCompleteEffect ==
  ASSUME NodeTypeOK, NodeSafe, NEW n \in Node, NodeOrigin(n), NEW p \in Packet,
         NodeRecvPkComplete(n, p)
  PROVE  NodeEffect(n)
<1> DEFINE slot == slot_after(nrx[n], n, "PK", p.msg_id, p.frag, root_pk)
           ct   == prng[n] + 1
           s    == [ns[n] EXCEPT !.ss = ct]
           id   == s.next_msg_id
           s1   == session_clear_pending(s)
           s2   == session_next_msg_id(s1)
           s3   == session_set_state(s2, "WAIT_ACK")
           s4   == session_set_pending(s3, "CT", id)
           sf   == session_set_failed(s)
           fs   == FragIdx("CT")
           ps   == ct_fragments(n, id, fs, ct)
           q2   == pqc_udp_send_all(nq[n], ps)
<1>1. /\ p.msg_id \in MsgId /\ p.frag \in Nat /\ ns[n].state = "WAIT_PK"
      /\ UNCHANGED attempts /\ prng' = [prng EXCEPT ![n] = @ + 1]
      /\ nrx' = [nrx EXCEPT ![n] = FreeSlot(Nobody)]
  BY DEF NodeRecvPkComplete, Packet
<1>2. node_rx_done(n, sf, nq[n]) \/ node_rx_done(n, s4, q2)
  BY DEF NodeRecvPkComplete
<1>3. ct \in Secret
  BY NodeFacts DEF Secret
<1> HIDE DEF slot, ct
<1>4. s \in Session /\ s.ss = ct /\ s.next_msg_id \in MsgId
  <2>1. s \in Session /\ s.ss = ct
    BY <1>3, NodeFacts, SetSecret
  <2> HIDE DEF s
  <2> QED  BY <2>1 DEF Session
<1> HIDE DEF s
<1>5. sf.state = "FAILED" /\ sf.ss = ct
  BY <1>4, SetFailed
<1>6. s4.state = "WAIT_ACK" /\ s4.ss = ct
  <2>1. s1 \in Session /\ s1.ss = ct
    BY <1>4, ClearPending
  <2> HIDE DEF s1
  <2>2. s2 \in Session /\ s2.ss = ct
    BY <2>1, NextMsgId
  <2> HIDE DEF s2
  <2>3. s3 \in Session /\ s3.state = "WAIT_ACK" /\ s3.ss = ct
    BY <2>2, SetState DEF States
  <2> HIDE DEF s3, id
  <2>4. id \in MsgId
    BY <1>4 DEF id
  <2> QED  BY <2>3, <2>4, PendingCt
<1>7. ps \in Seq(Mine(n))
  <2>1. fs \in SUBSET FragIdx("CT") /\ id \in MsgId
    BY <1>4
  <2> HIDE DEF fs, id
  <2> QED  BY <1>3, <2>1, CtFragmentsFit
<1> HIDE DEF ps
<1>8. q2 \in Queues(Mine(n), Node) /\ nq[n] \in Queues(Mine(n), Node)
  BY <1>7, SendAllQueue DEF NodeOrigin
<1> HIDE DEF sf, s4, q2
<1>9. /\ SlotGood(nrx'[n], "PK") /\ nrx'[n].owner = Nobody
      /\ \A m \in Node \ {n} : nrx'[m] = nrx[m] /\ attempts'[m] = attempts[m] /\ prng'[m] = prng[m]
  BY <1>1, FreedSlotGood DEF NodeTypeOK
<1>13. prng'[n] = prng[n] + 1 /\ ct = prng[n] + 1
  BY <1>1 DEF NodeTypeOK, ct
<1>10. \/ ns' = [ns EXCEPT ![n] = sf] /\ nq' = [nq EXCEPT ![n] = nq[n]]
       \/ ns' = [ns EXCEPT ![n] = s4] /\ nq' = [nq EXCEPT ![n] = q2]
  <2> DEFINE q == nq[n]
  <2>1. sf.state # "ESTABLISHED" /\ s4.state # "ESTABLISHED"
    BY <1>5, <1>6
  <2>2. node_rx_done(n, sf, q) \/ node_rx_done(n, s4, q2)
    BY <1>2
  <2> HIDE DEF q
  <2>3. \/ ns' = [ns EXCEPT ![n] = sf] /\ nq' = [nq EXCEPT ![n] = q]
        \/ ns' = [ns EXCEPT ![n] = s4] /\ nq' = [nq EXCEPT ![n] = q2]
    BY <2>1, <2>2, RxSilent
  <2> QED  BY <2>3 DEF q
<1>11. CASE ns' = [ns EXCEPT ![n] = sf] /\ nq' = [nq EXCEPT ![n] = nq[n]]
  <2> DEFINE q == nq[n]
  <2>1. /\ q \in Queues(Mine(n), Node) /\ nq' = [nq EXCEPT ![n] = q]
        /\ ns' = [ns EXCEPT ![n] = sf]
    BY <1>8, <1>11
  <2>2. ns'[n] = sf => NodeChange(n)
    BY <1>1, <1>5, <1>13 DEF NodeChange, NodeEncapsulates
  <2> HIDE DEF q
  <2> QED  BY <1>5, <1>9, <2>1, <2>2, EffectOf
<1>12. CASE ns' = [ns EXCEPT ![n] = s4] /\ nq' = [nq EXCEPT ![n] = q2]
  <2>1. ns'[n] = s4 => NodeChange(n)
    BY <1>1, <1>6, <1>13 DEF NodeChange, NodeEncapsulates
  <2> QED  BY <1>6, <1>8, <1>9, <1>12, <2>1, EffectOf
<1> QED  BY <1>10, <1>11, <1>12

\* An ACK confirms the secret of the pending ciphertext, or changes nothing.
LEMMA RecvAckEffect ==
  ASSUME NodeTypeOK, NodeSafe, NEW n \in Node, NodeOrigin(n), NEW p, NodeRecvAck(n, p)
  PROVE  NodeEffect(n)
<1> DEFINE s == session_set_established(ns[n])
<1>1. /\ ns[n].state = "WAIT_ACK" /\ UNCHANGED <<attempts, prng>>
      /\ nrx' = [nrx EXCEPT ![n] = FreeSlot(Nobody)] \/ UNCHANGED nrx
      /\ node_rx_done(n, ns[n], nq[n]) \/ node_rx_done(n, s, nq[n])
  BY DEF NodeRecvAck
<1>2. /\ SlotGood(nrx'[n], "PK") /\ nrx'[n].owner = Nobody
      /\ \A m \in Node \ {n} : nrx'[m] = nrx[m]
  <2>1. CASE nrx' = [nrx EXCEPT ![n] = FreeSlot(Nobody)]
    BY <2>1, FreedSlotGood
  <2>2. CASE UNCHANGED nrx
    BY <1>1, <2>2 DEF NodeOrigin
  <2> QED  BY <1>1, <2>1, <2>2
<1>3. CASE node_rx_done(n, ns[n], nq[n])
  BY <1>1, <1>2, <1>3, RxKeeps
<1>4. CASE node_rx_done(n, s, nq[n])
  <2>1. s \in Session /\ s.state = "ESTABLISHED" /\ s.ss = ns[n].ss
    BY NodeFacts, SetEstablished
  <2> HIDE DEF s
  <2>2. /\ ns'[n].state = s.state /\ ns'[n].ss = s.ss
        /\ \A m \in Node \ {n} : ns'[m] = ns[m] /\ nq'[m] = nq[m]
        /\ nq'[n] \in Queues(Mine(n), Node)
    BY <1>4, <2>1, RxReports
  <2>3. NodeChange(n)
    BY <1>1, <2>1, <2>2 DEF NodeChange, NodeConfirmed
  <2> QED  BY <1>1, <1>2, <2>1, <2>2, <2>3 DEF NodeEffect
<1> QED  BY <1>1, <1>3, <1>4

\* The retry timer of a node.
LEMMA RetryPostponedEffect ==
  ASSUME NodeTypeOK, NodeSafe, NEW n \in Node, NodeOrigin(n), NodeRetryPostponed(n),
         UNCHANGED <<attempts, prng>>
  PROVE  NodeEffect(n)
<1> DEFINE s == retry_in(ns[n], "short")
           q == nq[n]
<1>1. ns' = [ns EXCEPT ![n] = s] /\ UNCHANGED <<nrx, nq>>
  BY DEF NodeRetryPostponed
<1>2. s.state = ns[n].state /\ s.ss = ns[n].ss
  BY NodeFacts, RetryIn DEF Deadlines
<1> HIDE DEF s
<1>3. q \in Queues(Mine(n), Node) /\ nq' = [nq EXCEPT ![n] = q] /\ queued(q) \subseteq queued(nq[n])
  BY <1>1, Kept DEF NodeOrigin
<1>4. ns'[n] = s => NodeChange(n)
  BY <1>2 DEF NodeChange, NodeStays
<1>5. /\ SlotGood(nrx'[n], "PK") /\ (nrx'[n].owner # Nobody => s.state = "WAIT_PK")
      /\ \A m \in Node \ {n} : nrx'[m] = nrx[m] /\ attempts'[m] = attempts[m] /\ prng'[m] = prng[m]
  BY <1>1, <1>2 DEF NodeOrigin
<1> HIDE DEF q
<1> QED  BY <1>1, <1>3, <1>4, <1>5, EffectOf

\* Every way a node goes back to IDLE.
LEMMA ResetEffect ==
  ASSUME NodeTypeOK, NEW n \in Node, ns' = [ns EXCEPT ![n] = session_init], UNCHANGED attempts,
         (ns[n].state # "ESTABLISHED" /\ UNCHANGED prng) \/ prng' = [prng EXCEPT ![n] = 0],
         NEW q \in Queues(Mine(n), Node), nq' = [nq EXCEPT ![n] = q],
         queued(q) \subseteq queued(nq[n]),
         SlotGood(nrx'[n], "PK"), nrx'[n].owner = Nobody, \A m \in Node \ {n} : nrx'[m] = nrx[m]
  PROVE  NodeEffect(n)
<1> DEFINE s == session_init
<1>1. s.state = "IDLE" /\ s.ss = NoSecret /\ ns' = [ns EXCEPT ![n] = s]
  BY InitSession
<1> HIDE DEF s
<1>2. ns'[n] = s => NodeChange(n)
  <2>1. (ns[n].state # "ESTABLISHED" /\ prng'[n] = prng[n]) \/ prng'[n] = 0
    BY DEF NodeTypeOK
  <2> QED  BY <1>1, <2>1 DEF NodeChange, NodeResets
<1>3. \A m \in Node \ {n} : nrx'[m] = nrx[m] /\ attempts'[m] = attempts[m] /\ prng'[m] = prng[m]
  BY DEF NodeTypeOK
<1> QED  BY <1>1, <1>2, <1>3, EffectOf

\* A node gives up, resets a failed session, or restarts.
LEMMA GiveUpEffect ==
  ASSUME NodeTypeOK, NodeSafe, NEW n \in Node, NodeOrigin(n),
         \/ /\ NodeRetryExhausted(n) /\ UNCHANGED <<attempts, prng>>
            /\ ns[n].state # "ESTABLISHED"
         \/ NodeFailReset(n) \/ NodeReboot(n)
  PROVE  NodeEffect(n)
<1> DEFINE q == nq[n]
           e == pqc_tx_init
<1>1. ns' = [ns EXCEPT ![n] = session_init] /\ UNCHANGED attempts
  BY InitSession DEF NodeRetryExhausted, NodeFailReset, NodeReboot, node_fail_reset
<1>5. (ns[n].state # "ESTABLISHED" /\ UNCHANGED prng) \/ prng' = [prng EXCEPT ![n] = 0]
  BY DEF NodeFailReset, NodeReboot, session_is_failed
<1>2. /\ q \in Queues(Mine(n), Node) /\ queued(q) \subseteq queued(nq[n])
      /\ e \in Queues(Mine(n), Node) /\ queued(e) \subseteq queued(nq[n])
  BY InitQueue DEF NodeOrigin
<1>3. nq' = [nq EXCEPT ![n] = q] \/ nq' = [nq EXCEPT ![n] = e]
  BY Kept DEF NodeRetryExhausted, NodeFailReset, NodeReboot
<1>4. /\ SlotGood(nrx'[n], "PK") /\ nrx'[n].owner = Nobody
      /\ \A m \in Node \ {n} : nrx'[m] = nrx[m]
  <2>1. CASE NodeFailReset(n)
    BY <2>1 DEF NodeFailReset, session_is_failed, NodeOrigin
  <2>2. CASE NodeRetryExhausted(n) \/ NodeReboot(n)
    <3>1. nrx' = [nrx EXCEPT ![n] = FreeSlot(Nobody)]
      BY <2>2 DEF NodeRetryExhausted, NodeReboot
    <3> QED  BY <3>1, FreedSlotGood
  <2> QED  BY <2>1, <2>2
<1> HIDE DEF q, e
<1> QED  BY <1>1, <1>2, <1>3, <1>4, <1>5, ResetEffect

\* The receive slot of a node times out.
LEMMA RxTimeoutEffect ==
  ASSUME NodeTypeOK, NodeSafe, NEW n \in Node, NodeOrigin(n), NodeRxTimeout(n)
  PROVE  NodeEffect(n)
<1>1. nrx' = [nrx EXCEPT ![n] = FreeSlot(Nobody)] /\ UNCHANGED <<ns, nq, attempts, prng>>
  BY DEF NodeRxTimeout
<1>2. /\ SlotGood(nrx'[n], "PK") /\ nrx'[n].owner = Nobody
      /\ \A m \in Node \ {n} : nrx'[m] = nrx[m]
  BY <1>1, FreedSlotGood
<1>3. NodeChange(n)
  BY <1>1 DEF NodeChange, NodeStays
<1> QED  BY <1>1, <1>2, <1>3 DEF NodeEffect, NodeOrigin

\* The pending message again.
LEMMA RetrySendEffect ==
  ASSUME NodeTypeOK, NodeSafe, NEW n \in Node, NodeOrigin(n), NodeRetrySend(n), UNCHANGED <<attempts, prng>>
  PROVE  NodeEffect(n)
<1> DEFINE s  == hs_mark_retry(ns[n])
           ct == node_ct[n]
           id == ns[n].pending_msg_id
           fs == FragIdx("CT")
           p  == GETPK(n)
           ps == ct_fragments(n, id, fs, ct)
           q1 == pqc_udp_send_fragment(nq[n], p)
           q2 == pqc_udp_send_all(nq[n], ps)
<1>1. /\ ns' = [ns EXCEPT ![n] = s] /\ nrx' = [nrx EXCEPT ![n] = FreeSlot(Nobody)]
      /\ session_can_retry(ns[n]) /\ ns[n].pending_msg_type \in {"GETPK", "CT"}
      /\ nq' = [nq EXCEPT ![n] = q1] \/ nq' = [nq EXCEPT ![n] = q2]
  BY DEF NodeRetrySend
<1>2. s.state = ns[n].state /\ s.ss = ns[n].ss
  BY <1>1, NodeFacts, MarkRetry
<1>3. s.state # "IDLE"
  BY <1>1, <1>2, NodeFacts DEF node_armed
<1> HIDE DEF s
<1>4. ct \in Secret /\ id \in MsgId /\ fs \in SUBSET FragIdx("CT")
  BY NodeFacts DEF Session
<1>5. p \in Mine(n)
  BY SinglePacketsFit
<1> HIDE DEF ct, id, fs, p
<1>6. ps \in Seq(Mine(n))
  BY <1>4, CtFragmentsFit
<1> HIDE DEF ps
<1>7. q1 \in Queues(Mine(n), Node) /\ q2 \in Queues(Mine(n), Node)
  BY <1>5, <1>6, SendFragmentQueue, SendAllQueue DEF NodeOrigin
<1> HIDE DEF q1, q2
<1>8. ns'[n] = s => NodeChange(n)
  BY <1>2 DEF NodeChange, NodeStays
<1>9. /\ SlotGood(nrx'[n], "PK") /\ nrx'[n].owner = Nobody
      /\ \A m \in Node \ {n} : nrx'[m] = nrx[m] /\ attempts'[m] = attempts[m] /\ prng'[m] = prng[m]
  BY <1>1, FreedSlotGood
<1> QED  BY <1>1, <1>3, <1>7, <1>8, <1>9, EffectOf

-----------------------------------------------------------------------------
(* Steps of a node.                                                        *)

\* What reaches the root from n is n's own, what reaches n fits.
Channels(n) == up[n] \in Seq(Own(attempts[n])) /\ down[n] \in Seq(Fitting)

\* A packet that node n sends is its own.
LEMMA SentIsOwn ==
  ASSUME NodeTypeOK, NodeSafe, NEW n \in Node, NodeOrigin(n), NEW p \in Mine(n), p \in queued(nq[n])
  PROVE  p.node = n /\ p \in Own(attempts[n])
<1>1. p \in Fitting /\ p.node = n /\ attempts[n] > 0
  BY DEF Mine, NodeOrigin
<1>2. p.kind = "CT" => p.ct \in Drawn(attempts[n])
  BY NodeFacts DEF CtsAreCurrent, NodeOrigin, SecretMatches
<1> QED  BY <1>1, <1>2 DEF Own

\* Every step of a node has one of the effects above, and leaves packets of the
\* same origin in the network.
LEMMA NodeStepEffect ==
  ASSUME TypeOK, NodeSafe, NEW n \in Node, NodeStep(n),
         \A m \in Node : NodeOrigin(m), \A m \in Node : Channels(m)
  PROVE  /\ NodeEffect(n)
         /\ \A m \in Node : /\ down'[m] \in Seq(Fitting)
                            /\ \/ up'[m] = up[m]
                               \/ /\ up'[m] \in Seq(Own(attempts[m]))
                                  /\ attempts'[m] = attempts[m]
<1>1. /\ NodeTypeOK /\ NetTypeOK /\ NodeOrigin(n)
      /\ \A m \in Node : up[m] \in Seq(Own(attempts[m])) /\ down[m] \in Seq(Fitting)
  BY DEF TypeOK, Channels
<1>2. CASE NodeRequestPk(n)
  BY <1>1, <1>2, RequestPkEffect DEF NodeRequestPk, netVars
<1>3. CASE NodeTx(n)
  <2> DEFINE p == pqc_tx_next(nq[n])
  <2>1. NodeEffect(n) /\ UNCHANGED attempts /\ p \in Mine(n) /\ p \in queued(nq[n])
    BY <1>1, <1>3, TxEffect
  <2>2. udp_send(up, p) /\ UNCHANGED down
    BY <1>3 DEF NodeTx
  <2> HIDE DEF p
  <2>3. p.node = n /\ p \in Own(attempts[n])
    BY <1>1, <2>1, SentIsOwn
  <2>4. CASE up' = [up EXCEPT ![p.node] = Append(@, p)]
    <3>1. Append(up[n], p) \in Seq(Own(attempts[n]))
      BY <1>1, <2>3, AppendProperties
    <3>2. up'[n] = Append(up[n], p) /\ \A m \in Node \ {n} : up'[m] = up[m]
      BY <1>1, <2>3, <2>4 DEF NetTypeOK
    <3> QED  BY <1>1, <2>1, <2>2, <3>1, <3>2
  <2>5. CASE UNCHANGED up
    BY <1>1, <2>1, <2>2, <2>5
  <2> QED  BY <2>2, <2>4, <2>5 DEF udp_send
<1>4. CASE NodeRecv(n)
  <2>1. PICK i \in DOMAIN down[n] :
          /\ udp_deliver(down, n, i)
          /\ \/ NodeRecvIgnored(n, down[n][i]) \/ NodeRecvNack(n, down[n][i])
             \/ NodeRecvPkPart(n, down[n][i]) \/ NodeRecvPkComplete(n, down[n][i])
             \/ NodeRecvAck(n, down[n][i])
    BY <1>4 DEF NodeRecv
  <2>2. down[n] \in Seq(Fitting) /\ i \in 1 .. Len(down[n])
    BY <1>1
  <2>3. NodeEffect(n)
    <3> DEFINE p == down[n][i]
    <3>1. /\ p \in Fitting /\ p \in Packet
          /\ \/ NodeRecvIgnored(n, p) \/ NodeRecvNack(n, p) \/ NodeRecvPkPart(n, p)
             \/ NodeRecvPkComplete(n, p) \/ NodeRecvAck(n, p)
      BY <2>1, <2>2 DEF Fitting
    <3> HIDE DEF p
    <3> QED  BY <1>1, <3>1, RecvIgnoredEffect, RecvNackEffect, RecvPkPartEffect,
                RecvPkCompleteEffect, RecvAckEffect
  <2>4. UNCHANGED up
    BY <1>4 DEF NodeRecv
  <2>5. RemoveAt(down[n], i) \in Seq(Fitting)
    BY <2>2, RemoveAtType
  <2>6. down' = [down EXCEPT ![n] = RemoveAt(@, i)] \/ UNCHANGED down
    BY <2>1 DEF udp_deliver
  <2>7. \A m \in Node : down'[m] \in Seq(Fitting)
    BY <1>1, <2>5, <2>6 DEF NetTypeOK
  <2> QED  BY <2>3, <2>4, <2>7
<1>5. CASE NodeRetry(n)
  <2>1. /\ NodeRetryPostponed(n) \/ NodeRetryExhausted(n) \/ NodeRetrySend(n)
        /\ UNCHANGED <<attempts, prng, up, down>> /\ ns[n].state # "ESTABLISHED"
    <3>1. ~session_is_established(ns[n])
      BY <1>5 DEF NodeRetry
    <3>2. ns[n].state # "ESTABLISHED"
      BY <1>1, <3>1, NodeFacts DEF node_armed, armed, session_is_established
    <3> QED  BY <1>5, <3>2 DEF NodeRetry
  <2>2. NodeEffect(n)
    BY <1>1, <2>1, RetryPostponedEffect, GiveUpEffect, RetrySendEffect
  <2> QED  BY <1>1, <2>1, <2>2
<1>6. CASE NodeFailReset(n) \/ NodeReboot(n)
  <2>1. NodeEffect(n)
    BY <1>1, <1>6, GiveUpEffect
  <2>2. UNCHANGED <<up, down>>
    BY <1>6 DEF NodeFailReset, NodeReboot, netVars
  <2> QED  BY <1>1, <2>1, <2>2
<1>7. CASE NodeRxTimeout(n)
  BY <1>1, <1>7, RxTimeoutEffect DEF NodeRxTimeout
<1> QED  BY <1>2, <1>3, <1>4, <1>5, <1>6, <1>7 DEF NodeStep

\* With it, every step of a node preserves where things come from.
LEMMA NodeStepOrigin ==
  ASSUME IInv, IInv', OriginInv, NEW n \in Node, NodeStep(n)
  PROVE  OriginInv'
<1>1. /\ TypeOK /\ NodeSafe /\ NodeTypeOK /\ NodeTypeOK' /\ \A m \in Node : NodeOrigin(m)
      /\ \A m \in Node : Channels(m)
  BY DEF IInv, TypeOK, OriginInv, NetOrigin, Channels
<1>2. /\ NodeEffect(n)
      /\ \A m \in Node : /\ down'[m] \in Seq(Fitting)
                         /\ \/ up'[m] = up[m]
                            \/ /\ up'[m] \in Seq(Own(attempts[m]))
                               /\ attempts'[m] = attempts[m]
  BY <1>1, NodeStepEffect
<1>3. /\ (\A m \in Node : NodeOrigin(m))'
      /\ \A m \in Node : attempts[m] \in Nat /\ attempts'[m] \in Nat /\ attempts[m] <= attempts'[m]
  BY <1>1, <1>2, EffectPreserves
<1>4. UNCHANGED rootVars
  BY <1>1, NodeStepPreserves
<1>5. \A m \in Node : /\ Drawn(attempts[m]) \subseteq Drawn(attempts'[m])
                      /\ Own(attempts[m]) \subseteq Own(attempts'[m])
  BY <1>3, OwnGrows
<1>6. ASSUME NEW m \in Node PROVE up'[m] \in Seq(Own(attempts'[m]))
  <2>1. up[m] \in Seq(Own(attempts[m]))
    BY <1>1 DEF Channels
  <2>2. CASE up'[m] = up[m]
    <3> DEFINE A == Own(attempts[m])
               B == Own(attempts'[m])
    <3>1. A \subseteq B /\ up[m] \in Seq(A)
      BY <1>5, <2>1
    <3> HIDE DEF A, B
    <3>2. up[m] \in Seq(B)
      BY <3>1
    <3> QED  BY <2>2, <3>2 DEF B
  <2>3. CASE up'[m] \in Seq(Own(attempts[m])) /\ attempts'[m] = attempts[m]
    BY <2>3
  <2> QED  BY <1>2, <2>2, <2>3
<1>7. NetOrigin'
  BY <1>2, <1>4, <1>6 DEF OriginInv, NetOrigin, rootVars
<1>8. (\A m \in Node : RootOrigin(m))'
  BY <1>4, <1>5 DEF OriginInv, RootOrigin, rootVars
<1>9. SlotOrigin'
  BY <1>4, <1>5 DEF OriginInv, SlotOrigin, rootVars
<1> QED  BY <1>3, <1>7, <1>8, <1>9 DEF OriginInv

-----------------------------------------------------------------------------
(* What a step of the root does to the secret it has for a node.           *)

\* The session of n in one step: it stays (a session may be created), a GETPK
\* restarts it, a ciphertext of n establishes it, or the handshake is given up.
RootStays(n) ==
  /\ rs'[n].state = rs[n].state \/ (rs[n].state = "UNUSED" /\ rs'[n].state = "IDLE")
  /\ rs'[n].ss = rs[n].ss
RootRestarts(n) ==
  attempts[n] > 0 /\ rs'[n].state \in {"IDLE", "WAIT_CT"} /\ rs'[n].ss = NoSecret
RootEstablishes(n) ==
  /\ rs[n].state = "WAIT_CT" /\ rs'[n].state = "ESTABLISHED"
  /\ rs'[n].ss \in Drawn(attempts[n])
RootGivesUp(n) ==
  /\ rs[n].state # "ESTABLISHED" /\ rs'[n].state \in {"IDLE", "FAILED"}
  /\ rs'[n].ss = NoSecret

RootChange(n) == RootStays(n) \/ RootRestarts(n) \/ RootEstablishes(n) \/ RootGivesUp(n)

\* A step for n as a whole, as far as OriginInv looks at it.
RootEffect(n) ==
  /\ RootChange(n) /\ \A m \in Node \ {n} : rs'[m] = rs[m]
  /\ rq' \in Queues(Fitting, Node)
  /\ SlotOrigin'

\* A handler that assigns the session of n and the queue.
LEMMA RootEffectOf ==
  ASSUME RootTypeOK, NEW n \in Node, NEW s, NEW q \in Queues(Fitting, Node),
         rs' = [rs EXCEPT ![n] = s], rq' = q, SlotOrigin',
         rs'[n] = s => RootChange(n)
  PROVE  RootEffect(n)
<1>1. rs'[n] = s /\ \A m \in Node \ {n} : rs'[m] = rs[m]
  BY DEF RootTypeOK
<1> QED  BY <1>1 DEF RootEffect

\* A session that a handler leaves with the same state and secret.
LEMMA KeptSession ==
  ASSUME NEW n \in Node, NEW s, s.state = rs[n].state, s.ss = rs[n].ss, rs'[n] = s
  PROVE  RootChange(n)
BY DEF RootChange, RootStays

\* Slots that are left alone.
LEMMA SlotsKept ==
  ASSUME SlotOrigin, UNCHANGED <<rx_slots, attempts>>
  PROVE  SlotOrigin'
BY DEF SlotOrigin

\* A free slot is clean.
LEMMA FreeSlotClean ==
  FreeSlot(Nobody).owner = Nobody /\ ~FreeSlot(Nobody).ctx.active
<1>1. FreeSlot(Nobody).owner = Nobody /\ FreeSlot(Nobody).ctx = fragment_rx_init
  BY DEF FreeSlot
<1> QED  BY <1>1 DEF fragment_rx_init

\* One slot is released.
LEMMA SlotFreed ==
  ASSUME RootTypeOK, SlotOrigin, UNCHANGED attempts, NEW i \in 1 .. RxSlots,
         rx_slots' = [rx_slots EXCEPT ![i] = FreeSlot(Nobody)]
  PROVE  SlotOrigin'
<1>1. /\ rx_slots'[i] = FreeSlot(Nobody)
      /\ \A j \in 1 .. RxSlots : j # i => rx_slots'[j] = rx_slots[j]
  BY DEF RootTypeOK
<1>2. /\ rx_slots'[i].owner = Nobody /\ ~rx_slots'[i].ctx.active
  BY <1>1, FreeSlotClean
<1>3. ASSUME NEW j \in 1 .. RxSlots
      PROVE  /\ SlotGood(rx_slots'[j], "CT")
             /\ \A n \in Node : rx_slots'[j].owner = n =>
                  contents(rx_slots'[j].ctx) \subseteq Drawn(attempts'[n])
  <2>1. CASE j = i
    BY <1>2, <2>1, NodeAssumption DEF SlotGood
  <2>2. CASE j # i
    BY <1>1, <2>2 DEF SlotOrigin
  <2> QED  BY <2>1, <2>2
<1>4. \A j, k \in 1 .. RxSlots :
        rx_slots'[j].owner # Nobody /\ rx_slots'[j].owner = rx_slots'[k].owner => j = k
  BY <1>1, <1>2 DEF SlotOrigin
<1> QED  BY <1>3, <1>4 DEF SlotOrigin

\* rx_slot_release finds at most one slot.
LEMMA SlotsReleased ==
  ASSUME RootTypeOK, SlotOrigin, UNCHANGED attempts, NEW n, rx_slots' = released(rx_slots, n)
  PROVE  SlotOrigin'
<1>1. CASE owned(rx_slots, n) = {}
  BY <1>1, SlotsKept DEF released
<1>2. CASE owned(rx_slots, n) # {}
  <2> DEFINE i == first_of(owned(rx_slots, n))
  <2>1. i \in 1 .. RxSlots /\ rx_slots' = [rx_slots EXCEPT ![i] = FreeSlot(Nobody)]
    BY <1>2, OwnedSlots DEF released
  <2> HIDE DEF i
  <2> QED  BY <2>1, SlotFreed
<1> QED  BY <1>1, <1>2

\* rx_slot_get returns the slot of n, or a free one when n has none.
LEMMA SlotFound ==
  ASSUME RootTypeOK, NEW n \in Node, NEW i \in slot_for(rx_slots, n)
  PROVE  /\ i \in 1 .. RxSlots
         /\ \/ rx_slots[i].owner = n
            \/ rx_slots[i].owner = Nobody /\ \A j \in 1 .. RxSlots : rx_slots[j].owner # n
<1>1. \A m : owned(rx_slots, m) = {j \in 1 .. RxSlots : rx_slots[j].owner = m}
  BY DEF owned, RootTypeOK
<1>2. i \in 1 .. RxSlots
  BY OwnedSlots
<1>3. ASSUME NEW m, owned(rx_slots, m) # {}
      PROVE  first_of(owned(rx_slots, m)) \in owned(rx_slots, m)
  <2> DEFINE S == owned(rx_slots, m)
  <2>1. S \in SUBSET Nat /\ S # {}
    BY <1>1, <1>3, SizeAssumption
  <2> HIDE DEF S
  <2>2. first_of(S) \in S
    BY <2>1, FirstOfIsIn
  <2> QED  BY <2>2 DEF S
<1>4. CASE owned(rx_slots, n) # {}
  <2>1. i \in owned(rx_slots, n)
    BY <1>3, <1>4 DEF slot_for
  <2> QED  BY <1>1, <1>2, <2>1
<1>5. CASE owned(rx_slots, n) = {}
  <2>1. i \in owned(rx_slots, Nobody)
    BY <1>3, <1>5 DEF slot_for
  <2> QED  BY <1>1, <1>2, <1>5, <2>1
<1> QED  BY <1>4, <1>5

\* The slot found for n takes a fragment of a ciphertext of n.
LEMMA SlotFilled ==
  ASSUME RootTypeOK, SlotOrigin, UNCHANGED attempts, NEW n \in Node,
         NEW i \in slot_for(rx_slots, n), NEW r, rx_slots' = [rx_slots EXCEPT ![i] = r],
         r.owner = n, SlotGood(r, "CT"), contents(r.ctx) \subseteq Drawn(attempts[n])
  PROVE  SlotOrigin'
<1>1. /\ i \in 1 .. RxSlots
      /\ \/ rx_slots[i].owner = n
         \/ rx_slots[i].owner = Nobody /\ \A j \in 1 .. RxSlots : rx_slots[j].owner # n
  BY SlotFound
<1>2. /\ rx_slots'[i] = r /\ \A j \in 1 .. RxSlots : j # i => rx_slots'[j] = rx_slots[j]
  BY <1>1 DEF RootTypeOK
<1>3. ASSUME NEW j \in 1 .. RxSlots
      PROVE  /\ SlotGood(rx_slots'[j], "CT")
             /\ \A m \in Node : rx_slots'[j].owner = m =>
                  contents(rx_slots'[j].ctx) \subseteq Drawn(attempts'[m])
  <2>1. CASE j = i
    BY <1>2, <2>1
  <2>2. CASE j # i
    BY <1>2, <2>2 DEF SlotOrigin
  <2> QED  BY <2>1, <2>2
<1>4. ASSUME NEW j \in 1 .. RxSlots, j # i
      PROVE  rx_slots[j].owner # n
  BY <1>1, <1>4, NodeAssumption DEF SlotOrigin
<1>5. \A j, k \in 1 .. RxSlots :
        rx_slots'[j].owner # Nobody /\ rx_slots'[j].owner = rx_slots'[k].owner => j = k
  BY <1>2, <1>4 DEF SlotOrigin
<1> QED  BY <1>3, <1>5 DEF SlotOrigin

\* The session session_manager_get_or_create returns has the secret of the node's.
LEMMA SessionFound ==
  ASSUME NEW n \in Node, RootOrigin(n)
  PROVE  /\ root_session(n).ss = rs[n].ss
         /\ \/ root_session(n).state = rs[n].state
            \/ rs[n].state = "UNUSED" /\ root_session(n).state = "IDLE"
<1>1. CASE rs[n].state = "UNUSED"
  <2>1. root_session(n) = session_init /\ rs[n].ss = NoSecret
    BY <1>1 DEF root_session, RootOrigin
  <2> QED  BY <1>1, <2>1, InitSession
<1>2. CASE rs[n].state # "UNUSED"
  BY <1>2 DEF root_session
<1> QED  BY <1>1, <1>2

\* GETPK: the secret of the session is wiped.
LEMMA RecvGetpkEffect ==
  ASSUME RootTypeOK, RootSafe, NEW n \in Node, RootOrigin(n), SlotOrigin, UNCHANGED attempts,
         rq \in Queues(Fitting, Node), NEW p \in Own(attempts[n]), RootRecvGetpk(n, p)
  PROVE  RootEffect(n)
<1> DEFINE idle == root_session(n).state = "IDLE"
           s    == IF idle THEN root_session(n) ELSE session_reset
           q    == IF idle THEN rq ELSE pqc_tx_drop_node(rq, n)
           id   == s.next_msg_id
           fs   == FragIdx("PK")
           s1   == session_next_msg_id(s)
           s2   == session_set_state(s1, "WAIT_CT")
           s3   == session_set_pending(s2, "PK", id)
           ps   == pk_fragments(n, id, fs)
           q2   == pqc_udp_send_all(q, ps)
<1>1. /\ UNCHANGED rx_slots
      /\ \/ rs' = [rs EXCEPT ![n] = s] /\ rq' = q
         \/ rs' = [rs EXCEPT ![n] = s3] /\ rq' = q2
  BY DEF RootRecvGetpk
<1>2. SlotOrigin' /\ attempts[n] > 0
  BY <1>1, SlotsKept DEF Own
<1>3. s \in Session /\ s.state = "IDLE" /\ s.ss = NoSecret
  <2>1. CASE idle
    <3>1. s = root_session(n) /\ s.state = "IDLE"
      BY <2>1
    <3>2. rs[n].ss = NoSecret
      BY <2>1, SessionFound DEF RootOrigin
    <3> QED  BY <3>1, <3>2, SessionFound, RootSession
  <2>2. CASE ~idle
    BY <2>2, InitSession
  <2> QED  BY <2>1, <2>2
<1>4. q \in Queues(Fitting, Node)
  BY DropNodeQueue
<1> HIDE DEF s, q
<1>5. id \in MsgId /\ fs \in SUBSET FragIdx("PK")
  BY <1>3 DEF Session, RootTypeOK
<1> HIDE DEF id, fs
<1>6. s3.state = "WAIT_CT" /\ s3.ss = NoSecret
  <2>1. s1 \in Session /\ s1.ss = NoSecret
    BY <1>3, NextMsgId
  <2> HIDE DEF s1
  <2>2. s2 \in Session /\ s2.state = "WAIT_CT" /\ s2.ss = NoSecret
    BY <2>1, SetState DEF States
  <2> HIDE DEF s2
  <2> QED  BY <1>5, <2>2, PendingPk
<1>7. ps \in Seq(Fitting)
  BY <1>5, PkFragmentsFit
<1> HIDE DEF s3, ps
<1>8. q2 \in Queues(Fitting, Node)
  BY <1>4, <1>7, SendAllQueue
<1> HIDE DEF q2
<1>9. (rs'[n] = s => RootChange(n)) /\ (rs'[n] = s3 => RootChange(n))
  BY <1>2, <1>3, <1>6 DEF RootChange, RootRestarts
<1> QED  BY <1>1, <1>2, <1>4, <1>8, <1>9, RootEffectOf

\* send_ack leaves state and secret, and queues a packet that fits.
LEMMA AckFits ==
  ASSUME NEW n \in Node, NEW id \in MsgId, NEW q \in Queues(Fitting, Node), NEW s \in Session
  PROVE  /\ ack_queue(n, q, id) \in Queues(Fitting, Node)
         /\ ack_session(s, q).state = s.state /\ ack_session(s, q).ss = s.ss
<1> DEFINE p == ACK(n, id)
<1>1. p \in Fitting
  BY SinglePacketsFit DEF Mine
<1> HIDE DEF p
<1>2. pqc_udp_send_fragment(q, p) \in Queues(Fitting, Node)
  BY <1>1, SendFragmentQueue
<1>3. ack_queue(n, q, id) \in Queues(Fitting, Node)
  BY <1>2 DEF ack_queue, p
<1>4. ack_session(s, q).state = s.state /\ ack_session(s, q).ss = s.ss
  BY NextMsgId DEF ack_session
<1> QED  BY <1>3, <1>4

\* A CT fragment for an established session.
LEMMA RecvCtDuplicateEffect ==
  ASSUME RootTypeOK, RootSafe, NEW n \in Node, SlotOrigin, UNCHANGED attempts,
         rq \in Queues(Fitting, Node), NEW p \in Packet, RootRecvCtDuplicate(n, p)
  PROVE  RootEffect(n)
<1> DEFINE edge == p.frag = 0 \/ p.frag + 1 = CtFrags
           id   == p.msg_id
           s0   == rs[n]
           s    == IF edge THEN ack_session(s0, rq) ELSE s0
           q    == IF edge THEN ack_queue(n, rq, id) ELSE rq
<1>1. /\ rs' = [rs EXCEPT ![n] = s] /\ rq' = q /\ UNCHANGED rx_slots /\ id \in MsgId
  BY DEF RootRecvCtDuplicate, Packet
<1>2. SlotOrigin' /\ s0 \in Session /\ s0 = rs[n]
  BY <1>1, SlotsKept DEF RootTypeOK
<1> HIDE DEF edge, id, s0
<1>3. q \in Queues(Fitting, Node) /\ s.state = s0.state /\ s.ss = s0.ss
  BY <1>1, <1>2, AckFits
<1> HIDE DEF s, q
<1>4. rs'[n] = s => RootChange(n)
  BY <1>2, <1>3, KeptSession
<1> QED  BY <1>1, <1>2, <1>3, <1>4, RootEffectOf

\* A CT fragment nobody waits for.
LEMMA RecvCtUnexpectedEffect ==
  ASSUME RootTypeOK, RootSafe, NEW n \in Node, RootOrigin(n), SlotOrigin, UNCHANGED attempts,
         rq \in Queues(Fitting, Node), NEW p, RootRecvCtUnexpected(n, p)
  PROVE  RootEffect(n)
<1> DEFINE s == root_session(n)
<1>1. rs' = [rs EXCEPT ![n] = s] /\ UNCHANGED <<rq, rx_slots>>
  BY DEF RootRecvCtUnexpected
<1>2. SlotOrigin'
  BY <1>1, SlotsKept
<1>3. rs'[n] = s => RootChange(n)
  BY SessionFound DEF RootChange, RootStays
<1> HIDE DEF s
<1> QED  BY <1>1, <1>2, <1>3, RootEffectOf

\* What the first CT fragment does to session and queue.
LEMMA CtBeginsKeeps ==
  ASSUME RootTypeOK, RootSafe, NEW n \in Node, NEW p \in Packet, p.kind = "CT",
         rs[n].state = "WAIT_CT", rq \in Queues(Fitting, Node)
  PROVE  /\ ct_session(n, p) \in Session /\ ct_session(n, p).state = rs[n].state
         /\ ct_session(n, p).ss = rs[n].ss /\ ct_queue(n) \in Queues(Fitting, Node)
         /\ p.msg_id \in MsgId /\ p.frag \in Nat /\ p.ct \in Secret
<1> DEFINE id == p.msg_id
           s0 == rs[n]
<1>1. id \in MsgId /\ p.frag \in Nat /\ p.ct \in Secret
  BY DEF Packet
<1>2. s0 \in Session
  BY DEF RootTypeOK
<1> HIDE DEF id, s0
<1>3. LET r == session_set_pending(s0, "CT", id) IN r \in Session /\ r.state = s0.state /\ r.ss = s0.ss
  BY <1>1, <1>2, PendingCt
<1>4. /\ ct_session(n, p) \in Session /\ ct_session(n, p).state = rs[n].state
      /\ ct_session(n, p).ss = rs[n].ss
  BY <1>2, <1>3 DEF ct_session, s0, id
<1>5. ct_queue(n) \in Queues(Fitting, Node)
  BY DropQueue DEF ct_queue
<1> QED  BY <1>1, <1>4, <1>5 DEF id

\* A CT fragment that no slot takes.
LEMMA RecvCtRefusedEffect ==
  ASSUME RootTypeOK, RootSafe, NEW n \in Node, SlotOrigin, UNCHANGED attempts,
         rq \in Queues(Fitting, Node), NEW p \in Packet, RootRecvCtRefused(n, p)
  PROVE  RootEffect(n)
<1> DEFINE s == ct_session(n, p)
           q == ct_queue(n)
<1>1. /\ rs' = [rs EXCEPT ![n] = s] /\ rq' = q /\ UNCHANGED rx_slots
      /\ p.kind = "CT" /\ rs[n].state = "WAIT_CT"
  BY DEF RootRecvCtRefused
<1>2. s.state = rs[n].state /\ s.ss = rs[n].ss /\ q \in Queues(Fitting, Node)
  BY <1>1, CtBeginsKeeps
<1> HIDE DEF s, q
<1>3. SlotOrigin' /\ (rs'[n] = s => RootChange(n))
  BY <1>1, <1>2, SlotsKept, KeptSession
<1> QED  BY <1>1, <1>2, <1>3, RootEffectOf

\* The slot that takes a fragment of n's ciphertext holds nothing of another node.
LEMMA CtStored ==
  ASSUME RootTypeOK, SlotOrigin, NEW n \in Node, NEW i \in slot_for(rx_slots, n),
         NEW id \in MsgId, NEW f \in Nat, NEW c \in Drawn(attempts[n]),
         fragment_rx_accepts(rx_slots[i].ctx, "CT", id, f)
  PROVE  LET r == slot_after(rx_slots[i], n, "CT", id, f, c) IN
         /\ r \in RootSlot /\ r.owner = n /\ r.ctx.msg_type = "CT"
         /\ contents(r.ctx) \subseteq Drawn(attempts[n])
         /\ ~fragment_rx_complete(r.ctx) => SlotGood(r, "CT")
<1> DEFINE old == rx_slots[i]
           r   == slot_after(old, n, "CT", id, f, c)
<1>1. /\ i \in 1 .. RxSlots /\ old.owner \in {n, Nobody}
  BY SlotFound
<1>2. /\ old \in RootSlot /\ SlotGood(old, "CT") /\ fragment_rx_accepts(old.ctx, "CT", id, f)
      /\ old.owner = n => contents(old.ctx) \subseteq Drawn(attempts[n])
  BY <1>1 DEF RootTypeOK, SlotOrigin
<1>3. SlotShape(old, "CT") /\ c \in Secret
  <2>1. c \in Secret
    BY DEF Drawn, Secret
  <2> QED  BY <1>2, <2>1, SlotShapes DEF RootSlot
<1> HIDE DEF old
<1>4. r \in RootSlot
  BY <1>2, <1>3, SlotAfter DEF RootSlot
<1>5. SlotTook(r, old, n, "CT", id, c)
  BY <1>2, <1>3, SlotAfterGood
<1> HIDE DEF r
<1>6. /\ r.owner = n /\ r.ctx.msg_type = "CT"
      /\ contents(r.ctx) \subseteq Drawn(attempts[n])
      /\ ~fragment_rx_complete(r.ctx) => SlotGood(r, "CT")
  BY <1>1, <1>2, <1>5, NodeAssumption DEF SlotTook
<1> QED  BY <1>4, <1>6 DEF r, old

\* A CT fragment that completes nothing is kept, with or without a NACK for the gaps.
LEMMA RecvCtPartEffect ==
  ASSUME RootTypeOK, RootSafe, NEW n \in Node, SlotOrigin, UNCHANGED attempts,
         rq \in Queues(Fitting, Node), NEW p \in Own(attempts[n]), RootRecvCtPart(n, p)
  PROVE  RootEffect(n)
<1> DEFINE s    == ct_session(n, p)
           q    == ct_queue(n)
           id   == p.msg_id
           After(i) == slot_after(rx_slots[i], n, "CT", p.msg_id, p.frag, p.ct)
<1>1. /\ p.kind = "CT" /\ rs[n].state = "WAIT_CT" /\ p \in Packet
      /\ p.ct \in Drawn(attempts[n])
  BY DEF RootRecvCtPart, Own, Fitting
<1>2. PICK i \in slot_for(rx_slots, n) :
        /\ fragment_rx_accepts(rx_slots[i].ctx, "CT", p.msg_id, p.frag)
        /\ ~fragment_rx_complete(After(i).ctx)
        /\ \/ /\ rx_slots' = [rx_slots EXCEPT ![i] = rx_slot_note_nack(After(i))]
              /\ rs' = [rs EXCEPT ![n] = retry_in(session_next_msg_id(s), "short")]
              /\ rq' = pqc_udp_send_fragment(q, NACK(n, "CT", p.msg_id, missing(After(i).ctx)))
           \/ rx_slots' = [rx_slots EXCEPT ![i] = After(i)] /\ rs' = [rs EXCEPT ![n] = s] /\ rq' = q
  BY DEF RootRecvCtPart
<1> DEFINE slot == After(i)
           nack == NACK(n, "CT", id, missing(slot.ctx))
           s1   == session_next_msg_id(s)
           s2   == retry_in(s1, "short")
           q2   == pqc_udp_send_fragment(q, nack)
<1>3. /\ s \in Session /\ s.state = rs[n].state /\ s.ss = rs[n].ss /\ q \in Queues(Fitting, Node)
      /\ id \in MsgId /\ p.frag \in Nat
  BY <1>1, CtBeginsKeeps
<1>4. /\ slot \in RootSlot /\ slot.owner = n /\ slot.ctx.msg_type = "CT" /\ SlotGood(slot, "CT")
      /\ contents(slot.ctx) \subseteq Drawn(attempts[n])
  <2> DEFINE f == p.frag
             c == p.ct
             r == slot_after(rx_slots[i], n, "CT", id, f, c)
  <2>1. /\ f \in Nat /\ c \in Drawn(attempts[n]) /\ slot = r /\ id \in MsgId
        /\ fragment_rx_accepts(rx_slots[i].ctx, "CT", id, f) /\ ~fragment_rx_complete(slot.ctx)
    BY <1>1, <1>2, <1>3
  <2> HIDE DEF f, c, id, slot
  <2>2. /\ r \in RootSlot /\ r.owner = n /\ r.ctx.msg_type = "CT"
        /\ contents(r.ctx) \subseteq Drawn(attempts[n])
        /\ ~fragment_rx_complete(r.ctx) => SlotGood(r, "CT")
    BY <2>1, CtStored
  <2> HIDE DEF r
  <2> QED  BY <2>1, <2>2
<1>5. \/ /\ rx_slots' = [rx_slots EXCEPT ![i] = rx_slot_note_nack(slot)]
         /\ rs' = [rs EXCEPT ![n] = s2] /\ rq' = q2
      \/ rx_slots' = [rx_slots EXCEPT ![i] = slot] /\ rs' = [rs EXCEPT ![n] = s] /\ rq' = q
  BY <1>2
<1> HIDE DEF s, q, slot, id
<1>6. CASE /\ rx_slots' = [rx_slots EXCEPT ![i] = rx_slot_note_nack(slot)]
           /\ rs' = [rs EXCEPT ![n] = s2] /\ rq' = q2
  <2>1. s2.state = rs[n].state /\ s2.ss = rs[n].ss
    <3>1. s1 \in Session /\ s1.state = rs[n].state /\ s1.ss = rs[n].ss
      BY <1>3, NextMsgId
    <3> HIDE DEF s1
    <3> QED  BY <3>1, RetryIn DEF Deadlines
  <2>2. nack \in Fitting
    <3> DEFINE rx == slot.ctx
    <3>1. rx.msg_type = "CT" /\ nack = NACK(n, "CT", id, missing(rx))
      BY <1>4
    <3> HIDE DEF rx, nack
    <3>2. nack \in Mine(n)
      BY <1>3, <3>1, NackFits
    <3> QED  BY <3>2 DEF Mine
  <2> HIDE DEF nack, s2
  <2>3. q2 \in Queues(Fitting, Node)
    BY <1>3, <2>2, SendFragmentQueue
  <2> HIDE DEF q2
  <2> DEFINE r == rx_slot_note_nack(slot)
  <2>4. r.owner = slot.owner /\ r.ctx = slot.ctx
    BY <1>4, NoteNackKeeps DEF RootSlot
  <2>5. rx_slots' = [rx_slots EXCEPT ![i] = r]
    BY <1>6
  <2> HIDE DEF r
  <2>6. SlotGood(r, "CT")
    BY <1>4, <2>4 DEF SlotGood
  <2>7. SlotOrigin'
    BY <1>4, <2>4, <2>5, <2>6, SlotFilled
  <2>8. rs'[n] = s2 => RootChange(n)
    BY <2>1, KeptSession
  <2> QED  BY <1>1, <1>6, <2>3, <2>7, <2>8, RootEffectOf
<1>7. CASE rx_slots' = [rx_slots EXCEPT ![i] = slot] /\ rs' = [rs EXCEPT ![n] = s] /\ rq' = q
  <2>1. SlotOrigin'
    BY <1>4, <1>7, SlotFilled
  <2>2. rs'[n] = s => RootChange(n)
    BY <1>3, KeptSession
  <2> QED  BY <1>1, <1>3, <1>7, <2>1, <2>2, RootEffectOf
<1> QED  BY <1>5, <1>6, <1>7

\* The CT is complete: the secret is one of n's, for the key of the root, or there is none.
LEMMA RecvCtCompleteEffect ==
  ASSUME RootTypeOK, RootSafe, NEW n \in Node, SlotOrigin, UNCHANGED attempts,
         rq \in Queues(Fitting, Node), NEW p \in Own(attempts[n]), RootRecvCtComplete(n, p)
  PROVE  RootEffect(n)
<1> DEFINE s    == ct_session(n, p)
           q    == ct_queue(n)
           id   == p.msg_id
           After(i) == slot_after(rx_slots[i], n, "CT", p.msg_id, p.frag, p.ct)
<1>1. /\ p.kind = "CT" /\ rs[n].state = "WAIT_CT" /\ p \in Packet
      /\ p.ct \in Drawn(attempts[n])
  BY DEF RootRecvCtComplete, Own, Fitting
<1>2. PICK i \in slot_for(rx_slots, n) :
        /\ fragment_rx_accepts(rx_slots[i].ctx, "CT", p.msg_id, p.frag)
        /\ rx_slots' = [rx_slots EXCEPT ![i] = FreeSlot(Nobody)]
        /\ \/ /\ decapsulates(After(i).ctx)
              /\ rs' = [rs EXCEPT ![n] = summarised(ack_session(
                      session_set_established([s EXCEPT !.ss = content(After(i).ctx)]), q))]
              /\ rq' = ack_queue(n, q, id)
           \/ /\ rs' = [rs EXCEPT ![n] = session_set_failed([s EXCEPT !.ss = NoSecret])]
              /\ rq' = q
  BY DEF RootRecvCtComplete
<1> DEFINE slot == After(i)
           ss   == content(slot.ctx)
           s1   == [s EXCEPT !.ss = ss]
           s2   == session_set_established(s1)
           s3   == ack_session(s2, q)
           s4   == summarised(s3)
           q2   == ack_queue(n, q, id)
           f1   == [s EXCEPT !.ss = NoSecret]
           f2   == session_set_failed(f1)
<1>3. /\ s \in Session /\ q \in Queues(Fitting, Node) /\ id \in MsgId /\ p.frag \in Nat
  BY <1>1, CtBeginsKeeps
<1>4. contents(slot.ctx) \subseteq Drawn(attempts[n])
  <2> DEFINE f == p.frag
             c == p.ct
             r == slot_after(rx_slots[i], n, "CT", id, f, c)
  <2>1. /\ f \in Nat /\ c \in Drawn(attempts[n]) /\ slot = r /\ id \in MsgId
        /\ fragment_rx_accepts(rx_slots[i].ctx, "CT", id, f)
    BY <1>1, <1>2, <1>3
  <2> HIDE DEF f, c, id, slot
  <2>2. contents(r.ctx) \subseteq Drawn(attempts[n])
    BY <2>1, CtStored
  <2> HIDE DEF r
  <2> QED  BY <2>1, <2>2
<1>5. SlotOrigin'
  <2>1. i \in 1 .. RxSlots
    BY SlotFound
  <2> QED  BY <1>2, <2>1, SlotFreed
<1>6. \/ decapsulates(slot.ctx) /\ rs' = [rs EXCEPT ![n] = s4] /\ rq' = q2
      \/ rs' = [rs EXCEPT ![n] = f2] /\ rq' = q
  BY <1>2
<1> HIDE DEF s, q, id, slot
<1>7. CASE decapsulates(slot.ctx) /\ rs' = [rs EXCEPT ![n] = s4] /\ rq' = q2
  <2>1. ss \in Drawn(attempts[n])
    <3> DEFINE rx == slot.ctx
    <3>1. decapsulates(rx) /\ contents(rx) \subseteq Drawn(attempts[n]) /\ ss = content(rx)
      BY <1>4, <1>7
    <3> HIDE DEF rx, ss
    <3>2. content(rx) \in contents(rx)
      BY <3>1 DEF decapsulates, unmixed, content
    <3> QED  BY <3>1, <3>2 DEF decapsulates
  <2>2. ss \in Secret
    BY <2>1 DEF Drawn, Secret
  <2> HIDE DEF ss
  <2>3. s1 \in Session /\ s1.ss = ss
    BY <1>3, <2>2, SetSecret
  <2> HIDE DEF s1
  <2>4. s2 \in Session /\ s2.state = "ESTABLISHED" /\ s2.ss = ss
    BY <2>3, SetEstablished
  <2> HIDE DEF s2
  <2>5. s3 \in Session /\ s3.state = "ESTABLISHED" /\ s3.ss = ss
    <3>1. s3 = session_next_msg_id(s2) \/ s3 = s2
      BY DEF ack_session
    <3> QED  BY <2>4, <3>1, NextMsgId
  <2>6. q2 \in Queues(Fitting, Node)
    BY <1>3, <2>4, AckFits
  <2> HIDE DEF s3, q2
  <2>7. s4.state = "ESTABLISHED" /\ s4.ss = ss
    BY <2>5, Summarised
  <2> HIDE DEF s4
  <2>8. rs'[n] = s4 => RootChange(n)
    BY <1>1, <2>1, <2>7 DEF RootChange, RootEstablishes
  <2> QED  BY <1>1, <1>5, <1>7, <2>6, <2>8, RootEffectOf
<1>8. CASE rs' = [rs EXCEPT ![n] = f2] /\ rq' = q
  <2>1. f1 \in Session /\ f1.ss = NoSecret
    BY <1>3, SetSecret, Zeros
  <2> HIDE DEF f1
  <2>2. f2.state = "FAILED" /\ f2.ss = NoSecret
    BY <2>1, SetFailed
  <2> HIDE DEF f2
  <2>3. rs'[n] = f2 => RootChange(n)
    BY <1>1, <2>2 DEF RootChange, RootGivesUp
  <2> QED  BY <1>1, <1>3, <1>5, <1>8, <2>3, RootEffectOf
<1> QED  BY <1>6, <1>7, <1>8

\* A NACK of n is answered with fragments that the PK has.
LEMMA RecvNackRootEffect ==
  ASSUME RootTypeOK, RootSafe, NEW n \in Node, RootOrigin(n), SlotOrigin, UNCHANGED attempts,
         rq \in Queues(Fitting, Node), NEW p \in Own(attempts[n]), RootRecvNack(n, p)
  PROVE  RootEffect(n)
<1> DEFINE s0     == root_session(n)
           served == s0.pending_msg_type = "PK" /\ p.missing_msg_type = "PK"
                       /\ p.missing_msg_id = s0.pending_msg_id
           room   == pqc_tx_free_slots(rq) >= Cardinality(p.missing)
           id     == p.missing_msg_id
           fs     == p.missing
           d      == IF room THEN "long" ELSE "short"
           s1     == retry_in(s0, d)
           s      == IF ~served THEN s0 ELSE s1
           ps     == pk_fragments(n, id, fs)
           q1     == pqc_udp_send_all(rq, ps)
           q      == IF served /\ room THEN q1 ELSE rq
<1>1. /\ rs' = [rs EXCEPT ![n] = s] /\ rq' = q /\ UNCHANGED rx_slots
      /\ p.kind = "NACK" /\ p \in Fitting
  BY DEF RootRecvNack, Own
<1>2. id \in MsgId /\ (served => fs \in SUBSET FragIdx("PK"))
  BY <1>1 DEF Fitting, Fits, Packet, RootTypeOK
<1>3. SlotOrigin'
  BY <1>1, SlotsKept
<1>4. s0 \in Session /\ s0 = root_session(n) /\ d \in Deadlines
  BY RootSession DEF Deadlines
<1>5. q \in Queues(Fitting, Node)
  <2>1. CASE served
    <3>1. fs \in SUBSET FragIdx("PK") /\ id \in MsgId
      BY <1>2, <2>1
    <3> HIDE DEF fs, id
    <3>2. ps \in Seq(Fitting)
      BY <1>2, <3>1, PkFragmentsFit
    <3> HIDE DEF ps, served
    <3>3. q1 \in Queues(Fitting, Node)
      BY <3>2, SendAllQueue
    <3> QED  BY <3>3
  <2>2. CASE ~served
    BY <2>2
  <2> QED  BY <2>1, <2>2
<1> HIDE DEF s0, d, served, q
<1>6. s.state = s0.state /\ s.ss = s0.ss
  BY <1>4, RetryIn
<1> HIDE DEF s
<1>7. rs'[n] = s => RootChange(n)
  BY <1>4, <1>6, SessionFound DEF RootChange, RootStays
<1> QED  BY <1>1, <1>3, <1>5, <1>7, RootEffectOf

\* A metrics report leaves state and secret.
LEMMA RecvMetricsEffect ==
  ASSUME RootTypeOK, RootSafe, NEW n \in Node, RootOrigin(n), SlotOrigin, UNCHANGED attempts,
         rq \in Queues(Fitting, Node), NEW p \in Packet, RootRecvMetrics(n, p)
  PROVE  RootEffect(n)
<1> DEFINE s0   == root_session(n)
           mask == s0.node_metrics_mask \cup {p.group}
           s1   == [s0 EXCEPT !.node_metrics_mask = mask]
           s    == summarised(s1)
<1>1. /\ rs' = [rs EXCEPT ![n] = s] /\ UNCHANGED <<rq, rx_slots>> /\ p.group \in Nat
  BY DEF RootRecvMetrics, Packet
<1>2. SlotOrigin' /\ s0 \in Session /\ s0 = root_session(n)
  BY <1>1, SlotsKept, RootSession
<1> HIDE DEF s0
<1>3. mask \in SUBSET Nat
  BY <1>1, <1>2 DEF Session
<1> HIDE DEF mask
<1>4. s1 \in Session /\ s1.state = s0.state /\ s1.ss = s0.ss
  BY <1>2, <1>3, Zenon DEF Session
<1> HIDE DEF s1
<1>5. s.state = s0.state /\ s.ss = s0.ss
  BY <1>4, Summarised
<1> HIDE DEF s
<1>6. rs'[n] = s => RootChange(n)
  BY <1>2, <1>5, SessionFound DEF RootChange, RootStays
<1> QED  BY <1>1, <1>2, <1>6, RootEffectOf

\* The retry timer is set again.
LEMMA RootPostponedEffect ==
  ASSUME RootTypeOK, RootSafe, NEW n \in Node, SlotOrigin, UNCHANGED attempts,
         rq \in Queues(Fitting, Node), RootRetryPostponed(n)
  PROVE  RootEffect(n)
<1> DEFINE s == retry_in(rs[n], "short")
<1>1. rs' = [rs EXCEPT ![n] = s] /\ UNCHANGED <<rx_slots, rq>>
  BY DEF RootRetryPostponed
<1>2. SlotOrigin' /\ s.state = rs[n].state /\ s.ss = rs[n].ss
  BY <1>1, SlotsKept, RootFacts, RetryIn DEF Deadlines
<1> HIDE DEF s
<1>3. rs'[n] = s => RootChange(n)
  BY <1>2, KeptSession
<1> QED  BY <1>1, <1>2, <1>3, RootEffectOf

\* The reset after a failure; an established session is never reset this way.
LEMMA FailResetEffect ==
  ASSUME RootTypeOK, NEW n \in Node, SlotOrigin',
         rq \in Queues(Fitting, Node), rs[n].state # "ESTABLISHED", root_fail_reset(n)
  PROVE  RootEffect(n)
<1> DEFINE s == session_reset
           q == pqc_tx_drop_node(rq, n)
<1>1. rs' = [rs EXCEPT ![n] = s] /\ rq' = q
  BY DEF root_fail_reset
<1>2. s.state = "IDLE" /\ s.ss = NoSecret
  BY InitSession
<1>3. q \in Queues(Fitting, Node)
  BY DropNodeQueue
<1> HIDE DEF s, q
<1>4. rs'[n] = s => RootChange(n)
  BY <1>2 DEF RootChange, RootGivesUp
<1> QED  BY <1>1, <1>3, <1>4, RootEffectOf

\* The root asks again for the gaps of the CT that n's slot holds.
LEMMA RootRetryNackEffect ==
  ASSUME RootTypeOK, RootSafe, NEW n \in Node, SlotOrigin, UNCHANGED attempts,
         rq \in Queues(Fitting, Node), RootRetryNack(n)
  PROVE  RootEffect(n)
<1> DEFINE i    == first_of(owned(rx_slots, n))
           slot == rx_slots[i]
           id   == slot.ctx.msg_id
           nack == NACK(n, "CT", id, missing(slot.ctx))
           r    == rx_slot_note_nack(slot)
           s1   == session_next_msg_id(rs[n])
           s    == hs_mark_retry(s1)
           q    == pqc_udp_send_fragment(rq, nack)
<1>1. /\ rs' = [rs EXCEPT ![n] = s] /\ rq' = q /\ rx_slots' = [rx_slots EXCEPT ![i] = r]
      /\ session_can_retry(rs[n]) /\ owned(rx_slots, n) # {}
  BY DEF RootRetryNack, partial_ct
<1>2. i \in slot_for(rx_slots, n)
  BY <1>1 DEF slot_for
<1>3. i \in 1 .. RxSlots /\ slot.owner = n
  <2> DEFINE S == owned(rx_slots, n)
  <2>1. S = {j \in 1 .. RxSlots : rx_slots[j].owner = n}
    BY DEF owned, RootTypeOK
  <2>2. S \in SUBSET Nat /\ S # {}
    BY <1>1, <2>1, SizeAssumption
  <2> HIDE DEF S
  <2>3. first_of(S) \in S
    BY <2>2, FirstOfIsIn
  <2>4. i \in S
    BY <2>3 DEF S
  <2> HIDE DEF i
  <2> QED  BY <2>1, <2>4
<1>4. /\ slot \in RootSlot /\ SlotGood(slot, "CT")
      /\ contents(slot.ctx) \subseteq Drawn(attempts[n])
  BY <1>3 DEF RootTypeOK, SlotOrigin
<1> HIDE DEF i, slot
<1>5. slot.ctx.msg_type = "CT" /\ id \in MsgId
  <2>1. slot.ctx.msg_type = "CT"
    BY <1>3, <1>4, NodeAssumption DEF SlotGood
  <2>2. id \in MsgId
    BY <1>4 DEF RootSlot, RxSlot, RxContext
  <2> QED  BY <2>1, <2>2
<1>6. nack \in Fitting
  <2> DEFINE rx == slot.ctx
  <2>1. rx.msg_type = "CT" /\ nack = NACK(n, "CT", id, missing(rx))
    BY <1>5
  <2> HIDE DEF rx, nack, id
  <2>2. nack \in Mine(n)
    BY <1>5, <2>1, NackFits
  <2> QED  BY <2>2 DEF Mine
<1> HIDE DEF nack
<1>7. q \in Queues(Fitting, Node)
  BY <1>6, SendFragmentQueue
<1> HIDE DEF q
<1>8. r.owner = slot.owner /\ r.ctx = slot.ctx
  BY <1>4, NoteNackKeeps DEF RootSlot
<1> HIDE DEF r
<1>9. SlotGood(r, "CT")
  BY <1>4, <1>8 DEF SlotGood
<1>10. SlotOrigin'
  BY <1>1, <1>2, <1>3, <1>4, <1>8, <1>9, SlotFilled
<1>11. s.state = rs[n].state /\ s.ss = rs[n].ss
  <2>1. /\ s1 \in Session /\ s1.state = rs[n].state /\ s1.ss = rs[n].ss
        /\ s1.retry_count = rs[n].retry_count
    BY RootFacts, NextMsgId DEF session_next_msg_id, session_next_msg_ids, Session
  <2> HIDE DEF s1
  <2>2. session_can_retry(s1)
    BY <1>1, <2>1 DEF session_can_retry
  <2> QED  BY <2>1, <2>2, MarkRetry
<1> HIDE DEF s
<1>12. rs'[n] = s => RootChange(n)
  BY <1>11, KeptSession
<1> QED  BY <1>1, <1>7, <1>10, <1>12, RootEffectOf

\* The PK again.
LEMMA RootRetryPkEffect ==
  ASSUME RootTypeOK, RootSafe, NEW n \in Node, SlotOrigin, UNCHANGED attempts,
         rq \in Queues(Fitting, Node), RootRetryPk(n)
  PROVE  RootEffect(n)
<1> DEFINE s  == hs_mark_retry(rs[n])
           id == rs[n].pending_msg_id
           fs == FragIdx("PK")
           ps == pk_fragments(n, id, fs)
           q  == pqc_udp_send_all(rq, ps)
<1>1. /\ rs' = [rs EXCEPT ![n] = s] /\ rq' = q /\ rx_slots' = released(rx_slots, n)
      /\ session_can_retry(rs[n])
  BY DEF RootRetryPk
<1>2. SlotOrigin'
  BY <1>1, SlotsReleased
<1>3. s.state = rs[n].state /\ s.ss = rs[n].ss
  BY <1>1, RootFacts, MarkRetry
<1>4. id \in MsgId /\ fs \in SUBSET FragIdx("PK")
  BY RootFacts DEF Session, RootTypeOK
<1> HIDE DEF s, id, fs
<1>5. ps \in Seq(Fitting)
  BY <1>4, PkFragmentsFit
<1> HIDE DEF ps
<1>6. q \in Queues(Fitting, Node)
  BY <1>5, SendAllQueue
<1> HIDE DEF q
<1>7. rs'[n] = s => RootChange(n)
  BY <1>3, KeptSession
<1> QED  BY <1>1, <1>2, <1>6, <1>7, RootEffectOf

\* A packet of n at the root has one of the effects above.
LEMMA RootRecvEffect ==
  ASSUME RootTypeOK, RootSafe, NEW n \in Node, RootOrigin(n), SlotOrigin, UNCHANGED attempts,
         rq \in Queues(Fitting, Node), NEW p \in Own(attempts[n]),
         \/ RootRecvNoSession(n, p) \/ RootRecvGetpk(n, p)
         \/ RootRecvCtDuplicate(n, p) \/ RootRecvCtUnexpected(n, p)
         \/ RootRecvCtRefused(n, p) \/ RootRecvCtPart(n, p)
         \/ RootRecvCtComplete(n, p) \/ RootRecvNack(n, p) \/ RootRecvMetrics(n, p)
  PROVE  RootEffect(n)
<1>1. p \in Packet
  BY DEF Own, Fitting
<1>2. CASE RootRecvNoSession(n, p)
  <2>1. UNCHANGED rootVars
    BY <1>2 DEF RootRecvNoSession
  <2>2. SlotOrigin'
    BY <2>1, SlotsKept DEF rootVars
  <2> QED  BY <2>1, <2>2 DEF rootVars, RootEffect, RootChange, RootStays
<1>3. CASE RootRecvGetpk(n, p)
  BY <1>3, RecvGetpkEffect
<1>4. CASE RootRecvCtDuplicate(n, p)
  BY <1>1, <1>4, RecvCtDuplicateEffect
<1>5. CASE RootRecvCtUnexpected(n, p)
  BY <1>5, RecvCtUnexpectedEffect
<1>6. CASE RootRecvCtRefused(n, p)
  BY <1>1, <1>6, RecvCtRefusedEffect
<1>7. CASE RootRecvCtPart(n, p)
  BY <1>7, RecvCtPartEffect
<1>8. CASE RootRecvCtComplete(n, p)
  BY <1>8, RecvCtCompleteEffect
<1>9. CASE RootRecvNack(n, p)
  BY <1>9, RecvNackRootEffect
<1>10. CASE RootRecvMetrics(n, p)
  BY <1>1, <1>10, RecvMetricsEffect
<1> QED  BY <1>2, <1>3, <1>4, <1>5, <1>6, <1>7, <1>8, <1>9, <1>10

\* Every step of the root for node n has one of the effects above; it leaves packets
\* of the same origin in the network.
LEMMA RootStepEffect ==
  ASSUME TypeOK, RootSafe, NEW n \in Node, RootStep(n), RootOrigin(n), SlotOrigin, NetOrigin
  PROVE  /\ RootEffect(n) /\ UNCHANGED <<nodeVars, down>>
         /\ \A m \in Node : up'[m] \in Seq(Own(attempts[m]))
<1>1. /\ RootTypeOK /\ NetTypeOK /\ rq \in Queues(Fitting, Node)
      /\ \A m \in Node : up[m] \in Seq(Own(attempts[m]))
  BY DEF TypeOK, NetOrigin
<1>2. UNCHANGED <<nodeVars, down>>
  BY DEF RootStep, RootRecv, RootRetry, RootFailReset, netVars
<1>3. UNCHANGED attempts
  BY <1>2 DEF nodeVars
<1>4. CASE RootRecv(n)
  <2>1. PICK i \in DOMAIN up[n] :
          /\ udp_deliver(up, n, i)
          /\ \/ RootRecvNoSession(n, up[n][i]) \/ RootRecvGetpk(n, up[n][i])
             \/ RootRecvCtDuplicate(n, up[n][i]) \/ RootRecvCtUnexpected(n, up[n][i])
             \/ RootRecvCtRefused(n, up[n][i]) \/ RootRecvCtPart(n, up[n][i])
             \/ RootRecvCtComplete(n, up[n][i]) \/ RootRecvNack(n, up[n][i])
             \/ RootRecvMetrics(n, up[n][i])
    BY <1>4 DEF RootRecv
  <2> DEFINE O == Own(attempts[n])
  <2>2. up[n] \in Seq(O) /\ i \in 1 .. Len(up[n])
    BY <1>1
  <2>3. RootEffect(n)
    <3> DEFINE p == up[n][i]
    <3>1. p \in O
      <4> HIDE DEF O
      <4> QED  BY <2>2
    <3>2. \/ RootRecvNoSession(n, p) \/ RootRecvGetpk(n, p)
          \/ RootRecvCtDuplicate(n, p) \/ RootRecvCtUnexpected(n, p)
          \/ RootRecvCtRefused(n, p) \/ RootRecvCtPart(n, p)
          \/ RootRecvCtComplete(n, p) \/ RootRecvNack(n, p) \/ RootRecvMetrics(n, p)
      BY <2>1
    <3> HIDE DEF p
    <3> QED  BY <1>1, <1>3, <3>1, <3>2, RootRecvEffect
  <2>4. RemoveAt(up[n], i) \in Seq(O)
    <3> HIDE DEF O
    <3> QED  BY <2>2, RemoveAtType
  <2>5. up' = [up EXCEPT ![n] = RemoveAt(@, i)] \/ UNCHANGED up
    BY <2>1 DEF udp_deliver
  <2>6. \A m \in Node : up'[m] \in Seq(Own(attempts[m]))
    BY <1>1, <2>4, <2>5 DEF NetTypeOK
  <2> QED  BY <1>2, <2>3, <2>6
<1>5. CASE RootRetry(n)
  <2>1. /\ \/ RootRetryPostponed(n) \/ RootRetryExhausted(n)
           \/ RootRetryNack(n) \/ RootRetryPk(n)
        /\ UNCHANGED up /\ ~session_is_established(rs[n])
    BY <1>5 DEF RootRetry
  <2>2. CASE RootRetryExhausted(n)
    <3>1. SlotOrigin' /\ root_fail_reset(n)
      BY <1>1, <1>3, <2>2, SlotsReleased DEF RootRetryExhausted
    <3>2. rs[n].state # "ESTABLISHED"
      BY <1>1, <2>1, RootFacts DEF session_is_established, root_armed, armed
    <3> QED  BY <1>1, <1>2, <2>1, <3>1, <3>2, FailResetEffect
  <2>3. CASE RootRetryPostponed(n) \/ RootRetryNack(n) \/ RootRetryPk(n)
    BY <1>1, <1>2, <1>3, <2>1, <2>3, RootPostponedEffect, RootRetryNackEffect, RootRetryPkEffect
  <2> QED  BY <2>1, <2>2, <2>3
<1>6. CASE RootFailReset(n)
  <2>1. /\ rs[n].state # "ESTABLISHED" /\ root_fail_reset(n) /\ UNCHANGED <<rx_slots, up>>
    BY <1>6 DEF RootFailReset, session_is_failed, netVars
  <2>2. SlotOrigin'
    BY <1>3, <2>1, SlotsKept
  <2> QED  BY <1>1, <1>2, <2>1, <2>2, FailResetEffect
<1> QED  BY <1>4, <1>5, <1>6 DEF RootStep

\* With it, every step of the root for a node preserves where things come from.
LEMMA RootStepOrigin ==
  ASSUME IInv, OriginInv, NEW n \in Node, RootStep(n)
  PROVE  OriginInv'
<1>1. /\ TypeOK /\ RootSafe /\ SlotOrigin /\ NetOrigin /\ \A m \in Node : RootOrigin(m)
  BY DEF IInv, OriginInv
<1>2. /\ RootEffect(n) /\ UNCHANGED <<nodeVars, down>>
      /\ \A m \in Node : up'[m] \in Seq(Own(attempts[m]))
  BY <1>1, RootStepEffect
<1>3. (\A m \in Node : NodeOrigin(m))'
  BY <1>2 DEF OriginInv, NodeOrigin, nodeVars
<1>4. ASSUME NEW m \in Node
      PROVE  IF rs'[m].state = "ESTABLISHED"
             THEN rs'[m].ss \in Drawn(attempts[m])
             ELSE rs'[m].ss = NoSecret
  <2>1. CASE m = n
    <3>1. RootChange(n) /\ RootOrigin(n)
      BY <1>1, <1>2 DEF RootEffect
    <3> QED  BY <2>1, <3>1 DEF RootChange, RootStays, RootRestarts, RootEstablishes,
                               RootGivesUp, RootOrigin
  <2>2. CASE m # n
    BY <1>1, <1>2, <2>2 DEF RootEffect, RootOrigin
  <2> QED  BY <2>1, <2>2
<1>5. (\A m \in Node : RootOrigin(m))'
  BY <1>2, <1>4 DEF RootOrigin, RootEffect, nodeVars
<1>6. NetOrigin'
  BY <1>1, <1>2 DEF NetOrigin, RootEffect, nodeVars
<1> QED  BY <1>2, <1>3, <1>5, <1>6 DEF OriginInv, RootEffect

\* An empty queue, no session and clean slots: how the root starts.
LEMMA RootStarts ==
  ASSUME rs' = [n \in Node |-> UnusedSession],
         rx_slots' = [i \in 1 .. RxSlots |-> FreeSlot(Nobody)], rq' = pqc_tx_init
  PROVE  (\A n \in Node : RootOrigin(n))' /\ SlotOrigin' /\ rq' \in Queues(Fitting, Node)
<1>1. \A n \in Node : rs'[n].state = "UNUSED" /\ rs'[n].ss = NoSecret
  BY InitSession
<1>2. \A i \in 1 .. RxSlots : rx_slots'[i].owner = Nobody /\ ~rx_slots'[i].ctx.active
  BY FreeSlotClean
<1>3. SlotOrigin'
  BY <1>2, NodeAssumption DEF SlotOrigin, SlotGood
<1>4. rq' \in Queues(Fitting, Node)
  BY InitQueue
<1> QED  BY <1>1, <1>3, <1>4 DEF RootOrigin

\* The steps of the root that are for no node in particular.
LEMMA RootWideOrigin ==
  ASSUME IInv, OriginInv,
         RootTx \/ (\E i \in 1 .. RxSlots : RootRxTimeout(i)) \/ RootReboot
  PROVE  OriginInv'
<1>1. /\ RootTypeOK /\ NetTypeOK /\ SlotOrigin /\ NetOrigin /\ \A m \in Node : RootOrigin(m)
  BY DEF IInv, TypeOK, OriginInv
<1>2. UNCHANGED nodeVars
  BY DEF RootTx, RootRxTimeout, RootReboot
<1>3. (\A m \in Node : NodeOrigin(m))' /\ UNCHANGED attempts
  BY <1>2 DEF OriginInv, NodeOrigin, nodeVars
<1>4. CASE RootTx
  <2> DEFINE p == pqc_tx_next(rq)
  <2>1. /\ rq' = pqc_tx_process(rq) /\ udp_send(down, p) /\ active(rq) # {}
        /\ UNCHANGED <<rs, rx_slots, up>>
    BY <1>4 DEF RootTx
  <2>2. /\ rq \in Queues(Fitting, Node) /\ \A x \in Fitting : x.node \in Node
    BY <1>1, PacketFields DEF NetOrigin, Fitting
  <2>3. p \in Fitting /\ rq' \in Queues(Fitting, Node)
    BY <2>1, <2>2, ProcessQueue
  <2> HIDE DEF p
  <2>4. ASSUME NEW m \in Node PROVE down'[m] \in Seq(Fitting)
    <3>1. p.node \in Node /\ \A x \in Node : down[x] \in Seq(Fitting)
      BY <1>1, <2>2, <2>3 DEF NetOrigin
    <3>2. Append(down[p.node], p) \in Seq(Fitting)
      BY <2>3, <3>1, AppendProperties
    <3>3. down' = [down EXCEPT ![p.node] = Append(@, p)] \/ UNCHANGED down
      BY <2>1 DEF udp_send
    <3> QED  BY <1>1, <3>1, <3>2, <3>3 DEF NetTypeOK
  <2>5. NetOrigin'
    BY <1>1, <1>3, <2>1, <2>3, <2>4 DEF NetOrigin
  <2>6. (\A m \in Node : RootOrigin(m))' /\ SlotOrigin'
    BY <1>1, <1>3, <2>1, SlotsKept DEF RootOrigin
  <2> QED  BY <1>3, <2>5, <2>6 DEF OriginInv
<1>5. CASE \E i \in 1 .. RxSlots : RootRxTimeout(i)
  <2>1. PICK i \in 1 .. RxSlots : RootRxTimeout(i)
    BY <1>5
  <2>2. /\ rx_slots' = [rx_slots EXCEPT ![i] = FreeSlot(Nobody)]
        /\ UNCHANGED <<rs, rq, up, down>>
    BY <2>1 DEF RootRxTimeout
  <2>3. SlotOrigin'
    BY <1>1, <1>3, <2>2, SlotFreed
  <2>4. (\A m \in Node : RootOrigin(m))' /\ NetOrigin'
    BY <1>1, <1>3, <2>2 DEF RootOrigin, NetOrigin
  <2> QED  BY <1>3, <2>3, <2>4 DEF OriginInv
<1>6. CASE RootReboot
  <2>1. /\ rs' = [n \in Node |-> UnusedSession] /\ rq' = pqc_tx_init
        /\ rx_slots' = [i \in 1 .. RxSlots |-> FreeSlot(Nobody)] /\ UNCHANGED <<up, down>>
    BY <1>6 DEF RootReboot
  <2>2. (\A n \in Node : RootOrigin(n))' /\ SlotOrigin' /\ rq' \in Queues(Fitting, Node)
    BY <2>1, RootStarts
  <2>3. NetOrigin'
    BY <1>1, <1>3, <2>1, <2>2 DEF NetOrigin
  <2> QED  BY <1>3, <2>2, <2>3 DEF OriginInv
<1> QED  BY <1>4, <1>5, <1>6

\* At the start nothing has been drawn, collected or sent.
LEMMA InitOrigin == Init => OriginInv
<1> SUFFICES ASSUME Init PROVE OriginInv
  OBVIOUS
<1>1. ASSUME NEW n \in Node PROVE NodeOrigin(n)
  <2>1. /\ ns[n] = session_init /\ nrx[n] = FreeSlot(Nobody) /\ nq[n] = pqc_tx_init
        /\ attempts[n] = 0 /\ prng[n] = 0
    BY DEF Init
  <2>2. SecretMatches(ns[n], attempts[n], prng[n])
    BY <2>1, InitSession DEF SecretMatches
  <2>3. nq[n] \in Queues(Mine(n), Node) /\ queued(nq[n]) = {}
    BY <2>1, InitQueue
  <2>4. SlotGood(nrx[n], "PK") /\ nrx[n].owner = Nobody
    BY <2>1, FreeSlotClean DEF SlotGood
  <2> QED  BY <2>2, <2>3, <2>4 DEF NodeOrigin
<1>2. ASSUME NEW n \in Node PROVE RootOrigin(n)
  BY InitSession DEF Init, RootOrigin
<1>3. SlotOrigin
  <2>1. \A i \in 1 .. RxSlots : rx_slots[i].owner = Nobody /\ ~rx_slots[i].ctx.active
    BY FreeSlotClean DEF Init
  <2> QED  BY <2>1, NodeAssumption DEF SlotOrigin, SlotGood
<1>4. NetOrigin
  <2>1. rq \in Queues(Fitting, Node)
    BY InitQueue DEF Init
  <2>2. \A n \in Node : up[n] = << >> /\ down[n] = << >>
    BY DEF Init
  <2>3. \A S : << >> \in Seq(S)
    OBVIOUS
  <2> QED  BY <2>1, <2>2, <2>3 DEF NetOrigin
<1> QED  BY <1>1, <1>2, <1>3, <1>4 DEF OriginInv

\* The second invariant is preserved by every step.
LEMMA NextOrigin == IInv /\ IInv' /\ OriginInv /\ [Next]_vars => OriginInv'
<1> SUFFICES ASSUME IInv, IInv', OriginInv, [Next]_vars PROVE OriginInv'
  OBVIOUS
<1>1. CASE \E n \in Node : NodeStep(n)
  BY <1>1, NodeStepOrigin
<1>2. CASE \E n \in Node : RootStep(n)
  BY <1>2, RootStepOrigin
<1>3. CASE RootTx \/ (\E i \in 1 .. RxSlots : RootRxTimeout(i)) \/ RootReboot
  BY <1>3, RootWideOrigin
<1>4. CASE UNCHANGED vars
  BY <1>4 DEF vars, nodeVars, rootVars, netVars, OriginInv, NodeOrigin, RootOrigin,
     SlotOrigin, NetOrigin
<1> QED  BY <1>1, <1>2, <1>3, <1>4 DEF Next

\* Whatever is lost, repeated, reordered or restarted, no secret or ciphertext kept
\* or sent for a node lies beyond the handshakes it has begun, and a fragment fits
\* the message it claims.
THEOREM Origins == Spec => []OriginInv
<1>1. Init => OriginInv
  BY InitOrigin
<1>2. IInv /\ IInv' /\ OriginInv /\ [Next]_vars => OriginInv'
  BY NextOrigin
<1>3. Spec => []IInv
  BY Invariant
<1> QED  BY <1>1, <1>2, <1>3, PTL DEF Spec

\* A slot in use that is as it should be holds part of a message, and not all of it.
LEMMA GoodIsPartial ==
  ASSUME NEW type \in {"PK", "CT"}, NEW slot, SlotGood(slot, type), slot.owner # Nobody
  PROVE  SlotIsPartial(slot)
<1>1. /\ slot.ctx.active /\ slot.ctx.msg_type = type
      /\ slot.ctx.received_frags = Cardinality(bitmap(slot.ctx))
      /\ slot.ctx.received_frags < total_frags(type)
  BY DEF SlotGood
<1>2. total_frags(type) \in Nat /\ Cardinality(FragIdx(type)) = total_frags(type)
  BY TotalFrags, FragsAssumption, WholeMessage
<1>3. bitmap(slot.ctx) # FragIdx(type)
  BY <1>1, <1>2
<1> QED  BY <1>1, <1>3 DEF SlotIsPartial

\* Receive slots are never taken twice, mixed up between nodes, miscounted or kept
\* after their message is complete; a node's slot is free whenever the ACK needs it.
THEOREM SlotsStayConsistent == Spec => []SlotsConsistent
<1>1. TypeOK /\ OriginInv => SlotsConsistent
  <2> SUFFICES ASSUME TypeOK, OriginInv PROVE SlotsConsistent
    OBVIOUS
  <2>1. SlotOrigin /\ \A n \in Node : NodeOrigin(n)
    BY DEF OriginInv
  <2>2. ASSUME NEW i \in 1 .. RxSlots, rx_slots[i].owner # Nobody
        PROVE  /\ SlotIsPartial(rx_slots[i])
               /\ contents(rx_slots[i].ctx) \subseteq 1 .. attempts[rx_slots[i].owner]
    <3> DEFINE slot == rx_slots[i]
    <3>1. slot.owner # Nobody /\ SlotGood(slot, "CT") /\ slot \in RootSlot
      BY <2>1, <2>2 DEF SlotOrigin, TypeOK, RootTypeOK
    <3>2. contents(slot.ctx) \subseteq Drawn(attempts[slot.owner])
      <4>1. slot.owner \in Node
        <5> HIDE DEF slot
        <5> QED  BY <3>1 DEF RootSlot, RxSlot
      <4> QED  BY <2>1, <4>1 DEF SlotOrigin
    <3> HIDE DEF slot
    <3>3. SlotIsPartial(slot)
      BY <3>1, GoodIsPartial
    <3>4. contents(slot.ctx) \subseteq 1 .. attempts[slot.owner]
      BY <3>2 DEF Drawn
    <3> QED  BY <3>3, <3>4 DEF slot
  <2>3. ASSUME NEW n \in Node, nrx[n].owner # Nobody
        PROVE  ns[n].state = "WAIT_PK" /\ SlotIsPartial(nrx[n])
    <3> DEFINE slot == nrx[n]
    <3>1. slot.owner # Nobody /\ SlotGood(slot, "PK") /\ ns[n].state = "WAIT_PK"
      BY <2>1, <2>3 DEF NodeOrigin
    <3> HIDE DEF slot
    <3>2. SlotIsPartial(slot)
      BY <3>1, GoodIsPartial
    <3> QED  BY <3>1, <3>2 DEF slot
  <2>4. /\ \A i \in 1 .. RxSlots : rx_slots[i].owner = Nobody => ~rx_slots[i].ctx.active
        /\ \A n \in Node : nrx[n].owner = Nobody => ~nrx[n].ctx.active
    BY <2>1 DEF SlotOrigin, NodeOrigin, SlotGood
  <2>5. \A i, j \in 1 .. RxSlots :
          rx_slots[i].owner # Nobody /\ rx_slots[i].owner = rx_slots[j].owner => i = j
    BY <2>1 DEF SlotOrigin
  <2> QED  BY <2>2, <2>3, <2>4, <2>5 DEF SlotsConsistent
<1> QED  BY <1>1, Origins, TypeCorrectness, PTL

-----------------------------------------------------------------------------
(* The handshake implements KeyExchange.                                   *)

\* What the refinement mapping makes of the sessions of the nodes or of the root.
AskedIn(s)  == [n \in Node |-> s[n].state = "WAIT_PK"]
UpIn(s)     == [n \in Node |-> session_is_established(s[n])]
SecretIn(s) == [n \in Node |-> s[n].ss]
StateIn(s)  == [n \in Node |-> IF s[n].state \in {"WAIT_CT", "ESTABLISHED"}
                               THEN s[n].state ELSE "IDLE"]

\* A change of the session of n changes who waits for the key only at n.
LEMMA AskedAt ==
  ASSUME NEW s, NEW t, NEW n \in Node, \A m \in Node \ {n} : t[m] = s[m]
  PROVE  /\ t[n].state = "WAIT_PK" => AskedIn(t) = [AskedIn(s) EXCEPT ![n] = TRUE]
         /\ t[n].state # "WAIT_PK" => AskedIn(t) = [AskedIn(s) EXCEPT ![n] = FALSE]
         /\ (t[n].state = "WAIT_PK" <=> s[n].state = "WAIT_PK") => AskedIn(t) = AskedIn(s)
<1>1. ASSUME NEW m \in Node \ {n} PROVE (t[m].state = "WAIT_PK") = (s[m].state = "WAIT_PK")
  BY Zenon
<1>2. \A m \in Node \ {n} : AskedIn(t)[m] = AskedIn(s)[m]
  BY <1>1, Zenon DEF AskedIn
<1>3. AskedIn(t) = [x \in Node |-> AskedIn(t)[x]] /\ AskedIn(s) = [x \in Node |-> AskedIn(s)[x]]
  BY Zenon DEF AskedIn
<1>4. ASSUME t[n].state = "WAIT_PK" PROVE AskedIn(t)[n] = TRUE
  BY <1>4, Zenon DEF AskedIn
<1>5. ASSUME t[n].state # "WAIT_PK" PROVE AskedIn(t)[n] = FALSE
  BY <1>5, Zenon DEF AskedIn
<1>6. ASSUME t[n].state = "WAIT_PK" <=> s[n].state = "WAIT_PK" PROVE AskedIn(t)[n] = AskedIn(s)[n]
  BY <1>6, Zenon DEF AskedIn
<1>7. /\ AskedIn(t) = [AskedIn(s) EXCEPT ![n] = AskedIn(t)[n]]
      /\ AskedIn(t)[n] = AskedIn(s)[n] => AskedIn(t) = AskedIn(s)
  <2> DEFINE f == AskedIn(s)
             g == AskedIn(t)
  <2>1. /\ f = [x \in Node |-> f[x]] /\ g = [x \in Node |-> g[x]]
        /\ \A m \in Node \ {n} : g[m] = f[m]
    BY <1>2, <1>3, Zenon
  <2> HIDE DEF f, g
  <2>2. g = [f EXCEPT ![n] = g[n]]
    BY <2>1
  <2>3. g[n] = f[n] => \A m \in Node : g[m] = f[m]
    BY <2>1
  <2>4. g[n] = f[n] => g = f
    BY <2>1, <2>3
  <2> QED  BY <2>2, <2>4, Zenon DEF f, g
<1> QED  BY <1>4, <1>5, <1>6, <1>7, Zenon

\* The same for who considers its session established.
LEMMA UpAt ==
  ASSUME NEW s, NEW t, NEW n \in Node, \A m \in Node \ {n} : t[m] = s[m], armed(s[n]), armed(t[n])
  PROVE  /\ t[n].state = "ESTABLISHED" => UpIn(t) = [UpIn(s) EXCEPT ![n] = TRUE]
         /\ t[n].state # "ESTABLISHED" => UpIn(t) = [UpIn(s) EXCEPT ![n] = FALSE]
         /\ (t[n].state = "ESTABLISHED" <=> s[n].state = "ESTABLISHED") => UpIn(t) = UpIn(s)
         /\ s[n].state # "ESTABLISHED" => ~UpIn(s)[n]
<1>1. ASSUME NEW m \in Node \ {n}
      PROVE  session_is_established(t[m]) = session_is_established(s[m])
  BY Zenon
<1>2. \A m \in Node \ {n} : UpIn(t)[m] = UpIn(s)[m]
  BY <1>1, Zenon DEF UpIn
<1>3. UpIn(t) = [x \in Node |-> UpIn(t)[x]] /\ UpIn(s) = [x \in Node |-> UpIn(s)[x]]
  BY Zenon DEF UpIn
<1>4. /\ session_is_established(t[n]) <=> t[n].state = "ESTABLISHED"
      /\ session_is_established(s[n]) <=> s[n].state = "ESTABLISHED"
  BY DEF session_is_established, armed
<1>5. ASSUME t[n].state = "ESTABLISHED" PROVE UpIn(t)[n] = TRUE
  <2>1. session_is_established(t[n])
    BY <1>4, <1>5
  <2> QED  BY <2>1, Zenon DEF UpIn, session_is_established
<1>6. ASSUME t[n].state # "ESTABLISHED" PROVE UpIn(t)[n] = FALSE
  <2>1. ~session_is_established(t[n])
    BY <1>4, <1>6
  <2> QED  BY <2>1, Zenon DEF UpIn, session_is_established
<1>7. ASSUME s[n].state # "ESTABLISHED" PROVE UpIn(s)[n] = FALSE
  <2>1. ~session_is_established(s[n])
    BY <1>4, <1>7
  <2> QED  BY <2>1, Zenon DEF UpIn, session_is_established
<1>8. ASSUME s[n].state = "ESTABLISHED" PROVE UpIn(s)[n] = TRUE
  <2>1. session_is_established(s[n])
    BY <1>4, <1>8
  <2> QED  BY <2>1, Zenon DEF UpIn, session_is_established
<1>9. ASSUME t[n].state = "ESTABLISHED" <=> s[n].state = "ESTABLISHED" PROVE UpIn(t)[n] = UpIn(s)[n]
  <2>1. CASE t[n].state = "ESTABLISHED"
    BY <1>5, <1>8, <1>9, <2>1, Zenon
  <2>2. CASE t[n].state # "ESTABLISHED"
    BY <1>6, <1>7, <1>9, <2>2, Zenon
  <2> QED  BY <2>1, <2>2
<1>10. /\ UpIn(t) = [UpIn(s) EXCEPT ![n] = UpIn(t)[n]]
       /\ UpIn(t)[n] = UpIn(s)[n] => UpIn(t) = UpIn(s)
  <2> DEFINE f == UpIn(s)
             g == UpIn(t)
  <2>1. /\ f = [x \in Node |-> f[x]] /\ g = [x \in Node |-> g[x]]
        /\ \A m \in Node \ {n} : g[m] = f[m]
    BY <1>2, <1>3, Zenon
  <2> HIDE DEF f, g
  <2>2. g = [f EXCEPT ![n] = g[n]]
    BY <2>1
  <2>3. g[n] = f[n] => \A m \in Node : g[m] = f[m]
    BY <2>1
  <2>4. g[n] = f[n] => g = f
    BY <2>1, <2>3
  <2> QED  BY <2>2, <2>4, Zenon DEF f, g
<1> QED  BY <1>5, <1>6, <1>7, <1>9, <1>10, Zenon

\* The same for the secrets, of the nodes or of the root.
LEMMA SecretAt ==
  ASSUME NEW s, NEW t, NEW n \in Node, \A m \in Node \ {n} : t[m] = s[m]
  PROVE  /\ SecretIn(t) = [SecretIn(s) EXCEPT ![n] = SecretIn(t)[n]]
         /\ t[n].ss = s[n].ss => SecretIn(t) = SecretIn(s)
         /\ SecretIn(s)[n] = s[n].ss /\ SecretIn(t)[n] = t[n].ss
<1>1. \A m \in Node \ {n} : SecretIn(t)[m] = SecretIn(s)[m]
  BY DEF SecretIn
<1>2. SecretIn(t) = [x \in Node |-> SecretIn(t)[x]] /\ SecretIn(s) = [x \in Node |-> SecretIn(s)[x]]
  BY DEF SecretIn
<1>3. SecretIn(t)[n] = t[n].ss /\ SecretIn(s)[n] = s[n].ss
  BY DEF SecretIn
<1>4. /\ SecretIn(t) = [SecretIn(s) EXCEPT ![n] = SecretIn(t)[n]]
      /\ SecretIn(t)[n] = SecretIn(s)[n] => SecretIn(t) = SecretIn(s)
  <2> DEFINE f == SecretIn(s)
             g == SecretIn(t)
  <2>1. /\ f = [x \in Node |-> f[x]] /\ g = [x \in Node |-> g[x]]
        /\ \A m \in Node \ {n} : g[m] = f[m]
    BY <1>1, <1>2, Zenon
  <2> HIDE DEF f, g
  <2>2. g = [f EXCEPT ![n] = g[n]]
    BY <2>1
  <2>3. g[n] = f[n] => \A m \in Node : g[m] = f[m]
    BY <2>1
  <2>4. g[n] = f[n] => g = f
    BY <2>1, <2>3
  <2> QED  BY <2>2, <2>4, Zenon DEF f, g
<1> QED  BY <1>3, <1>4, Zenon

\* The same for the state of the root's session.
LEMMA StateAt ==
  ASSUME NEW s, NEW t, NEW n \in Node, \A m \in Node \ {n} : t[m] = s[m]
  PROVE  /\ StateIn(t) = [StateIn(s) EXCEPT ![n] = StateIn(t)[n]]
         /\ StateIn(t)[n] = StateIn(s)[n] => StateIn(t) = StateIn(s)
         /\ StateIn(s)[n] = IF s[n].state \in {"WAIT_CT", "ESTABLISHED"} THEN s[n].state ELSE "IDLE"
         /\ StateIn(t)[n] = IF t[n].state \in {"WAIT_CT", "ESTABLISHED"} THEN t[n].state ELSE "IDLE"
<1>1. \A m \in Node \ {n} : StateIn(t)[m] = StateIn(s)[m]
  BY DEF StateIn
<1>2. StateIn(t) = [x \in Node |-> StateIn(t)[x]] /\ StateIn(s) = [x \in Node |-> StateIn(s)[x]]
  BY DEF StateIn
<1>3. /\ StateIn(s)[n] = IF s[n].state \in {"WAIT_CT", "ESTABLISHED"} THEN s[n].state ELSE "IDLE"
      /\ StateIn(t)[n] = IF t[n].state \in {"WAIT_CT", "ESTABLISHED"} THEN t[n].state ELSE "IDLE"
  BY DEF StateIn
<1>4. /\ StateIn(t) = [StateIn(s) EXCEPT ![n] = StateIn(t)[n]]
      /\ StateIn(t)[n] = StateIn(s)[n] => StateIn(t) = StateIn(s)
  <2> DEFINE f == StateIn(s)
             g == StateIn(t)
  <2>1. /\ f = [x \in Node |-> f[x]] /\ g = [x \in Node |-> g[x]]
        /\ \A m \in Node \ {n} : g[m] = f[m]
    BY <1>1, <1>2, Zenon
  <2> HIDE DEF f, g
  <2>2. g = [f EXCEPT ![n] = g[n]]
    BY <2>1
  <2>3. g[n] = f[n] => \A m \in Node : g[m] = f[m]
    BY <2>1
  <2>4. g[n] = f[n] => g = f
    BY <2>1, <2>3
  <2> QED  BY <2>2, <2>4, Zenon DEF f, g
<1> QED  BY <1>3, <1>4, Zenon

\* A step of KeyExchange, or none.
KeyStep == Keys!KeyNext \/ UNCHANGED Keys!keyVars

NodeKeysStay ==
  /\ attempts' = attempts /\ prng' = prng /\ AskedIn(ns') = AskedIn(ns) /\ SecretIn(ns') = SecretIn(ns)
  /\ UpIn(ns') = UpIn(ns)
RootKeysStay == StateIn(rs') = StateIn(rs) /\ SecretIn(rs') = SecretIn(rs)

\* The abstract variables follow the sessions.
LEMMA KeysStay ==
  /\ NodeKeysStay /\ RootKeysStay => UNCHANGED Keys!keyVars
  /\ UNCHANGED <<ns, attempts, prng>> => NodeKeysStay
  /\ UNCHANGED rs => RootKeysStay
<1>1. NodeKeysStay /\ RootKeysStay => UNCHANGED Keys!keyVars
  BY Zenon DEF NodeKeysStay, RootKeysStay, Keys!keyVars, AskedIn, SecretIn, UpIn, StateIn
<1>2. UNCHANGED <<ns, attempts, prng>> => NodeKeysStay
  BY Zenon DEF NodeKeysStay, AskedIn, SecretIn, UpIn
<1>3. UNCHANGED rs => RootKeysStay
  BY Zenon DEF RootKeysStay, SecretIn, StateIn
<1> QED  BY <1>1, <1>2, <1>3

\* Every step of a node is a step of that node in KeyExchange.
LEMMA NodeStepKeys ==
  ASSUME IInv, IInv', OriginInv, NEW n \in Node, NodeStep(n)
  PROVE  KeyStep
<1>1. /\ TypeOK /\ NodeSafe /\ NodeTypeOK /\ NodeTypeOK' /\ \A m \in Node : NodeOrigin(m)
      /\ \A m \in Node : Channels(m)
  BY DEF IInv, TypeOK, OriginInv, NetOrigin, Channels
<1>2. NodeEffect(n)
  BY <1>1, NodeStepEffect
<1>3. UNCHANGED rootVars
  BY <1>1, NodeStepPreserves
<1>4. RootKeysStay
  BY <1>3, KeysStay DEF rootVars
<1>5. \A m \in Node \ {n} : ns'[m] = ns[m]
  BY <1>2 DEF NodeEffect
<1>6. armed(ns[n]) /\ armed(ns'[n])
  BY DEF IInv, NodeSafe, NodeGood, node_armed
<1>7. /\ attempts'[n] = attempts[n] => attempts' = attempts
      /\ attempts'[n] = attempts[n] + 1 => attempts' = [attempts EXCEPT ![n] = attempts[n] + 1]
  <2>1. attempts \in [Node -> Nat] /\ attempts' \in [Node -> Nat]
    BY <1>1 DEF NodeTypeOK
  <2>2. \A m \in Node \ {n} : attempts'[m] = attempts[m]
    BY <1>2 DEF NodeEffect
  <2>3. attempts'[n] = attempts[n] => \A m \in Node : attempts'[m] = attempts[m]
    BY <2>2
  <2>4. attempts'[n] = attempts[n] => attempts' = attempts
    BY <2>1, <2>3
  <2> QED  BY <2>1, <2>2, <2>4
<1>16. /\ prng'[n] = prng[n] => prng' = prng
       /\ \A d \in Nat : prng'[n] = d => prng' = [prng EXCEPT ![n] = d]
  <2>1. prng \in [Node -> Nat] /\ prng' \in [Node -> Nat]
    BY <1>1 DEF NodeTypeOK
  <2>2. \A m \in Node \ {n} : prng'[m] = prng[m]
    BY <1>2 DEF NodeEffect
  <2>3. prng'[n] = prng[n] => \A m \in Node : prng'[m] = prng[m]
    BY <2>2
  <2>4. prng'[n] = prng[n] => prng' = prng
    BY <2>1, <2>3
  <2> QED  BY <2>1, <2>2, <2>4
<1>8. /\ SecretMatches(ns[n], attempts[n], prng[n]) /\ attempts[n] \in Nat
      /\ prng[n] \in Nat
  BY <1>1 DEF NodeOrigin, NodeTypeOK
<1>9. NoSecret = 0
  BY DEF NoSecret
<1>10. /\ AskedIn(ns)[n] <=> ns[n].state = "WAIT_PK"
       /\ ns[n].state # "ESTABLISHED" => ~UpIn(ns)[n]
       /\ (ns'[n].state = "ESTABLISHED" <=> ns[n].state = "ESTABLISHED") => UpIn(ns') = UpIn(ns)
       /\ SecretIn(ns)[n] = ns[n].ss
       /\ SecretIn(ns') = [SecretIn(ns) EXCEPT ![n] = ns'[n].ss]
       /\ ns'[n].ss = ns[n].ss => SecretIn(ns') = SecretIn(ns)
  <2>1. AskedIn(ns)[n] <=> ns[n].state = "WAIT_PK"
    BY Zenon DEF AskedIn
  <2>2. ns[n].state # "ESTABLISHED" => ~UpIn(ns)[n]
    BY <1>5, <1>6, UpAt
  <2>3. SecretIn(ns)[n] = ns[n].ss
    BY DEF SecretIn
  <2>4. SecretIn(ns') = [SecretIn(ns) EXCEPT ![n] = ns'[n].ss]
    <3>1. SecretIn(ns') = [SecretIn(ns) EXCEPT ![n] = SecretIn(ns')[n]]
      BY <1>5 DEF SecretIn
    <3>2. SecretIn(ns')[n] = ns'[n].ss
      BY DEF SecretIn
    <3> QED  BY <3>1, <3>2
  <2>5. ns'[n].ss = ns[n].ss => SecretIn(ns') = SecretIn(ns)
    BY <1>5, SecretAt
  <2>6. (ns'[n].state = "ESTABLISHED" <=> ns[n].state = "ESTABLISHED") => UpIn(ns') = UpIn(ns)
    BY <1>5, <1>6, UpAt
  <2> QED  BY <2>1, <2>2, <2>3, <2>4, <2>5, <2>6
<1>11. CASE NodeStays(n)
  <2>1. /\ ns'[n].state = ns[n].state /\ ns'[n].ss = ns[n].ss /\ attempts'[n] = attempts[n]
        /\ prng' = prng
    BY <1>11, <1>16 DEF NodeStays
  <2>2. AskedIn(ns') = AskedIn(ns)
    <3>1. ns'[n].state = "WAIT_PK" <=> ns[n].state = "WAIT_PK"
      BY <2>1
    <3> QED  BY <1>5, <3>1, AskedAt
  <2>3. SecretIn(ns') = SecretIn(ns)
    BY <1>10, <2>1
  <2>4. UpIn(ns') = UpIn(ns)
    BY <1>10, <2>1
  <2>5. NodeKeysStay
    BY <1>7, <2>1, <2>2, <2>3, <2>4 DEF NodeKeysStay
  <2> QED  BY <1>4, <2>5, KeysStay DEF KeyStep
<1>12. CASE NodeBegins(n)
  <2>1. /\ ns[n].state = "IDLE" /\ ns'[n].state = "WAIT_PK" /\ ns'[n].ss = ns[n].ss
        /\ attempts' = [attempts EXCEPT ![n] = attempts[n] + 1] /\ prng' = prng
    BY <1>7, <1>12, <1>16 DEF NodeBegins
  <2>2. ~AskedIn(ns)[n] /\ ~UpIn(ns)[n] /\ SecretIn(ns)[n] = 0
    BY <1>8, <1>9, <1>10, <2>1 DEF SecretMatches
  <2>3. AskedIn(ns') = [AskedIn(ns) EXCEPT ![n] = TRUE]
    BY <1>5, <2>1, AskedAt
  <2>4. SecretIn(ns') = SecretIn(ns) /\ UpIn(ns') = UpIn(ns)
    BY <1>10, <2>1
  <2>5. Keys!NodeBegin(n)
    BY <1>4, <2>1, <2>2, <2>3, <2>4, Zenon
       DEF RootKeysStay, Keys!rootKeys, AskedIn, SecretIn, UpIn, StateIn, Keys!NodeBegin
  <2> QED  BY <2>5 DEF KeyStep, Keys!KeyNext, Keys!NodeKeyStep
<1>13. CASE NodeEncapsulates(n)
  <2>1. /\ ns[n].state = "WAIT_PK" /\ ns'[n].state \in {"WAIT_ACK", "FAILED"}
        /\ ns'[n].ss = prng[n] + 1 /\ attempts' = attempts
        /\ prng' = [prng EXCEPT ![n] = prng[n] + 1]
    BY <1>7, <1>8, <1>13, <1>16 DEF NodeEncapsulates
  <2>2. AskedIn(ns)[n]
    BY <1>10, <2>1
  <2>3. AskedIn(ns') = [AskedIn(ns) EXCEPT ![n] = FALSE]
    BY <1>5, <2>1, AskedAt
  <2>4. SecretIn(ns') = [SecretIn(ns) EXCEPT ![n] = prng[n] + 1]
    BY <1>10, <2>1
  <2>5. UpIn(ns') = UpIn(ns)
    BY <1>10, <2>1
  <2>6. Keys!NodeEncapsulate(n)
    BY <1>4, <2>1, <2>2, <2>3, <2>4, <2>5, Zenon
       DEF RootKeysStay, Keys!rootKeys, AskedIn, SecretIn, UpIn, StateIn, Keys!NodeEncapsulate
  <2> QED  BY <2>6 DEF KeyStep, Keys!KeyNext, Keys!NodeKeyStep
<1>14. CASE NodeConfirmed(n)
  <2>1. /\ ns[n].state = "WAIT_ACK" /\ ns'[n].state = "ESTABLISHED" /\ ns'[n].ss = ns[n].ss
        /\ attempts' = attempts /\ prng' = prng
    BY <1>7, <1>14, <1>16 DEF NodeConfirmed
  <2>2. SecretIn(ns)[n] # 0 /\ ~UpIn(ns)[n]
    BY <1>8, <1>10, <2>1 DEF SecretMatches, Drawn
  <2>3. AskedIn(ns') = AskedIn(ns) /\ SecretIn(ns') = SecretIn(ns)
    BY <1>5, <1>10, <2>1, AskedAt
  <2>4. UpIn(ns') = [UpIn(ns) EXCEPT ![n] = TRUE]
    BY <1>5, <1>6, <2>1, UpAt
  <2>5. Keys!NodeConfirm(n)
    BY <1>4, <2>1, <2>2, <2>3, <2>4, Zenon
       DEF RootKeysStay, Keys!rootKeys, AskedIn, SecretIn, UpIn, StateIn, Keys!NodeConfirm
  <2> QED  BY <2>5 DEF KeyStep, Keys!KeyNext, Keys!NodeKeyStep
<1>15. CASE NodeResets(n)
  <2>1. ns'[n].state = "IDLE" /\ ns'[n].ss = NoSecret /\ attempts' = attempts
    BY <1>7, <1>15 DEF NodeResets
  <2>2. AskedIn(ns') = [AskedIn(ns) EXCEPT ![n] = FALSE]
    BY <1>5, <2>1, AskedAt
  <2>3. SecretIn(ns') = [SecretIn(ns) EXCEPT ![n] = 0]
    BY <1>9, <1>10, <2>1
  <2>4. UpIn(ns') = [UpIn(ns) EXCEPT ![n] = FALSE]
    BY <1>5, <1>6, <2>1, UpAt
  <2>5. Keys!wiped(n)
    BY <1>4, <2>1, <2>2, <2>3, <2>4, Zenon
       DEF RootKeysStay, Keys!rootKeys, AskedIn, SecretIn, UpIn, StateIn, Keys!wiped
  <2>6. CASE ns[n].state # "ESTABLISHED" /\ prng'[n] = prng[n]
    <3>1. ~UpIn(ns)[n] /\ prng' = prng
      BY <1>10, <1>16, <2>6
    <3>2. Keys!NodeReset(n)
      BY <2>5, <3>1, Zenon DEF UpIn, Keys!NodeReset
    <3> QED  BY <3>2 DEF KeyStep, Keys!KeyNext, Keys!NodeKeyStep
  <2>7. CASE prng'[n] = 0
    <3>1. prng' = [prng EXCEPT ![n] = 0]
      BY <1>16, <2>7
    <3>2. Keys!NodeReboot(n)
      BY <2>5, <3>1, Zenon DEF Keys!NodeReboot
    <3> QED  BY <3>2 DEF KeyStep, Keys!KeyNext, Keys!NodeKeyStep
  <2> QED  BY <1>15, <2>6, <2>7 DEF NodeResets
<1> QED  BY <1>2, <1>11, <1>12, <1>13, <1>14, <1>15 DEF NodeEffect, NodeChange

\* Every step of the root for a node is a step of the root in KeyExchange.
LEMMA RootStepKeys ==
  ASSUME IInv, OriginInv, NEW n \in Node, RootStep(n)
  PROVE  KeyStep
<1>1. /\ TypeOK /\ RootSafe /\ RootOrigin(n) /\ SlotOrigin /\ NetOrigin
  BY DEF IInv, OriginInv
<1>2. RootEffect(n) /\ UNCHANGED nodeVars
  BY <1>1, RootStepEffect
<1>3. NodeKeysStay
  BY <1>2, KeysStay DEF nodeVars
<1>4. \A m \in Node \ {n} : rs'[m] = rs[m]
  BY <1>2 DEF RootEffect
<1>5. NoSecret = 0
  BY DEF NoSecret
<1>6. /\ SecretIn(rs') = [SecretIn(rs) EXCEPT ![n] = rs'[n].ss]
      /\ rs'[n].ss = rs[n].ss => SecretIn(rs') = SecretIn(rs)
  <2>1. SecretIn(rs') = [SecretIn(rs) EXCEPT ![n] = rs'[n].ss]
    <3>1. SecretIn(rs') = [SecretIn(rs) EXCEPT ![n] = SecretIn(rs')[n]]
      BY <1>4 DEF SecretIn
    <3>2. SecretIn(rs')[n] = rs'[n].ss
      BY DEF SecretIn
    <3> QED  BY <3>1, <3>2
  <2>2. rs'[n].ss = rs[n].ss => SecretIn(rs') = SecretIn(rs)
    BY <1>4, SecretAt
  <2> QED  BY <2>1, <2>2
<1> DEFINE A(s) == IF s.state \in {"WAIT_CT", "ESTABLISHED"} THEN s.state ELSE "IDLE"
<1>7. /\ StateIn(rs)[n] = A(rs[n]) /\ StateIn(rs')[n] = A(rs'[n])
      /\ StateIn(rs') = [StateIn(rs) EXCEPT ![n] = A(rs'[n])]
      /\ A(rs'[n]) = A(rs[n]) => StateIn(rs') = StateIn(rs)
  BY <1>4, StateAt
<1>8. CASE RootStays(n)
  <2>1. A(rs'[n]) = A(rs[n]) /\ rs'[n].ss = rs[n].ss
    BY <1>8 DEF RootStays
  <2>2. SecretIn(rs') = SecretIn(rs)
    BY <1>6, <2>1
  <2>3. RootKeysStay
    BY <1>7, <2>1, <2>2 DEF RootKeysStay
  <2> QED  BY <1>3, <2>3, KeysStay DEF KeyStep
<1>9. CASE RootRestarts(n)
  <2>1. attempts[n] > 0 /\ A(rs'[n]) \in {"IDLE", "WAIT_CT"} /\ rs'[n].ss = NoSecret
    BY <1>9 DEF RootRestarts
  <2>2. SecretIn(rs') = [SecretIn(rs) EXCEPT ![n] = 0]
    BY <1>5, <1>6, <2>1
  <2>3. PICK st \in {"IDLE", "WAIT_CT"} : StateIn(rs') = [StateIn(rs) EXCEPT ![n] = st]
    BY <1>7, <2>1
  <2>4. Keys!RootRestart(n, st)
    BY <1>3, <2>1, <2>2, <2>3, Zenon
       DEF NodeKeysStay, Keys!nodeKeys, AskedIn, SecretIn, UpIn, StateIn, Keys!RootRestart
  <2>5. \E x \in {"IDLE", "WAIT_CT"} : Keys!RootRestart(n, x)
    BY <2>4, Zenon
  <2>6. Keys!RootKeyStep(n)
    BY <2>5, Zenon DEF Keys!RootKeyStep
  <2> QED  BY <2>6 DEF KeyStep, Keys!KeyNext
<1>10. CASE RootEstablishes(n)
  <2>1. rs[n].state = "WAIT_CT" /\ rs'[n].state = "ESTABLISHED" /\ rs'[n].ss \in 1 .. attempts[n]
    BY <1>10 DEF RootEstablishes, Drawn
  <2>2. PICK ss \in 1 .. attempts[n] : SecretIn(rs') = [SecretIn(rs) EXCEPT ![n] = ss]
    BY <1>6, <2>1
  <2>3. StateIn(rs)[n] = "WAIT_CT" /\ StateIn(rs') = [StateIn(rs) EXCEPT ![n] = "ESTABLISHED"]
    BY <1>7, <2>1
  <2>4. Keys!RootEstablish(n, ss)
    BY <1>3, <2>1, <2>2, <2>3, Zenon
       DEF NodeKeysStay, Keys!nodeKeys, AskedIn, SecretIn, UpIn, StateIn, Keys!RootEstablish
  <2>5. \E x \in 1 .. attempts[n] : Keys!RootEstablish(n, x)
    BY <2>4, Zenon
  <2>6. Keys!RootKeyStep(n)
    BY <2>5, Zenon DEF Keys!RootKeyStep
  <2> QED  BY <2>6 DEF KeyStep, Keys!KeyNext
<1>11. CASE RootGivesUp(n)
  <2>1. /\ rs[n].state # "ESTABLISHED" /\ A(rs'[n]) = "IDLE" /\ rs'[n].ss = NoSecret
        /\ rs[n].ss = NoSecret
    BY <1>1, <1>11 DEF RootGivesUp, RootOrigin
  <2>2. SecretIn(rs') = SecretIn(rs)
    BY <1>6, <2>1
  <2>3. CASE rs[n].state = "WAIT_CT"
    <3>1. StateIn(rs)[n] = "WAIT_CT" /\ StateIn(rs') = [StateIn(rs) EXCEPT ![n] = "IDLE"]
      BY <1>7, <2>1, <2>3
    <3>2. Keys!RootGiveUp(n)
      BY <1>3, <2>2, <3>1, Zenon
         DEF NodeKeysStay, Keys!nodeKeys, AskedIn, SecretIn, UpIn, StateIn, Keys!RootGiveUp
    <3> QED  BY <3>2 DEF KeyStep, Keys!KeyNext, Keys!RootKeyStep
  <2>4. CASE rs[n].state # "WAIT_CT"
    <3>1. A(rs[n]) = "IDLE"
      BY <2>1, <2>4
    <3>2. RootKeysStay
      BY <1>7, <2>1, <2>2, <3>1 DEF RootKeysStay
    <3> QED  BY <1>3, <3>2, KeysStay DEF KeyStep
  <2> QED  BY <2>3, <2>4
<1> QED  BY <1>2, <1>8, <1>9, <1>10, <1>11 DEF RootEffect, RootChange

\* A restart of the root forgets every key; what it sends and the slots it drops
\* concern no key.
LEMMA RootWideKeys ==
  ASSUME RootTx \/ (\E i \in 1 .. RxSlots : RootRxTimeout(i)) \/ RootReboot
  PROVE  KeyStep
<1>1. NodeKeysStay
  BY KeysStay DEF RootTx, RootRxTimeout, RootReboot, nodeVars
<1>2. CASE RootTx \/ \E i \in 1 .. RxSlots : RootRxTimeout(i)
  <2>1. UNCHANGED rs
    BY <1>2 DEF RootTx, RootRxTimeout
  <2> QED  BY <1>1, <2>1, KeysStay DEF KeyStep
<1>3. CASE RootReboot
  <2>1. rs' = [n \in Node |-> UnusedSession]
    BY <1>3 DEF RootReboot
  <2>2. UnusedSession.state = "UNUSED" /\ UnusedSession.ss = 0
    BY InitSession DEF NoSecret
  <2>3. StateIn(rs') = [n \in Node |-> "IDLE"] /\ SecretIn(rs') = [n \in Node |-> 0]
    BY <2>1, <2>2 DEF StateIn, SecretIn
  <2>4. Keys!RootForget
    BY <1>1, <2>3, Zenon
       DEF NodeKeysStay, Keys!nodeKeys, AskedIn, SecretIn, UpIn, StateIn, Keys!RootForget
  <2> QED  BY <2>4 DEF KeyStep, Keys!KeyNext
<1> QED  BY <1>2, <1>3

\* The key establishment keeps the promises of KeyExchange whatever the network loses,
\* repeats or reorders and whoever restarts: a node draws one secret per handshake and
\* keeps it until a reset, and the root establishes a session only out of WAIT_CT and
\* only with a secret this node has come far enough to draw.
THEOREM HandshakeImplementsKeyExchange == Spec => ImplementsKeyExchange
<1>1. Init => Keys!KeyInit
  <2> SUFFICES ASSUME Init PROVE Keys!KeyInit
    OBVIOUS
  <2>1. /\ \A n \in Node : ns[n] = session_init /\ rs[n] = UnusedSession
        /\ attempts = [n \in Node |-> 0] /\ prng = [n \in Node |-> 0]
    BY DEF Init
  <2>2. /\ session_init.state = "IDLE" /\ UnusedSession.state = "UNUSED"
        /\ session_init.ss = 0 /\ UnusedSession.ss = 0
    BY InitSession DEF NoSecret
  <2>3. /\ SecretIn(ns) = [n \in Node |-> 0] /\ SecretIn(rs) = [n \in Node |-> 0]
        /\ StateIn(rs) = [n \in Node |-> "IDLE"]
    BY <2>1, <2>2 DEF SecretIn, StateIn
  <2>4. AskedIn(ns) = [n \in Node |-> FALSE]
    <3>1. \A n \in Node : ns[n].state # "WAIT_PK"
      BY <2>1, <2>2
    <3> QED  BY <3>1, Zenon DEF AskedIn
  <2>5. UpIn(ns) = [n \in Node |-> FALSE]
    <3>1. \A n \in Node : ~session_is_established(ns[n])
      BY <2>1, <2>2 DEF session_is_established
    <3> QED  BY <3>1, Zenon DEF UpIn, session_is_established
  <2> QED  BY <2>1, <2>3, <2>4, <2>5, Zenon
              DEF AskedIn, SecretIn, UpIn, StateIn, Keys!KeyInit
<1>2. IInv /\ IInv' /\ OriginInv /\ [Next]_vars => [Keys!KeyNext]_(Keys!keyVars)
  <2> SUFFICES ASSUME IInv, IInv', OriginInv, [Next]_vars PROVE KeyStep
    BY DEF KeyStep
  <2>1. CASE \E n \in Node : NodeStep(n)
    BY <2>1, NodeStepKeys
  <2>2. CASE \E n \in Node : RootStep(n)
    BY <2>2, RootStepKeys
  <2>3. CASE RootTx \/ (\E i \in 1 .. RxSlots : RootRxTimeout(i)) \/ RootReboot
    BY <2>3, RootWideKeys
  <2>4. CASE UNCHANGED vars
    BY <2>4, KeysStay DEF vars, nodeVars, rootVars, KeyStep
  <2> QED  BY <2>1, <2>2, <2>3, <2>4 DEF Next
<1> QED  BY <1>1, <1>2, Invariant, Origins, PTL DEF Spec, ImplementsKeyExchange, Keys!KeySpec
=============================================================================
