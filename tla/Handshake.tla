------------------------------ MODULE Handshake ------------------------------
(***************************************************************************)
(* The HQC key establishment between the nodes and the root, as the two    *)
(* firmware images run it: src/node_main.c and src/server_main.c around    *)
(* src/src/PQC/handshake_fsm.c.                                            *)
(*                                                                         *)
(*   node                                root                              *)
(*   GETPK  ------------------------->   (re)start: PK in PkFrags packets  *)
(*   reassemble, encapsulate  <-------   PK                                *)
(*   CT in CtFrags packets  --------->   reassemble, decapsulate           *)
(*   ESTABLISHED  <-------------------   ACK, ESTABLISHED                  *)
(*   METRICS  ----------------------->   session summary                   *)
(*                                                                         *)
(* Either side asks for missing fragments with NACK and repeats what it is *)
(* still waiting on from a retry timer.  Packets travel over UDP: the      *)
(* network may lose, duplicate and reorder them within the bounds below.   *)
(*                                                                         *)
(* Processes of Contiki are cooperative and none of the handlers yields,   *)
(* so a handler is one action.                                             *)
(***************************************************************************)
EXTENDS SessionManager, Fragmentation, TxQueue, SequencesExt

CONSTANTS
  MaxSessions,       \* SESSION_MAX_NODES
  RxSlots,           \* HS_RX_SLOT_COUNT at the root
  MetricsGroups,     \* PQC_METRICS_GROUP_COUNT
  ReorderWindow,     \* a packet overtakes at most ReorderWindow - 1 others
  ChannelCap,        \* packets in flight in one direction of one node
  MaxLoss, MaxDup,   \* packets the network loses and duplicates
  MaxEarly,          \* long timers that run out while packets are under way
  MaxNodeReboots, MaxRootReboots,
  MaxAttempts        \* handshakes of one node that are explored

ASSUME SizeAssumption  ==
  /\ MaxSessions \in Nat /\ RxSlots \in Nat \ {0} /\ MetricsGroups \in Nat
  /\ PkFrags <= PQC_TX_QUEUE_SIZE /\ CtFrags <= PQC_TX_QUEUE_SIZE
ASSUME FaultAssumption ==
  /\ ReorderWindow \in Nat \ {0} /\ MaxEarly \in Nat
  /\ ChannelCap \in Nat \ {0} /\ MaxLoss \in Nat /\ MaxDup \in Nat
  /\ MaxNodeReboots \in Nat /\ MaxRootReboots \in Nat /\ MaxAttempts \in Nat

VARIABLES
  ns,             \* ns[n]: local_session of node n
  getpk,          \* getpk[n]: getpk_in_flight
  node_ct,        \* node_ct[n]: the ciphertext node n can retransmit
  nrx,            \* nrx[n]: the receive slot of node n (one session, one slot)
  nq,             \* nq[n]: the transmit queue of node n
  metrics_pending,\* metrics_pending[n]
  attempts,       \* attempts[n]: handshakes node n has begun, its reboots included
  prng,           \* prng[n]: secrets node n has drawn since its last start
  rs,             \* rs[n]: the root's session for node n, "UNUSED" if it has none
  rx_slots,       \* the root's receive slots
  rq,             \* the transmit queue of the root
  impact,         \* target of the root's impact window, or Nobody
  up, down,       \* up[n], down[n]: packets in flight to the root, to node n
  faults          \* faults the network and the power supply have left

nodeVars == <<ns, getpk, node_ct, nrx, nq, metrics_pending, attempts, prng>>
rootVars == <<rs, rx_slots, rq, impact>>
netVars  == <<up, down, faults>>
vars     == <<nodeVars, rootVars, netVars>>

-----------------------------------------------------------------------------
(* Packets.  The header fields a receiver reads, and the payload.          *)

GETPK(n)           == [kind |-> "GETPK", node |-> n]
PK(n, id, f)       == [kind |-> "PK", node |-> n, msg_id |-> id, frag |-> f]
CT(n, id, f, ct)   == [kind |-> "CT", node |-> n, msg_id |-> id, frag |-> f, ct |-> ct]
ACK(n, id)         == [kind |-> "ACK", node |-> n, confirms |-> id]
NACK(n, type, id, fs) ==
  [kind |-> "NACK", node |-> n, missing_msg_type |-> type, missing_msg_id |-> id,
   missing |-> fs]
METRICS(n, g)      == [kind |-> "METRICS", node |-> n, group |-> g]

Packet ==
  [kind: {"GETPK"}, node: Node]
    \cup [kind: {"PK"}, node: Node, msg_id: MsgId, frag: Nat]
    \cup [kind: {"CT"}, node: Node, msg_id: MsgId, frag: Nat, ct: Secret]
    \cup [kind: {"ACK"}, node: Node, confirms: MsgId]
    \cup [kind: {"NACK"}, node: Node, missing_msg_type: {"PK", "CT"},
          missing_msg_id: MsgId, missing: SUBSET Frags]
    \cup [kind: {"METRICS"}, node: Node, group: Nat]

\* What the fragments of a PK carry.  The root makes its key pair from the same
\* unseeded generator at every start: there is only one.
root_pk == 1

\* The fragments fs of a message in the order they are queued.
pk_fragments(n, id, fs) ==
  [k \in 1 .. Cardinality(fs) |-> PK(n, id, nth(fs, k))]
ct_fragments(n, id, fs, ct) ==
  [k \in 1 .. Cardinality(fs) |-> CT(n, id, nth(fs, k), ct)]

(* Time.  A "short" deadline may pass at any moment.  A "long" one covers  *)
(* the whole transfer it waits for (the comment at SESSION_RETRY_TIMEOUT): *)
(* it passes when nothing of that session is queued or in flight, and      *)
(* MaxEarly times although something is.                                   *)

Quiescent(n) ==
  /\ up[n] = << >> /\ down[n] = << >> /\ ~pqc_tx_has_pending(nq[n])
  /\ \A p \in queued(rq) : p.node # n

long_timeout(n) ==
  \/ Quiescent(n) /\ UNCHANGED faults
  \/ /\ ~Quiescent(n) /\ faults.early > 0
     /\ faults' = [faults EXCEPT !.early = @ - 1]

session_retry_due(s, n) ==
  /\ s.waiting_response
  /\ \/ s.retry_deadline = "short" /\ UNCHANGED faults
     \/ s.retry_deadline = "long" /\ long_timeout(n)

-----------------------------------------------------------------------------
Init ==
  /\ ns = [n \in Node |-> session_init]
  /\ getpk = [n \in Node |-> FALSE]
  /\ node_ct = [n \in Node |-> NoSecret]
  /\ nrx = [n \in Node |-> FreeSlot(Nobody)]
  /\ nq = [n \in Node |-> pqc_tx_init]
  /\ metrics_pending = [n \in Node |-> FALSE]
  /\ attempts = [n \in Node |-> 0] /\ prng = [n \in Node |-> 0]
  /\ rs = [n \in Node |-> UnusedSession]
  /\ rx_slots = [i \in 1 .. RxSlots |-> FreeSlot(Nobody)]
  /\ rq = pqc_tx_init
  /\ impact = Nobody
  /\ up = [n \in Node |-> << >>]
  /\ down = [n \in Node |-> << >>]
  /\ faults = [loss |-> MaxLoss, dup |-> MaxDup, early |-> MaxEarly,
               node |-> MaxNodeReboots, root |-> MaxRootReboots]

-----------------------------------------------------------------------------
(* The network.                                                            *)

\* simple_udp_sendto: the packet enters the channel or the radio loses it.
udp_send(chan, p) ==
  \/ /\ Len(chan[p.node]) < ChannelCap
     /\ chan' = [chan EXCEPT ![p.node] = Append(@, p)]
     /\ UNCHANGED faults
  \/ /\ faults.loss > 0
     /\ faults' = [faults EXCEPT !.loss = @ - 1]
     /\ UNCHANGED chan

\* The i-th packet of a channel is handed to udp_rx_callback; a duplicate of
\* it may stay in flight.
udp_deliver(chan, n, i) ==
  /\ i \in DOMAIN chan[n] /\ i <= ReorderWindow
  /\ \/ chan' = [chan EXCEPT ![n] = RemoveAt(@, i)] /\ UNCHANGED faults
     \/ /\ faults.dup > 0
        /\ faults' = [faults EXCEPT !.dup = @ - 1]
        /\ UNCHANGED chan

-----------------------------------------------------------------------------
(* Node.                                                                   *)

\* PQC_process: the node has joined, its session is idle.
NodeRequestPk(n) ==
  /\ ns[n].state = "IDLE" /\ ns[n].pending_msg_type = "NONE" /\ ~getpk[n]
  /\ pqc_tx_free_slots(nq[n]) > 0
  /\ nq' = [nq EXCEPT ![n] = pqc_udp_send_fragment(@, GETPK(n))]
  /\ getpk' = [getpk EXCEPT ![n] = TRUE]
  /\ ns' = [ns EXCEPT ![n] =
              session_set_pending(session_set_state(@, "WAIT_PK"), "GETPK", 0)]
  /\ attempts[n] < MaxAttempts
  /\ attempts' = [attempts EXCEPT ![n] = @ + 1]
  /\ UNCHANGED <<node_ct, nrx, metrics_pending, prng, rootVars, netVars>>

\* PQC_send_process: pqc_tx_process.
NodeTx(n) ==
  /\ pqc_tx_has_pending(nq[n]) /\ active(nq[n]) # {}
  /\ nq' = [nq EXCEPT ![n] = pqc_tx_process(@)]
  /\ udp_send(up, pqc_tx_next(nq[n]))
  /\ UNCHANGED <<ns, getpk, node_ct, nrx, metrics_pending, attempts, prng, rootVars, down>>

\* send_node_metrics: the reports fit one after the other, or the rest of them
\* is left for the next packet received.
reports(n, q) ==
  LET room == pqc_tx_free_slots(q)
  IN  [g \in 1 .. (IF room < MetricsGroups THEN room ELSE MetricsGroups) |-> METRICS(n, g)]

\* What udp_rx_callback does once hs_fsm_handle_fragment has left session s and
\* queue q.
node_rx_done(n, s, q) ==
  LET sends == session_is_established(s) /\ (~session_is_established(ns[n]) \/ metrics_pending[n])
      rep   == reports(n, q)
  IN
  /\ getpk' = [getpk EXCEPT ![n] = @ /\ s.pending_msg_type = "GETPK"]
  /\ metrics_pending' = [metrics_pending EXCEPT ![n] =
       IF sends THEN pqc_tx_free_slots(q) < MetricsGroups ELSE @]
  /\ ns' = [ns EXCEPT ![n] =
       IF sends THEN session_next_msg_ids(s, Len(rep)) ELSE s]
  /\ nq' = [nq EXCEPT ![n] = IF sends THEN pqc_udp_send_all(q, rep) ELSE q]

\* A packet hs_fsm_handle_fragment refuses: PK and ACK out of turn, a NACK for
\* something that is not pending.
NodeRecvIgnored(n, p) ==
  /\ \/ p.kind = "PK" /\ ~(ns[n].state = "WAIT_PK" /\ ns[n].pending_msg_type = "GETPK")
     \/ p.kind = "ACK" /\ ~(ns[n].state = "WAIT_ACK" /\ ns[n].pending_msg_type = "CT")
     \/ p.kind = "NACK" /\ ~( /\ p.missing_msg_id = ns[n].pending_msg_id
                              /\ p.missing_msg_type = ns[n].pending_msg_type
                              /\ ns[n].pending_msg_type = "CT")
  /\ node_rx_done(n, ns[n], nq[n])
  /\ UNCHANGED <<node_ct, nrx, attempts, prng>>

\* retransmit_nack_fragments at the node.
NodeRecvNack(n, p) ==
  LET s == ns[n] IN
  /\ p.kind = "NACK" /\ s.pending_msg_type = "CT"
  /\ p.missing_msg_type = "CT" /\ p.missing_msg_id = s.pending_msg_id
  /\ IF pqc_tx_free_slots(nq[n]) < Cardinality(p.missing)
     THEN node_rx_done(n, retry_in(s, "short"), nq[n])
     ELSE node_rx_done(n, retry_in(s, "long"),
            pqc_udp_send_all(nq[n], ct_fragments(n, p.missing_msg_id, p.missing, node_ct[n])))
  /\ UNCHANGED <<node_ct, nrx, attempts, prng>>

\* Mutant: rx_slot_get does not mark the slot as taken.
slot_after_unclaimed(slot, owner, type, id, f, payload) ==
  [slot EXCEPT !.ctx = fragment_rx_add(@, type, id, f, payload)]

\* The slot hs_fsm_handle_fragment adds a fragment to, and the slot after it.
slot_after(slot, owner, type, id, f, payload) ==
  LET s == IF slot.owner = Nobody THEN NewSlot(owner) ELSE slot
  IN  [s EXCEPT !.ctx = fragment_rx_add(@, type, id, f, payload)]

\* A PK fragment that does not complete the key; the last one asks for the gaps.
NodeRecvPkPart(n, p) ==
  LET slot == slot_after(nrx[n], n, "PK", p.msg_id, p.frag, root_pk)
      gaps == missing(slot.ctx)
  IN
  /\ p.kind = "PK" /\ ns[n].state = "WAIT_PK" /\ ns[n].pending_msg_type = "GETPK"
  /\ fragment_rx_accepts(nrx[n].ctx, "PK", p.msg_id, p.frag) => ~fragment_rx_complete(slot.ctx)
  /\ \E late \in BOOLEAN :
       IF /\ fragment_rx_accepts(nrx[n].ctx, "PK", p.msg_id, p.frag)
          /\ rx_slot_nack_due(slot, p.frag, late) /\ pqc_tx_free_slots(nq[n]) > 0
       THEN /\ nrx' = [nrx EXCEPT ![n] = rx_slot_note_nack(slot)]
            /\ node_rx_done(n, retry_in(session_next_msg_id(ns[n]), "short"),
                 pqc_udp_send_fragment(nq[n], NACK(n, "PK", slot.ctx.msg_id, gaps)))
       ELSE /\ nrx' = [nrx EXCEPT ![n] = slot]
            /\ node_rx_done(n, ns[n], nq[n])
  /\ UNCHANGED <<node_ct, attempts, prng>>

\* The PK is complete: encapsulate, queue the CT and wait for its ACK, or fail
\* when the queue has no room for it.
NodeRecvPkComplete(n, p) ==
  LET slot == slot_after(nrx[n], n, "PK", p.msg_id, p.frag, root_pk)
      ct   == prng[n] + 1
      s    == [ns[n] EXCEPT !.ss = ct]
      id   == s.next_msg_id
  IN
  /\ p.kind = "PK" /\ ns[n].state = "WAIT_PK" /\ ns[n].pending_msg_type = "GETPK"
  /\ fragment_rx_accepts(nrx[n].ctx, "PK", p.msg_id, p.frag) /\ fragment_rx_complete(slot.ctx)
  /\ nrx' = [nrx EXCEPT ![n] = FreeSlot(Nobody)]
  /\ prng' = [prng EXCEPT ![n] = @ + 1]
  /\ IF pqc_tx_free_slots(nq[n]) < CtFrags
     THEN /\ node_ct' = [node_ct EXCEPT ![n] = NoSecret]
          /\ node_rx_done(n, session_set_failed(s), nq[n])
     ELSE /\ node_ct' = [node_ct EXCEPT ![n] = ct]
          /\ node_rx_done(n,
               session_set_pending(
                 session_set_state(session_next_msg_id(session_clear_pending(s)), "WAIT_ACK"),
                 "CT", id),
               pqc_udp_send_all(nq[n], ct_fragments(n, id, FragIdx("CT"), ct)))
  /\ UNCHANGED attempts

\* The ACK names the CT that is pending.
ack_confirms(s, p) == p.confirms = s.pending_msg_id

\* An ACK while the node waits for one: it confirms the pending CT, or it is
\* rejected and the slot it took is released.  A slot that holds part of
\* another message refuses it.
NodeRecvAck(n, p) ==
  LET s == ns[n] IN
  /\ p.kind = "ACK" /\ s.state = "WAIT_ACK" /\ s.pending_msg_type = "CT"
  /\ IF ~nrx[n].ctx.active
     THEN /\ nrx' = [nrx EXCEPT ![n] = FreeSlot(Nobody)]
          /\ IF ack_confirms(s, p)
             THEN /\ node_ct' = [node_ct EXCEPT ![n] = NoSecret]
                  /\ node_rx_done(n, session_set_established(s), nq[n])
             ELSE node_rx_done(n, s, nq[n]) /\ UNCHANGED node_ct
     ELSE node_rx_done(n, s, nq[n]) /\ UNCHANGED <<nrx, node_ct>>
  /\ UNCHANGED <<attempts, prng>>

NodeRecv(n) ==
  /\ \E i \in DOMAIN down[n] :
       /\ udp_deliver(down, n, i)
       /\ LET p == down[n][i] IN
          \/ NodeRecvIgnored(n, p)
          \/ NodeRecvNack(n, p)
          \/ NodeRecvPkPart(n, p)
          \/ NodeRecvPkComplete(n, p)
          \/ NodeRecvAck(n, p)
  /\ UNCHANGED <<rootVars, up>>

\* Mutants: getpk_in_flight stays set; node_ct is not wiped; the queue is not
\* looked at before the handshake is given up.
fail_reset_keeps_flag(n) ==
  /\ ns' = [ns EXCEPT ![n] = session_reset]
  /\ UNCHANGED getpk

\* Mutant: the secret survives the reset.
fail_reset_keeps_secret(n) ==
  /\ ns' = [ns EXCEPT ![n] = [session_reset EXCEPT !.ss = ns[n].ss]]
  /\ getpk' = [getpk EXCEPT ![n] = FALSE]

\* The reset that follows a failure in PQC_retry_process.
node_fail_reset(n) ==
  /\ ns' = [ns EXCEPT ![n] = session_reset]
  /\ getpk' = [getpk EXCEPT ![n] = FALSE]

\* PQC_retry_process and hs_fsm_retry.  What is still queued goes out first.
NodeRetryPostponed(n) ==
  /\ pqc_tx_has_pending(nq[n])
  /\ ns' = [ns EXCEPT ![n] = retry_in(@, "short")]
  /\ UNCHANGED <<getpk, node_ct, nrx, nq>>

exhausted_keeps_ct(n) ==
  /\ ~pqc_tx_has_pending(nq[n]) /\ ~session_can_retry(ns[n])
  /\ nrx' = [nrx EXCEPT ![n] = FreeSlot(Nobody)]
  /\ node_fail_reset(n)
  /\ UNCHANGED <<nq, node_ct>>
exhausted_while_sending(n) ==
  /\ ~session_can_retry(ns[n])
  /\ nrx' = [nrx EXCEPT ![n] = FreeSlot(Nobody)]
  /\ node_ct' = [node_ct EXCEPT ![n] = NoSecret]
  /\ node_fail_reset(n)
  /\ UNCHANGED nq

\* No retry is left: the handshake fails and the session is reset.
NodeRetryExhausted(n) ==
  /\ ~pqc_tx_has_pending(nq[n]) /\ ~session_can_retry(ns[n])
  /\ nrx' = [nrx EXCEPT ![n] = FreeSlot(Nobody)]
  /\ node_ct' = [node_ct EXCEPT ![n] = NoSecret]
  /\ node_fail_reset(n)
  /\ UNCHANGED nq

\* Mutant: a retry encapsulates anew instead of sending the stored CT.
retry_encapsulates_again(n) ==
  LET s  == ns[n]
      ct == prng[n] + 1
  IN
  /\ ~pqc_tx_has_pending(nq[n]) /\ session_can_retry(s)
  /\ s.pending_msg_type = "CT"
  /\ nq' = [nq EXCEPT ![n] = pqc_udp_send_all(@,
              ct_fragments(n, s.pending_msg_id, FragIdx("CT"), ct))]
  /\ nrx' = [nrx EXCEPT ![n] = FreeSlot(Nobody)]
  /\ ns' = [ns EXCEPT ![n] = hs_mark_retry([@ EXCEPT !.ss = ct])]
  /\ node_ct' = [node_ct EXCEPT ![n] = ct]
  /\ UNCHANGED getpk

\* The pending message again.  The queue is empty: there is room for it.
NodeRetrySend(n) ==
  LET s == ns[n] IN
  /\ ~pqc_tx_has_pending(nq[n]) /\ session_can_retry(s)
  /\ \/ /\ s.pending_msg_type = "GETPK"
        /\ nq' = [nq EXCEPT ![n] = pqc_udp_send_fragment(@, GETPK(n))]
     \/ /\ s.pending_msg_type = "CT"
        /\ nq' = [nq EXCEPT ![n] = pqc_udp_send_all(@,
                    ct_fragments(n, s.pending_msg_id, FragIdx("CT"), node_ct[n]))]
  /\ nrx' = [nrx EXCEPT ![n] = FreeSlot(Nobody)]
  /\ ns' = [ns EXCEPT ![n] = hs_mark_retry(@)]
  /\ UNCHANGED <<getpk, node_ct>>

NodeRetry(n) ==
  /\ ~session_is_established(ns[n]) /\ session_retry_due(ns[n], n)
  /\ NodeRetryPostponed(n) \/ NodeRetryExhausted(n) \/ NodeRetrySend(n)
  /\ UNCHANGED <<metrics_pending, attempts, prng, rootVars, up, down>>

\* A handshake that failed while a packet was handled.
NodeFailReset(n) ==
  /\ session_is_failed(ns[n])
  /\ node_fail_reset(n)
  /\ UNCHANGED <<node_ct, nrx, nq, metrics_pending, attempts, prng, rootVars, netVars>>

\* rx_slots_gc: a slot is dropped HS_RX_TIMEOUT after it was taken.  Nothing
\* looks at a slot before the next rx_slots_gc.
NodeRxTimeout(n) ==
  /\ nrx[n].owner # Nobody /\ long_timeout(n)
  /\ nrx' = [nrx EXCEPT ![n] = FreeSlot(Nobody)]
  /\ UNCHANGED <<ns, getpk, node_ct, nq, metrics_pending, attempts, prng, rootVars, up, down>>

\* A reset of the node: everything it keeps is in RAM, the state of its random
\* generator included.
NodeReboot(n) ==
  /\ faults.node > 0
  /\ faults' = [faults EXCEPT !.node = @ - 1]
  /\ ns' = [ns EXCEPT ![n] = session_init]
  /\ getpk' = [getpk EXCEPT ![n] = FALSE]
  /\ node_ct' = [node_ct EXCEPT ![n] = NoSecret]
  /\ nrx' = [nrx EXCEPT ![n] = FreeSlot(Nobody)]
  /\ nq' = [nq EXCEPT ![n] = pqc_tx_init]
  /\ metrics_pending' = [metrics_pending EXCEPT ![n] = FALSE]
  /\ prng' = [prng EXCEPT ![n] = 0]
  /\ UNCHANGED <<attempts, rootVars, up, down>>

-----------------------------------------------------------------------------
(* Root.                                                                   *)

owned(slots, n) == {i \in DOMAIN slots : slots[i].owner = n}

\* rx_slot_release
released(slots, n) ==
  IF owned(slots, n) = {} THEN slots
  ELSE [slots EXCEPT ![first_of(owned(slots, n))] = FreeSlot(Nobody)]

\* Mutant: rx_slot_get does not look for the slot the session already has.
slot_for_always_fresh(slots, n) ==
  IF owned(slots, Nobody) # {} THEN {first_of(owned(slots, Nobody))} ELSE {}

\* rx_slot_get: the slot of n, else the first free one, else none.
slot_for(slots, n) ==
  IF owned(slots, n) # {} THEN {first_of(owned(slots, n))}
  ELSE IF owned(slots, Nobody) # {} THEN {first_of(owned(slots, Nobody))}
  ELSE {}

\* session_manager_get_or_create: a session in use, or a free place for one.
has_session(n) ==
  \/ rs[n].state # "UNUSED"
  \/ Cardinality({m \in Node : rs[m].state # "UNUSED"}) < MaxSessions

\* Mutant: session_manager_get_or_create does not find the session of a known node.
root_session_new(n) == session_init

root_session(n) == IF rs[n].state = "UNUSED" THEN session_init ELSE rs[n]

\* impact_start and impact_end: one window at a time, closed by its target.
impact_start(n) == IF impact = Nobody THEN n ELSE impact
impact_end(n, w) == IF w = n THEN Nobody ELSE w

\* No session slot is free: the packet is dropped.
RootRecvNoSession(n, p) ==
  /\ ~has_session(n)
  /\ UNCHANGED rootVars

\* GETPK: whatever the session was doing is dropped and the handshake starts
\* again with the PK, if the queue has room for it.  The receive slot of the
\* node is left as it is.
RootRecvGetpk(n, p) ==
  LET idle == root_session(n).state = "IDLE"
      s    == IF idle THEN root_session(n) ELSE session_reset
      q    == IF idle THEN rq ELSE pqc_tx_drop_node(rq, n)
      id   == s.next_msg_id
  IN
  /\ p.kind = "GETPK" /\ has_session(n)
  /\ IF pqc_tx_free_slots(q) < PkFrags
     THEN /\ rs' = [rs EXCEPT ![n] = s]
          /\ rq' = q
          /\ impact' = impact_end(n, impact_start(n))
     ELSE /\ rs' = [rs EXCEPT ![n] =
               session_set_pending(session_set_state(session_next_msg_id(s), "WAIT_CT"), "PK", id)]
          /\ rq' = pqc_udp_send_all(q, pk_fragments(n, id, FragIdx("PK")))
          /\ impact' = impact_start(n)
  /\ UNCHANGED rx_slots

\* send_ack, and the session after it.
ack_queue(n, q, id) == IF pqc_tx_free_slots(q) > 0 THEN pqc_udp_send_fragment(q, ACK(n, id)) ELSE q
ack_session(s, q)   == IF pqc_tx_free_slots(q) > 0 THEN session_next_msg_id(s) ELSE s

\* Mutant: the CT is confirmed before it is complete.
ct_duplicate_unchecked(n, p) ==
  LET edge == p.frag = 0 \/ p.frag + 1 = CtFrags IN
  /\ p.kind = "CT" /\ rs[n].state \in {"WAIT_CT", "ESTABLISHED"}
  /\ rq' = IF edge THEN ack_queue(n, rq, p.msg_id) ELSE rq
  /\ rs' = [rs EXCEPT ![n] = IF edge THEN ack_session(@, rq) ELSE @]
  /\ UNCHANGED <<rx_slots, impact>>

\* A CT fragment for an established session: the first and the last one of a CT
\* are answered with a new ACK.
RootRecvCtDuplicate(n, p) ==
  LET edge == p.frag = 0 \/ p.frag + 1 = CtFrags IN
  /\ p.kind = "CT" /\ session_is_established(rs[n])
  /\ rq' = IF edge THEN ack_queue(n, rq, p.msg_id) ELSE rq
  /\ rs' = [rs EXCEPT ![n] = IF edge THEN ack_session(@, rq) ELSE @]
  /\ UNCHANGED <<rx_slots, impact>>

\* A CT fragment in a state that does not wait for one; a session is created
\* all the same.
RootRecvCtUnexpected(n, p) ==
  /\ p.kind = "CT" /\ has_session(n)
  /\ root_session(n).state \notin {"WAIT_CT", "ESTABLISHED"}
  /\ rs' = [rs EXCEPT ![n] = root_session(n)]
  /\ UNCHANGED <<rx_slots, rq, impact>>

\* Mutant: a CT that begins does not stop the PK.
ct_queue_keeps_pk(n) == rq

\* What udp_rx_callback does before it hands on a CT fragment: the first one
\* stops the PK and makes the CT the pending message.
ct_session(n, p) ==
  IF rs[n].pending_msg_type = "PK" THEN session_set_pending(rs[n], "CT", p.msg_id) ELSE rs[n]
ct_queue(n) ==
  IF rs[n].pending_msg_type = "PK"
  THEN pqc_tx_drop(rq, n, "PK", rs[n].pending_msg_id)
  ELSE rq

\* No receive slot is free, or the slot of the node holds another message.
RootRecvCtRefused(n, p) ==
  /\ p.kind = "CT" /\ rs[n].state = "WAIT_CT"
  /\ \A i \in slot_for(rx_slots, n) : ~fragment_rx_accepts(rx_slots[i].ctx, "CT", p.msg_id, p.frag)
  /\ rs' = [rs EXCEPT ![n] = ct_session(n, p)]
  /\ rq' = ct_queue(n)
  /\ UNCHANGED <<rx_slots, impact>>

\* A CT fragment that does not complete the ciphertext.
RootRecvCtPart(n, p) ==
  /\ p.kind = "CT" /\ rs[n].state = "WAIT_CT"
  /\ \E i \in slot_for(rx_slots, n) :
       LET slot == slot_after(rx_slots[i], n, "CT", p.msg_id, p.frag, p.ct)
           s    == ct_session(n, p)
           q    == ct_queue(n)
       IN
       /\ fragment_rx_accepts(rx_slots[i].ctx, "CT", p.msg_id, p.frag)
       /\ ~fragment_rx_complete(slot.ctx)
       /\ \E late \in BOOLEAN :
            IF rx_slot_nack_due(slot, p.frag, late) /\ pqc_tx_free_slots(q) > 0
            THEN /\ rx_slots' = [rx_slots EXCEPT ![i] = rx_slot_note_nack(slot)]
                 /\ rs' = [rs EXCEPT ![n] = retry_in(session_next_msg_id(s), "short")]
                 /\ rq' = pqc_udp_send_fragment(q, NACK(n, "CT", p.msg_id, missing(slot.ctx)))
            ELSE /\ rx_slots' = [rx_slots EXCEPT ![i] = slot]
                 /\ rs' = [rs EXCEPT ![n] = s]
                 /\ rq' = q
  /\ UNCHANGED impact

\* crypto_kem_dec re-encrypts and compares: it accepts exactly an unmixed
\* ciphertext.  All are made for the one key pair of the root.
decapsulates(rx) == unmixed(rx)

\* csv_session_summary_if_ready: once per session, when every group has come.
summarised(s) ==
  IF session_is_established(s) /\ s.node_metrics_mask = 1 .. MetricsGroups
  THEN [s EXCEPT !.session_summary_emitted = TRUE] ELSE s

\* The CT is complete: decapsulate it and confirm it, or fail.
RootRecvCtComplete(n, p) ==
  /\ p.kind = "CT" /\ rs[n].state = "WAIT_CT"
  /\ \E i \in slot_for(rx_slots, n) :
       LET slot == slot_after(rx_slots[i], n, "CT", p.msg_id, p.frag, p.ct)
           s    == ct_session(n, p)
           q    == ct_queue(n)
       IN
       /\ fragment_rx_accepts(rx_slots[i].ctx, "CT", p.msg_id, p.frag)
       /\ fragment_rx_complete(slot.ctx)
       /\ rx_slots' = [rx_slots EXCEPT ![i] = FreeSlot(Nobody)]
       /\ IF decapsulates(slot.ctx)
          THEN /\ rs' = [rs EXCEPT ![n] =
                    summarised(ack_session(
                      session_set_established([s EXCEPT !.ss = content(slot.ctx)]), q))]
               /\ rq' = ack_queue(n, q, p.msg_id)
               /\ impact' = impact_end(n, impact)
          ELSE /\ rs' = [rs EXCEPT ![n] = session_set_failed([s EXCEPT !.ss = NoSecret])]
               /\ rq' = q
               /\ UNCHANGED impact

\* NACK from a node: retransmit_nack_fragments at the root.
RootRecvNack(n, p) ==
  LET s      == root_session(n)
      served == s.pending_msg_type = "PK" /\ p.missing_msg_type = "PK"
                  /\ p.missing_msg_id = s.pending_msg_id
      room   == pqc_tx_free_slots(rq) >= Cardinality(p.missing)
  IN
  /\ p.kind = "NACK" /\ has_session(n)
  /\ rs' = [rs EXCEPT ![n] =
       IF ~served THEN s
       ELSE retry_in(s, IF room THEN "long" ELSE "short")]
  /\ rq' = IF served /\ room
           THEN pqc_udp_send_all(rq, pk_fragments(n, p.missing_msg_id, p.missing)) ELSE rq
  /\ UNCHANGED <<rx_slots, impact>>

\* A metrics report of a node: session_store_node_metrics and the summary.
RootRecvMetrics(n, p) ==
  /\ p.kind = "METRICS" /\ has_session(n)
  /\ rs' = [rs EXCEPT ![n] =
       summarised([root_session(n) EXCEPT !.node_metrics_mask = @ \cup {p.group}])]
  /\ UNCHANGED <<rx_slots, rq, impact>>

RootRecv(n) ==
  /\ \E i \in DOMAIN up[n] :
       /\ udp_deliver(up, n, i)
       /\ LET p == up[n][i] IN
          \/ RootRecvNoSession(n, p)
          \/ RootRecvGetpk(n, p)
          \/ RootRecvCtDuplicate(n, p)
          \/ RootRecvCtUnexpected(n, p)
          \/ RootRecvCtRefused(n, p)
          \/ RootRecvCtPart(n, p)
          \/ RootRecvCtComplete(n, p)
          \/ RootRecvNack(n, p)
          \/ RootRecvMetrics(n, p)
  /\ UNCHANGED <<nodeVars, down>>

\* PQC_send_process: pqc_tx_process.
RootTx ==
  /\ pqc_tx_has_pending(rq) /\ active(rq) # {}
  /\ rq' = pqc_tx_process(rq)
  /\ udp_send(down, pqc_tx_next(rq))
  /\ UNCHANGED <<nodeVars, rs, rx_slots, impact, up>>

\* Mutant: the window stays open.
fail_reset_keeps_window(n) ==
  /\ rs' = [rs EXCEPT ![n] = session_reset]
  /\ rq' = pqc_tx_drop_node(rq, n)
  /\ UNCHANGED impact

\* The reset that follows a failure in PQC_retry_process.
root_fail_reset(n) ==
  /\ rs' = [rs EXCEPT ![n] = session_reset]
  /\ rq' = pqc_tx_drop_node(rq, n)
  /\ impact' = impact_end(n, impact)

\* PQC_retry_process and hs_fsm_retry for the session of n.  What is still
\* queued, for whichever node, goes out first.
RootRetryPostponed(n) ==
  /\ pqc_tx_has_pending(rq)
  /\ rs' = [rs EXCEPT ![n] = retry_in(@, "short")]
  /\ UNCHANGED <<rx_slots, rq, impact>>

\* Some fragments of a CT are there and others are not.
partial_ct(n) ==
  /\ owned(rx_slots, n) # {}
  /\ LET rx == rx_slots[first_of(owned(rx_slots, n))].ctx
     IN  rx.active /\ ~fragment_rx_complete(rx)

\* No retry is left, or nothing is left of a CT that had begun.
RootRetryExhausted(n) ==
  /\ ~pqc_tx_has_pending(rq)
  /\ ~session_can_retry(rs[n]) \/ (rs[n].pending_msg_type = "CT" /\ ~partial_ct(n))
  /\ rx_slots' = released(rx_slots, n)
  /\ root_fail_reset(n)

\* A CT with gaps: ask for them.
RootRetryNack(n) ==
  LET i == first_of(owned(rx_slots, n)) IN
  /\ ~pqc_tx_has_pending(rq) /\ session_can_retry(rs[n])
  /\ rs[n].pending_msg_type = "CT" /\ partial_ct(n)
  /\ rx_slots' = [rx_slots EXCEPT ![i] = rx_slot_note_nack(@)]
  /\ rq' = pqc_udp_send_fragment(rq,
             NACK(n, "CT", rx_slots[i].ctx.msg_id, missing(rx_slots[i].ctx)))
  /\ rs' = [rs EXCEPT ![n] = hs_mark_retry(session_next_msg_id(@))]
  /\ UNCHANGED impact

\* The PK again.  The queue is empty: there is room for it.
RootRetryPk(n) ==
  /\ ~pqc_tx_has_pending(rq) /\ session_can_retry(rs[n])
  /\ rs[n].pending_msg_type = "PK"
  /\ rx_slots' = released(rx_slots, n)
  /\ rq' = pqc_udp_send_all(rq, pk_fragments(n, rs[n].pending_msg_id, FragIdx("PK")))
  /\ rs' = [rs EXCEPT ![n] = hs_mark_retry(@)]
  /\ UNCHANGED impact

RootRetry(n) ==
  /\ ~session_is_established(rs[n]) /\ session_retry_due(rs[n], n)
  /\ \/ RootRetryPostponed(n) \/ RootRetryExhausted(n)
     \/ RootRetryNack(n) \/ RootRetryPk(n)
  /\ UNCHANGED <<nodeVars, up, down>>

\* A handshake that failed while a packet was handled.
RootFailReset(n) ==
  /\ session_is_failed(rs[n])
  /\ root_fail_reset(n)
  /\ UNCHANGED <<nodeVars, rx_slots, netVars>>

\* rx_slots_gc at the root.
RootRxTimeout(i) ==
  /\ rx_slots[i].owner # Nobody /\ long_timeout(rx_slots[i].owner)
  /\ rx_slots' = [rx_slots EXCEPT ![i] = FreeSlot(Nobody)]
  /\ UNCHANGED <<nodeVars, rs, rq, impact, up, down>>

\* The root restarts: no session survives.  hs_fsm_root_init_keypair makes the
\* same key pair again, so a CT from before the restart still decapsulates.
RootReboot ==
  /\ faults.root > 0
  /\ faults' = [faults EXCEPT !.root = @ - 1]
  /\ rs' = [n \in Node |-> UnusedSession]
  /\ rx_slots' = [i \in 1 .. RxSlots |-> FreeSlot(Nobody)]
  /\ rq' = pqc_tx_init
  /\ impact' = Nobody
  /\ UNCHANGED <<nodeVars, up, down>>

-----------------------------------------------------------------------------
NodeStep(n) ==
  \/ NodeRequestPk(n) \/ NodeTx(n) \/ NodeRecv(n) \/ NodeRetry(n)
  \/ NodeFailReset(n) \/ NodeRxTimeout(n) \/ NodeReboot(n)

RootStep(n) ==
  RootRecv(n) \/ RootRetry(n) \/ RootFailReset(n)

Next ==
  \/ \E n \in Node : NodeStep(n) \/ RootStep(n)
  \/ RootTx
  \/ \E i \in 1 .. RxSlots : RootRxTimeout(i)
  \/ RootReboot

Spec == Init /\ [][Next]_vars

\* Every process is driven by a periodic timer and the network hands on what it
\* does not lose; reboots and slot timeouts need not happen.
Fairness ==
  /\ \A n \in Node :
       /\ WF_vars(NodeRequestPk(n)) /\ WF_vars(NodeTx(n)) /\ WF_vars(NodeRecv(n))
       /\ WF_vars(NodeRetry(n)) /\ WF_vars(NodeFailReset(n))
       /\ WF_vars(RootRecv(n)) /\ WF_vars(RootRetry(n)) /\ WF_vars(RootFailReset(n))
  /\ WF_vars(RootTx)

FairSpec == Spec /\ Fairness

-----------------------------------------------------------------------------
(* Properties.                                                             *)

NodeSlot == RxSlot(Node \cup {Nobody}, MsgId, "PK", {root_pk})
RootSlot == RxSlot(Node \cup {Nobody}, MsgId, "CT", Secret)
TxQueues == Queues(Packet, Node)
Faults   == [loss: Nat, dup: Nat, early: Nat, node: Nat, root: Nat]

\* What every variable ranges over; a session's retry_count never passes
\* SESSION_MAX_RETRIES (hs_fsm_retry), a received fragment lies inside its
\* message (fragment_rx_add) and tx_tail inside the array (pqc_udp_send_fragment).
NodeTypeOK ==
  /\ ns \in [Node -> Session] /\ getpk \in [Node -> BOOLEAN] /\ node_ct \in [Node -> Secret]
  /\ nrx \in [Node -> NodeSlot] /\ nq \in [Node -> TxQueues]
  /\ metrics_pending \in [Node -> BOOLEAN] /\ attempts \in [Node -> Nat] /\ prng \in [Node -> Nat]

RootTypeOK ==
  /\ rs \in [Node -> Session] /\ rx_slots \in [1 .. RxSlots -> RootSlot]
  /\ rq \in TxQueues /\ impact \in Node \cup {Nobody}

NetTypeOK ==
  /\ up \in [Node -> Seq(Packet)] /\ down \in [Node -> Seq(Packet)]
  /\ faults \in Faults

TypeOK == NodeTypeOK /\ RootTypeOK /\ NetTypeOK

\* The message a session waits for goes with its state on both sides, and with
\* it the armed retry timer.  A session that waits with nothing pending is never
\* repeated and never given up (hs_fsm_retry returns early); one that has a
\* message pending in another state is repeated for nothing.
armed(s) ==
  /\ s.waiting_response <=> s.pending_msg_type # "NONE"
  /\ s.established <=> s.state = "ESTABLISHED"
node_armed(s) ==
  /\ armed(s) /\ s.state \in {"IDLE", "WAIT_PK", "WAIT_ACK", "ESTABLISHED", "FAILED"}
  /\ s.state = "WAIT_PK" <=> s.pending_msg_type = "GETPK"
  /\ s.state = "WAIT_ACK" <=> s.pending_msg_type = "CT"
root_armed(s) ==
  /\ armed(s) /\ s.state \in {"UNUSED", "IDLE", "WAIT_CT", "ESTABLISHED", "FAILED"}
  /\ s.state = "WAIT_CT" <=> s.pending_msg_type \in {"PK", "CT"}

WaitsAreArmed == \A n \in Node : node_armed(ns[n]) /\ root_armed(rs[n])

\* getpk_in_flight of node_main.c says what the session says: an idle node whose
\* flag stayed set would never ask for a key again (should_request_pk).
GetpkInFlightMatches ==
  \A n \in Node : getpk[n] <=> ns[n].pending_msg_type = "GETPK"

\* node_ct is a static of handshake_fsm.c beside the session.  It holds the
\* ciphertext of the session's secret exactly while that may have to be sent
\* again, and is wiped on every way out of WAIT_ACK.
CtMatchesSecret ==
  \A n \in Node : node_ct[n] = IF ns[n].state = "WAIT_ACK" THEN ns[n].ss ELSE NoSecret

\* The few receive slots of the root are never taken twice by one session, and
\* a slot in use holds part of a message of its owner, counted right: a complete
\* or miscounted one would block its node until HS_RX_TIMEOUT.  A free slot is
\* clean.  A node holds its slot only while it collects the PK: the ACK needs
\* it free.
SlotIsPartial(slot) ==
  /\ slot.ctx.active /\ slot.ctx.received_frags = Cardinality(bitmap(slot.ctx))
  /\ bitmap(slot.ctx) # FragIdx(slot.ctx.msg_type)

SlotsConsistent ==
  /\ \A i, j \in 1 .. RxSlots :
       rx_slots[i].owner # Nobody /\ rx_slots[i].owner = rx_slots[j].owner => i = j
  /\ \A i \in 1 .. RxSlots :
       rx_slots[i].owner # Nobody =>
         /\ SlotIsPartial(rx_slots[i])
         /\ contents(rx_slots[i].ctx) \subseteq 1 .. attempts[rx_slots[i].owner]
  /\ \A slot \in {rx_slots[i] : i \in 1 .. RxSlots} \cup {nrx[n] : n \in Node} :
       slot.owner = Nobody => ~slot.ctx.active
  /\ \A n \in Node : nrx[n].owner # Nobody => ns[n].state = "WAIT_PK" /\ SlotIsPartial(nrx[n])

\* What the root has queued for a node belongs to the session as it is now: PK
\* fragments only while that PK is pending; requests for CT fragments only after
\* a CT began; ACKs only of an established session.
\* Whatever resets or advances a session must clean the queue for it.
RootQueueMatchesSession ==
  \A p \in queued(rq) :
    LET s == rs[p.node] IN
    \/ p.kind = "PK" /\ s.pending_msg_type = "PK" /\ p.msg_id = s.pending_msg_id
    \/ p.kind = "NACK" /\ (s.pending_msg_type = "CT" \/ s.state \in {"ESTABLISHED", "FAILED"})
    \/ p.kind = "ACK" /\ s.state = "ESTABLISHED"

\* A node never has fragments of an earlier ciphertext in its queue, nor of the
\* wiped buffer: what it sends as CT is the ciphertext of the secret it holds.
\* Nothing drops them at the node; that hs_fsm_retry waits until the queue is
\* empty before it gives up is what keeps this true.
NodeQueueMatchesSession ==
  \A n \in Node : \A p \in queued(nq[n]) :
    p.kind = "CT" => p.ct = ns[n].ss /\ ns[n].state \in {"WAIT_ACK", "ESTABLISHED"}

\* tx_count of both roles is the number of entries in use: free slots that are
\* miscounted starve the handshake or tear a message apart.
TxCountExact ==
  (\A n \in Node : CountIsExact(nq[n])) /\ CountIsExact(rq)

\* The root's only impact window is open for a node whose handshake is still
\* running or has just failed: one that stayed open for a finished handshake
\* would hide every later one (IMPACT_OVERLAP in impact_start).
ImpactWindowIsOpen ==
  \A n \in Node : impact = n => rs[n].state \in {"WAIT_CT", "FAILED"}

\* Two established sides hold the same secret.
KeyAgreement ==
  \A n \in Node :
    session_is_established(ns[n]) /\ session_is_established(rs[n]) => ns[n].ss = rs[n].ss

\* A node that considers itself established encrypts under a key the root has
\* for it.  It takes an ACK for the pending CT as the proof; ids start again
\* with every session, so order and timers have to keep old packets away.
EstablishedTogether ==
  \A n \in Node : session_is_established(ns[n]) =>
                     session_is_established(rs[n]) /\ rs[n].ss = ns[n].ss

\* Finitely many lost packets do not keep a node and the root from reaching,
\* and keeping, a common secret.
EventuallyEstablished ==
  <>[](\A n \in Node : /\ session_is_established(ns[n])
                       /\ session_is_established(rs[n])
                       /\ ns[n].ss = rs[n].ss)

\* Whoever waits for the other side gets its answer or gives up in the end:
\* retries are bounded, and a busy transmit queue postpones them only for as
\* long as it drains.
NobodyWaitsForever ==
  \A n \in Node : /\ ns[n].waiting_response ~> ~ns[n].waiting_response
                  /\ rs[n].waiting_response ~> ~rs[n].waiting_response

\* SESSION_MAX_NODES sessions are never given back.  A node that finds the table
\* full keeps asking for nothing, but those that are in it still finish.
TableFullServesTheRest ==
  <>[](\E n \in Node : /\ session_is_established(ns[n])
                       /\ session_is_established(rs[n])
                       /\ ns[n].ss = rs[n].ss)

\* The secrets and sessions of the handshake change only in the ways KeyExchange
\* allows, whatever is lost, repeated or restarted: a node draws one secret per
\* handshake and keeps it until it is reset, and the root takes one only
\* while it waits for a ciphertext.
Keys == INSTANCE KeyExchange WITH
  asked <- [n \in Node |-> ns[n].state = "WAIT_PK"],
  node_ss <- [n \in Node |-> ns[n].ss],
  node_up <- [n \in Node |-> session_is_established(ns[n])],
  root_state <- [n \in Node |-> IF rs[n].state \in {"WAIT_CT", "ESTABLISHED"}
                                THEN rs[n].state ELSE "IDLE"],
  root_ss <- [n \in Node |-> rs[n].ss]
ImplementsKeyExchange == Keys!KeySpec

\* "Root emits one summary row for each handshake success/failure"
\* (src/src/metrics/README.md): the combined summary of an established session
\* is emitted, unless the next handshake takes its place.
SuccessIsSummarised ==
  \A n \in Node : session_is_established(rs[n]) ~>
                     (rs[n].session_summary_emitted \/ ~session_is_established(rs[n]))
=============================================================================
