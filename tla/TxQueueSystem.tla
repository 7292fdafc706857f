---------------------------- MODULE TxQueueSystem ----------------------------
(***************************************************************************)
(* The transmit queue on its own, driven by callers that queue whole       *)
(* messages when there is room for them, send one packet per timer tick    *)
(* and drop what a session no longer needs.  It implements TxBag.          *)
(***************************************************************************)
EXTENDS TxQueue

CONSTANTS
  Nodes,
  Kinds,    \* message types that are sent
  MsgIds,   \* message ids in use
  MaxFrags  \* fragments of the longest message

ASSUME SystemAssumption == "NONE" \notin Kinds /\ MaxFrags \in Nat

VARIABLE q

Fragment(n, kind, id, f) == [kind |-> kind, node |-> n, msg_id |-> id, frag |-> f]

Message(n, kind, id, k) == [i \in 1 .. k |-> Fragment(n, kind, id, i - 1)]

Messages == {Message(n, kind, id, k) : n \in Nodes, kind \in Kinds, id \in MsgIds, k \in 1 .. MaxFrags}

Init == q = pqc_tx_init

\* tx_has_room_for and fragment_tx.
Send(ps) ==
  /\ pqc_tx_free_slots(q) >= Len(ps)
  /\ q' = pqc_udp_send_all(q, ps)

Process ==
  /\ pqc_tx_has_pending(q) /\ active(q) # {}
  /\ q' = pqc_tx_process(q)

Drop(n, kind, id) == q' = pqc_tx_drop(q, n, kind, id)

DropNode(n) == q' = pqc_tx_drop_node(q, n)

Next ==
  \/ \E ps \in Messages : Send(ps)
  \/ Process
  \/ \E n \in Nodes, kind \in Kinds, id \in MsgIds : Drop(n, kind, id)
  \/ \E n \in Nodes : DropNode(n)

Spec == Init /\ [][Next]_q

-----------------------------------------------------------------------------
(* Properties.                                                             *)

\* The queue implements the bag: no packet of a message is overwritten, lost or
\* sent twice, a message is never queued in part, and pqc_tx_select_slot serves
\* priorities and nodes as promised, wherever the tail has wandered.
Bag == INSTANCE TxBag WITH
  bag      <- [p \in queued(q) |-> Cardinality({i \in active(q) : q.slot[i] = p})],
  last     <- q.last,
  Priority <- pqc_tx_priority_for_msg,
  NoNode   <- INVALID_NODE_ID

ImplementsBag == Bag!Spec

\* tx_count is the number of entries in use after any sequence of calls, which is
\* what pqc_tx_free_slots and pqc_tx_has_pending rely on.
CountExact == CountIsExact(q)

\* pqc_tx_find_free_slot and the rest of pqc_udp_send_fragment for one packet:
\* the first free entry at or after the tail.
send_one(r, p) ==
  LET k   == CHOOSE d \in 0 .. PQC_TX_QUEUE_SIZE - 1 :
               /\ (r.tail + d) % PQC_TX_QUEUE_SIZE \notin active(r)
               /\ \A e \in 0 .. d - 1 : (r.tail + e) % PQC_TX_QUEUE_SIZE \in active(r)
      idx == (r.tail + k) % PQC_TX_QUEUE_SIZE
  IN  [slot  |-> [r.slot EXCEPT ![idx] = p],
       tail  |-> (idx + 1) % PQC_TX_QUEUE_SIZE,
       count |-> r.count + 1,
       last  |-> r.last]

\* Queueing a message at once, as the handshake model does, is queueing its
\* fragments one after the other, as fragment_tx does: every fragment goes where
\* pqc_udp_send_fragment puts it after those before it.
BatchIsOneByOne ==
  /\ pqc_udp_send_all(q, << >>) = q
  /\ \A ps \in Messages :
       Len(ps) <= pqc_tx_free_slots(q) =>
         \A k \in 1 .. Len(ps) :
           pqc_udp_send_all(q, SubSeq(ps, 1, k))
             = send_one(pqc_udp_send_all(q, SubSeq(ps, 1, k - 1)), ps[k])
=============================================================================
