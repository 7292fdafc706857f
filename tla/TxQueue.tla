------------------------------- MODULE TxQueue -------------------------------
(***************************************************************************)
(* The transmit queue of src/src/PQC/PQC.c: a fixed array of entries, the  *)
(* position where the search for a free one starts, the number of entries  *)
(* in use and the node served last.  Every operator takes a queue and      *)
(* returns the queue the function of the same name leaves behind.          *)
(***************************************************************************)
EXTENDS Integers, Sequences, FiniteSets

CONSTANT PQC_TX_QUEUE_SIZE

ASSUME TxQueueAssumption == PQC_TX_QUEUE_SIZE \in Nat \ {0}

TxSlot == 0 .. PQC_TX_QUEUE_SIZE - 1

\* An entry that is not active (all zero), and the initial tx_last_node_id.
NoPacket       == [kind |-> "NONE"]
INVALID_NODE_ID == "invalid"

pqc_tx_init ==
  [slot |-> [i \in TxSlot |-> NoPacket], tail |-> 0, count |-> 0,
   last |-> INVALID_NODE_ID]

\* Queues of packets from P that belong to nodes in N.
Queues(P, N) ==
  [slot: [TxSlot -> P \cup {NoPacket}], tail: TxSlot, count: Int,
   last: N \cup {INVALID_NODE_ID}]

active(q) == {i \in TxSlot : q.slot[i] # NoPacket}
queued(q) == {q.slot[i] : i \in active(q)}

\* tx_count says how many entries are in use.
CountIsExact(q) == q.count = Cardinality(active(q))

pqc_tx_has_pending(q) == q.count > 0
pqc_tx_free_slots(q)  == PQC_TX_QUEUE_SIZE - q.count

pqc_tx_priority_for_msg(kind) ==
  CASE kind \in {"ACK", "NACK", "GETPK"} -> 0
    [] kind \in {"PK", "CT", "TEMP"} -> 1
    [] OTHER -> 2

-----------------------------------------------------------------------------
\* Free entries the search from the tail meets before entry i.
distance(from, i)  == (i + PQC_TX_QUEUE_SIZE - from) % PQC_TX_QUEUE_SIZE
free_before(q, i) ==
  Cardinality({j \in TxSlot \ active(q) : distance(q.tail, j) < distance(q.tail, i)})

\* Mutant: the tail moves by the number of packets, not past the entries in use.
send_all_tail_by_length(q, ps) ==
  LET passed == {i \in TxSlot : free_before(q, i) < Len(ps)} IN
  [q EXCEPT !.slot = [i \in TxSlot |-> IF i \in passed \ active(q)
                                       THEN ps[free_before(q, i) + 1] ELSE @[i]],
            !.tail = (@ + Len(ps)) % PQC_TX_QUEUE_SIZE,
            !.count = @ + Len(ps)]

\* pqc_udp_send_fragment for each packet of ps in turn, when there is room for
\* all of them: each takes the next free entry at or after the tail, and the
\* tail ends behind the last one.
pqc_udp_send_all(q, ps) ==
  LET passed == {i \in TxSlot : free_before(q, i) < Len(ps)} IN
  [slot  |-> [i \in TxSlot |-> IF i \in passed \ active(q)
                              THEN ps[free_before(q, i) + 1] ELSE q.slot[i]],
   tail  |-> (q.tail + Cardinality(passed)) % PQC_TX_QUEUE_SIZE,
   count |-> q.count + Len(ps),
   last  |-> q.last]

pqc_udp_send_fragment(q, p) == pqc_udp_send_all(q, <<p>>)

-----------------------------------------------------------------------------
first_of(S) == CHOOSE i \in S : \A j \in S : i <= j

\* Mutant: the node served last is not passed over.
select_lowest(q) ==
  LET prio(i) == pqc_tx_priority_for_msg(q.slot[i].kind)
  IN  first_of({i \in active(q) : \A j \in active(q) : prio(i) <= prio(j)})

\* The best priority present, and in it the lowest entry of a node other than
\* the one served last, if there is one.
pqc_tx_select_slot(q) ==
  LET prio(i) == pqc_tx_priority_for_msg(q.slot[i].kind)
      best    == {i \in active(q) : \A j \in active(q) : prio(i) <= prio(j)}
      others  == {i \in best : q.slot[i].node # q.last}
  IN  first_of(IF others # {} THEN others ELSE best)

\* pqc_tx_process when the queue is not empty: the packet it sends and the rest.
pqc_tx_next(q) == q.slot[pqc_tx_select_slot(q)]

pqc_tx_process(q) ==
  [slot  |-> [q.slot EXCEPT ![pqc_tx_select_slot(q)] = NoPacket],
   tail  |-> q.tail,
   count |-> q.count - 1,
   last  |-> pqc_tx_next(q).node]

\* Mutant: dropping forgets to count.
clear_entries_uncounted(q, S) ==
  [q EXCEPT !.slot = [i \in TxSlot |-> IF i \in S THEN NoPacket ELSE @[i]]]

\* pqc_tx_clear_entry for every entry in S.
clear_entries(q, S) ==
  [slot  |-> [i \in TxSlot |-> IF i \in S THEN NoPacket ELSE q.slot[i]],
   tail  |-> q.tail,
   count |-> q.count - Cardinality(S),
   last  |-> q.last]

pqc_tx_drop(q, n, kind, id) ==
  clear_entries(q, {i \in active(q) : /\ q.slot[i].node = n
                                      /\ q.slot[i].kind = kind
                                      /\ q.slot[i].msg_id = id})

pqc_tx_drop_node(q, n) ==
  clear_entries(q, {i \in active(q) : q.slot[i].node = n})
=============================================================================
