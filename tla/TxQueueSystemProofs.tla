------------------------- MODULE TxQueueSystemProofs -------------------------
(***************************************************************************)
(* The transmit queue for every size, any number of nodes and messages of  *)
(* any length: it counts right, queueing a message at once is queueing its *)
(* packets one by one, and the array implements the bag of TxBag.          *)
(***************************************************************************)
EXTENDS TxQueueSystem, TxQueueProofs

Packets == [kind: Kinds, node: Nodes, msg_id: MsgIds, frag: Nat]

\* No packet looks like an entry that is not in use.
LEMMA PacketsAreNotEmptyEntries == NoPacket \notin Packets
BY SystemAssumption DEF NoPacket, Packets

\* A message is a sequence of packets.
LEMMA MessagesArePackets ==
  ASSUME NEW ps \in Messages
  PROVE  ps \in Seq(Packets)
<1>1. PICK n \in Nodes, kind \in Kinds, id \in MsgIds, k \in 1 .. MaxFrags :
        ps = Message(n, kind, id, k)
  BY DEF Messages
<1>2. k \in Nat /\ \A i \in 1 .. k : Fragment(n, kind, id, i - 1) \in Packets
  BY SystemAssumption DEF Fragment, Packets
<1> QED  BY <1>1, <1>2 DEF Message

\* The inductive invariant: the queue is well-formed and its counter exact.
IInv == q \in Queues(Packets, Nodes) /\ CountIsExact(q)

\* After any sequence of sends, drops and ticks the queue is well-formed and tx_count
\* is the number of entries in use.
THEOREM Invariant == Spec => []IInv
<1>1. Init => IInv
  BY InitQueue, InitCounts DEF Init, IInv
<1>2. IInv /\ [Next]_q => IInv'
  <2> SUFFICES ASSUME IInv, [Next]_q PROVE IInv'
    OBVIOUS
  <2> USE DEF IInv
  <2>1. ASSUME NEW ps \in Messages, Send(ps) PROVE IInv'
    <3>1. q' = pqc_udp_send_all(q, ps) /\ Len(ps) <= pqc_tx_free_slots(q)
      <4>1. Len(ps) \in Nat /\ pqc_tx_free_slots(q) \in Int
        BY MessagesArePackets, TxQueueAssumption DEF pqc_tx_free_slots, Queues
      <4> QED  BY <2>1, <4>1 DEF Send
    <3>2. ps \in Seq(Packets)
      BY MessagesArePackets
    <3>3. pqc_udp_send_all(q, ps) \in Queues(Packets, Nodes)
      BY <3>2, SendAllQueue
    <3>4. CountIsExact(pqc_udp_send_all(q, ps))
      BY <3>1, <3>2, PacketsAreNotEmptyEntries, SendAllCounts
    <3> QED  BY <3>1, <3>3, <3>4 DEF CountIsExact, active
  <2>2. CASE Process
    <3>1. q' = pqc_tx_process(q) /\ active(q) # {}
      BY <2>2 DEF Process
    <3>2. pqc_tx_process(q) \in Queues(Packets, Nodes)
      <4>1. \A p \in Packets : p.node \in Nodes
        BY DEF Packets
      <4> QED  BY <3>1, <4>1, ProcessQueue
    <3>3. CountIsExact(pqc_tx_process(q))
      BY <3>1, ProcessCounts
    <3> QED  BY <3>1, <3>2, <3>3 DEF CountIsExact, active
  <2>3. ASSUME NEW n \in Nodes, NEW kind \in Kinds, NEW id \in MsgIds, Drop(n, kind, id)
        PROVE  IInv'
    <3>1. q' = pqc_tx_drop(q, n, kind, id)
      BY <2>3 DEF Drop
    <3>2. pqc_tx_drop(q, n, kind, id) \in Queues(Packets, Nodes)
      BY DropQueue
    <3>3. CountIsExact(pqc_tx_drop(q, n, kind, id))
      BY DropCounts
    <3> QED  BY <3>1, <3>2, <3>3 DEF CountIsExact, active
  <2>4. ASSUME NEW n \in Nodes, DropNode(n) PROVE IInv'
    <3>1. q' = pqc_tx_drop_node(q, n)
      BY <2>4 DEF DropNode
    <3>2. pqc_tx_drop_node(q, n) \in Queues(Packets, Nodes)
      BY DropNodeQueue
    <3>3. CountIsExact(pqc_tx_drop_node(q, n))
      BY DropCounts
    <3> QED  BY <3>1, <3>2, <3>3 DEF CountIsExact, active
  <2>5. CASE UNCHANGED q
    BY <2>5 DEF CountIsExact, active
  <2> QED  BY <2>1, <2>2, <2>3, <2>4, <2>5 DEF Next
<1> QED  BY <1>1, <1>2, PTL DEF Spec

\* tx_count is the number of entries in use after any sequence of sends, drops
\* and ticks: pqc_tx_free_slots never promises room that is not there, and
\* pqc_tx_has_pending never keeps a retry waiting for an empty queue.
THEOREM CountIsCorrect == Spec => []CountExact
<1>1. IInv => CountExact
  BY DEF IInv, CountExact
<1> QED  BY <1>1, Invariant, PTL

-----------------------------------------------------------------------------
(* A message at once is its packets one by one.                            *)

\* Queueing one packet more at once is queueing it after the others.
LEMMA OneMore ==
  ASSUME NEW P, NoPacket \notin P, NEW N, NEW r \in Queues(P, N), CountIsExact(r),
         NEW ps \in Seq(P), NEW p \in P, Len(ps) < pqc_tx_free_slots(r)
  PROVE  pqc_udp_send_all(r, Append(ps, p)) = send_one(pqc_udp_send_all(r, ps), p)
<1> DEFINE M     == PQC_TX_QUEUE_SIZE
           k     == Len(ps)
           qs    == Append(ps, p)
           d(i)  == distance(r.tail, i)
           fb(i) == free_before(r, i)
           all   == pqc_udp_send_all(r, ps)
           more  == pqc_udp_send_all(r, qs)
           one   == send_one(all, p)
<1>1. /\ k \in Nat /\ M \in Nat \ {0} /\ r.tail \in TxSlot /\ TxSlot \subseteq Nat
      /\ qs \in Seq(P) /\ Len(qs) = k + 1 /\ qs[k + 1] = p /\ \A i \in 1 .. k : qs[i] = ps[i]
      /\ r.count \in Int
  BY TxQueueAssumption DEF Queues, TxSlot
<1>2. PICK x \in TxSlot \ active(r) :
        /\ fb(x) = k /\ x \notin active(all)
        /\ \E e \in TxSlot : /\ (all.tail + e) % M = x
                             /\ \A f \in 0 .. e - 1 : (all.tail + f) % M \in active(all)
  BY NextFree
<1>3. PICK e \in TxSlot : /\ (all.tail + e) % M = x
                          /\ \A f \in 0 .. e - 1 : (all.tail + f) % M \in active(all)
  BY <1>2
<1>4. one = [slot |-> [all.slot EXCEPT ![x] = p], tail |-> (x + 1) % M,
             count |-> all.count + 1, last |-> all.last]
  <2> DEFINE free(g) == /\ (all.tail + g) % M \notin active(all)
                        /\ \A f \in 0 .. g - 1 : (all.tail + f) % M \in active(all)
             g       == CHOOSE g \in 0 .. M - 1 : free(g)
  <2>1. e \in 0 .. M - 1 /\ free(e)
    BY <1>2, <1>3 DEF TxSlot
  <2>2. g \in 0 .. M - 1 /\ free(g)
    <3> HIDE DEF free
    <3> QED  BY <2>1
  <2>3. g = e
    <3> HIDE DEF g, all
    <3>1. ~(g < e)
      BY <1>1, <2>1, <2>2
    <3>2. ~(e < g)
      BY <1>1, <2>1, <2>2
    <3> QED  BY <1>1, <2>1, <2>2, <3>1, <3>2
  <2>4. one = [slot |-> [all.slot EXCEPT ![(all.tail + g) % M] = p],
               tail |-> (((all.tail + g) % M) + 1) % M, count |-> all.count + 1, last |-> all.last]
    <3> HIDE DEF all
    <3> QED  BY DEF send_one
  <2> HIDE DEF g, all, one
  <2> QED  BY <1>3, <2>3, <2>4
<1>5. \A i \in TxSlot : fb(i) \in Nat
  BY SearchOrder
<1>6. Taken(r, k + 1) = Taken(r, k) \cup {x} /\ x \notin Taken(r, k)
  <2>1. ASSUME NEW i \in TxSlot \ active(r), i # x PROVE fb(i) # k
    <3>1. d(i) \in Nat /\ d(x) \in Nat /\ d(i) # d(x)
      BY <1>1, <2>1, DistanceInjective
    <3>2. (d(i) < d(x) => fb(i) < fb(x)) /\ (d(x) < d(i) => fb(x) < fb(i))
      BY SearchOrder
    <3> HIDE DEF d, fb, k
    <3> QED  BY <1>1, <1>2, <1>5, <3>1, <3>2
  <2>2. ASSUME NEW i \in TxSlot \ active(r) PROVE fb(i) < k + 1 <=> fb(i) < k \/ i = x
    <3> HIDE DEF fb, k
    <3> QED  BY <1>1, <1>2, <1>5, <2>1
  <2>3. x \notin Taken(r, k)
    BY <1>1, <1>2 DEF Taken
  <2> QED  BY <1>2, <2>2, <2>3 DEF Taken
<1>7. more.slot = [all.slot EXCEPT ![x] = p]
  <2>1. \A i \in TxSlot :
          more.slot[i] = IF i \in Taken(r, k + 1) THEN qs[fb(i) + 1] ELSE r.slot[i]
    <3>1. \A i \in TxSlot :
            more.slot[i] = IF i \in Taken(r, Len(qs)) THEN qs[fb(i) + 1] ELSE r.slot[i]
      <4> HIDE DEF qs
      <4> QED  BY <1>1, SentEntries
    <3> QED  BY <1>1, <3>1
  <2>2. /\ \A i \in TxSlot : all.slot[i] = IF i \in Taken(r, k) THEN ps[fb(i) + 1] ELSE r.slot[i]
        /\ \A i \in Taken(r, k) : fb(i) + 1 \in 1 .. k
    BY SentEntries
  <2>3. more.slot = [i \in TxSlot |-> more.slot[i]] /\ all.slot = [i \in TxSlot |-> all.slot[i]]
    BY DEF pqc_udp_send_all
  <2>4. ASSUME NEW i \in TxSlot PROVE more.slot[i] = IF i = x THEN p ELSE all.slot[i]
    <3> HIDE DEF more, all, qs, fb, k
    <3>1. CASE i = x
      BY <1>1, <1>2, <1>6, <2>1, <3>1
    <3>2. CASE i # x /\ i \in Taken(r, k)
      BY <1>1, <1>6, <2>1, <2>2, <3>2
    <3>3. CASE i # x /\ i \notin Taken(r, k)
      BY <1>6, <2>1, <2>2, <3>3
    <3> QED  BY <3>1, <3>2, <3>3
  <2> HIDE DEF more, all
  <2> QED  BY <2>3, <2>4
<1>8. more.tail = (x + 1) % M
  <2>1. Cardinality({i \in TxSlot : free_before(r, i) < free_before(r, x) + 1}) = d(x) + 1
    BY PassedSize
  <2>2. more.tail = (r.tail + (d(x) + 1)) % M
    BY <1>1, <1>2, <2>1 DEF pqc_udp_send_all
  <2>3. d(x) \in TxSlot /\ (r.tail + d(x)) % M = x
    BY <1>1, DistanceBack
  <2>4. (((r.tail + d(x)) % M) + 1) % M = (r.tail + (d(x) + 1)) % M
    <3> DEFINE a == d(x)
    <3>1. a \in TxSlot
      BY <2>3
    <3> HIDE DEF a
    <3>2. a + 1 <= M /\ 1 \in Nat
      BY <1>1, <3>1 DEF TxSlot
    <3>3. (((r.tail + a) % M) + 1) % M = (r.tail + (a + 1)) % M
      BY <1>1, <3>1, <3>2, TwoMoves, Zenon
    <3> QED  BY <3>3 DEF a
  <2> HIDE DEF more, d
  <2> QED  BY <2>2, <2>3, <2>4
<1>9. more.count = all.count + 1 /\ more.last = all.last
  <2>1. /\ more.count = r.count + Len(qs) /\ all.count = r.count + k
        /\ more.last = r.last /\ all.last = r.last
    BY DEF pqc_udp_send_all
  <2> DEFINE a == all.count
             b == more.count
             l == Len(qs)
  <2>2. b = r.count + l /\ a = r.count + k /\ l = k + 1
    BY <1>1, <2>1
  <2> HIDE DEF a, b, k, l
  <2>3. b = a + 1
    BY <1>1, <2>2
  <2> HIDE DEF more, all
  <2> QED  BY <2>1, <2>3 DEF a, b
<1>10. more = [slot |-> more.slot, tail |-> more.tail, count |-> more.count, last |-> more.last]
  BY DEF pqc_udp_send_all
<1> HIDE DEF more, all, one
<1>11. more = one
  BY <1>4, <1>7, <1>8, <1>9, <1>10
<1> QED  BY <1>11 DEF more, one, all

\* A message that is queued at once, as in Handshake, lands where fragment_tx puts its
\* fragments one after the other, for every queue the calls can reach, and leaves the
\* same tail.
THEOREM MessagesGoOneByOne == Spec => []BatchIsOneByOne
<1>1. IInv => BatchIsOneByOne
  <2> SUFFICES ASSUME IInv PROVE BatchIsOneByOne
    OBVIOUS
  <2>1. q \in Queues(Packets, Nodes) /\ CountIsExact(q) /\ NoPacket \notin Packets
    BY PacketsAreNotEmptyEntries DEF IInv
  <2>2. pqc_udp_send_all(q, << >>) = q
    BY <2>1, SendNothing
  <2>3. ASSUME NEW ps \in Messages, Len(ps) <= pqc_tx_free_slots(q), NEW k \in 1 .. Len(ps)
        PROVE  pqc_udp_send_all(q, SubSeq(ps, 1, k))
                 = send_one(pqc_udp_send_all(q, SubSeq(ps, 1, k - 1)), ps[k])
    <3> DEFINE fs == SubSeq(ps, 1, k - 1)
    <3>1. ps \in Seq(Packets) /\ Len(ps) \in Nat /\ k \in Nat /\ k <= Len(ps) /\ 1 <= k
      BY MessagesArePackets
    <3>2. fs \in Seq(Packets) /\ Len(fs) = k - 1 /\ ps[k] \in Packets
      BY <3>1
    <3>3. SubSeq(ps, 1, k) = Append(fs, ps[k])
      BY <3>1
    <3>4. Len(fs) < pqc_tx_free_slots(q)
      <4>1. pqc_tx_free_slots(q) \in Int
        BY <2>1, TxQueueAssumption DEF pqc_tx_free_slots, Queues
      <4> HIDE DEF fs
      <4> QED  BY <2>3, <3>1, <3>2, <4>1
    <3> HIDE DEF fs
    <3>5. pqc_udp_send_all(q, Append(fs, ps[k])) = send_one(pqc_udp_send_all(q, fs), ps[k])
      BY <2>1, <3>2, <3>4, OneMore
    <3> QED  BY <3>3, <3>5 DEF fs
  <2> QED  BY <2>2, <2>3 DEF BatchIsOneByOne
<1> QED  BY <1>1, Invariant, PTL

-----------------------------------------------------------------------------
(* The array implements the bag.                                           *)

\* The entries that hold packet p, and the bag the refinement mapping makes of a queue.
EntriesOf(r, p) == {i \in active(r) : r.slot[i] = p}
BagOf(r)        == [p \in queued(r) |-> Cardinality(EntriesOf(r, p))]

\* Cardinality means the same in TxBag.
LEMMA SameCount == \A S : Bag!Cardinality(S) = Cardinality(S)
BY Zenon DEF Bag!Cardinality, Cardinality

\* Entries can be counted off one by one.
LEMMA CountedOff ==
  ASSUME NEW A \in SUBSET TxSlot
  PROVE  [j \in A |-> Cardinality({l \in A : l <= j})] \in Bijection(A, 1 .. Cardinality(A))
<1> DEFINE B(j) == {l \in A : l <= j}
           rank == [j \in A |-> Cardinality({l \in A : l <= j})]
           c    == Cardinality(A)
<1>1. IsFiniteSet(A) /\ c \in Nat /\ \A l \in A : l \in Nat
  BY EntriesFinite, TxQueueAssumption DEF TxSlot
<1>2. ASSUME NEW j \in A
      PROVE  rank[j] = Cardinality(B(j)) /\ rank[j] \in 1 .. c /\ IsFiniteSet(B(j))
  <2>1. B(j) \in SUBSET A /\ B(j) \in SUBSET TxSlot /\ j \in B(j)
    <3>1. j <= j
      BY <1>1
    <3> QED  BY <3>1
  <2>2. rank[j] = Cardinality(B(j))
    OBVIOUS
  <2> HIDE DEF B, rank
  <2>3. IsFiniteSet(B(j)) /\ Cardinality(B(j)) \in Nat
    BY <2>1, EntriesFinite
  <2>4. Cardinality(B(j)) <= c
    BY <1>1, <2>1, FS_Subset
  <2>5. Cardinality(B(j)) # 0
    BY <2>1, <2>3, FS_EmptySet
  <2> HIDE DEF c
  <2> QED  BY <1>1, <2>2, <2>3, <2>4, <2>5
<1>3. ASSUME NEW i \in A, NEW j \in A, i < j PROVE rank[i] # rank[j]
  <2>1. B(i) \in SUBSET B(j) /\ B(i) # B(j)
    <3>1. \A l \in A : l <= i => l <= j
      BY <1>1, <1>3
    <3>2. j <= j /\ ~(j <= i)
      BY <1>1, <1>3
    <3>3. j \in B(j) /\ j \notin B(i)
      BY <3>2
    <3> QED  BY <3>1, <3>3
  <2>2. IsFiniteSet(B(j)) /\ rank[i] = Cardinality(B(i)) /\ rank[j] = Cardinality(B(j))
    BY <1>2
  <2> HIDE DEF B, rank
  <2> QED  BY <2>1, <2>2, FS_Subset
<1>4. \A i, j \in A : rank[i] = rank[j] => i = j
  <2> SUFFICES ASSUME NEW i \in A, NEW j \in A, i # j PROVE rank[i] # rank[j]
    OBVIOUS
  <2>1. i < j \/ j < i
    BY <1>1
  <2> HIDE DEF rank
  <2> QED  BY <1>3, <2>1
<1>5. rank \in [A -> 1 .. c]
  <2>1. \A j \in A : rank[j] \in 1 .. c
    <3> HIDE DEF rank, c, B
    <3> QED  BY <1>2
  <2> HIDE DEF c
  <2> QED  BY <2>1
<1> HIDE DEF rank
<1>6. rank \in Injection(A, 1 .. c)
  BY <1>4, <1>5 DEF Injection, IsInjective
<1>7. IsFiniteSet(1 .. c) /\ Cardinality(1 .. c) = c
  <2>1. 1 \in Int /\ c \in Int
    BY <1>1
  <2>2. Cardinality(1 .. c) = IF 1 > c THEN 0 ELSE c - 1 + 1
    BY <2>1, FS_Interval
  <2> HIDE DEF c
  <2> QED  BY <1>1, <2>1, <2>2, FS_Interval
<1>8. rank \in Surjection(A, 1 .. c)
  BY <1>1, <1>6, <1>7, FS_Injection
<1>9. rank \in Bijection(A, 1 .. c)
  BY <1>6, <1>8 DEF Bijection
<1> QED  BY <1>9 DEF rank

\* The bag holds as many packets as the array has entries in use.
LEMMA CopiesCounted ==
  ASSUME NEW P, NEW N, NEW r \in Queues(P, N)
  PROVE  Cardinality(Bag!Copies(BagOf(r))) = Cardinality(active(r))
<1> DEFINE A(p) == EntriesOf(r, p)
           rk(p) == [j \in A(p) |-> Cardinality({l \in A(p) : l <= j})]
           C    == Bag!Copies(BagOf(r))
           h    == [i \in active(r) |-> <<r.slot[i], rk(r.slot[i])[i]>>]
<1>1. \A c : c \in C <=> \E p \in queued(r) : \E k \in 1 .. Cardinality(A(p)) : c = <<p, k>>
  <2>1. C = UNION {{p} \X (1 .. BagOf(r)[p]) : p \in queued(r)}
    BY Zenon DEF Bag!Copies, Bag!BagToSet, BagOf
  <2>2. \A p \in queued(r) : BagOf(r)[p] = Cardinality(A(p))
    BY DEF BagOf
  <2> HIDE DEF A, C
  <2> QED  BY <2>1, <2>2
<1>2. \A p : rk(p) \in Bijection(A(p), 1 .. Cardinality(A(p)))
  <2> SUFFICES ASSUME NEW p PROVE rk(p) \in Bijection(A(p), 1 .. Cardinality(A(p)))
    OBVIOUS
  <2>1. A(p) \in SUBSET TxSlot
    BY DEF EntriesOf, active
  <2> HIDE DEF A
  <2> QED  BY <2>1, CountedOff
<1>3. \A i \in active(r) : r.slot[i] \in queued(r) /\ i \in A(r.slot[i])
  BY DEF queued, EntriesOf
<1>4. \A p, i : i \in A(p) => i \in active(r) /\ r.slot[i] = p
  BY DEF EntriesOf
<1> HIDE DEF A, C, rk
<1>5. ASSUME NEW p
      PROVE  /\ \A i \in A(p) : rk(p)[i] \in 1 .. Cardinality(A(p))
             /\ \A i, j \in A(p) : rk(p)[i] = rk(p)[j] => i = j
             /\ \A k \in 1 .. Cardinality(A(p)) : \E i \in A(p) : rk(p)[i] = k
  BY <1>2 DEF Bijection, Injection, IsInjective, Surjection
<1>6. h \in [active(r) -> C]
  <2> SUFFICES ASSUME NEW i \in active(r) PROVE <<r.slot[i], rk(r.slot[i])[i]>> \in C
    OBVIOUS
  <2> QED  BY <1>1, <1>3, <1>5
<1>7. ASSUME NEW i \in active(r), NEW j \in active(r), h[i] = h[j] PROVE i = j
  <2>1. r.slot[i] = r.slot[j] /\ rk(r.slot[i])[i] = rk(r.slot[j])[j]
    BY <1>7
  <2> QED  BY <1>3, <1>5, <2>1
<1>8. ASSUME NEW c \in C PROVE \E i \in active(r) : h[i] = c
  <2>1. PICK p \in queued(r) : \E k \in 1 .. Cardinality(A(p)) : c = <<p, k>>
    BY <1>1
  <2>2. PICK k \in 1 .. Cardinality(A(p)) : c = <<p, k>>
    BY <2>1
  <2>3. PICK i \in A(p) : rk(p)[i] = k
    BY <1>5
  <2>4. i \in active(r) /\ h[i] = c
    BY <1>4, <2>2, <2>3
  <2> QED  BY <2>4
<1> HIDE DEF h
<1>9. h \in Surjection(active(r), C) /\ h \in Injection(active(r), C)
  BY <1>6, <1>7, <1>8 DEF Injection, IsInjective, Surjection
<1>10. IsFiniteSet(active(r))
  <2>1. active(r) \in SUBSET TxSlot
    BY DEF active
  <2> QED  BY <2>1, EntriesFinite
<1>11. Cardinality(C) = Cardinality(active(r))
  BY <1>9, <1>10, FS_Surjection
<1> QED  BY <1>11 DEF C

\* What one packet contributes to the bag.
LEMMA EntriesCounted ==
  ASSUME NEW r, NEW p
  PROVE  /\ EntriesOf(r, p) \in SUBSET TxSlot /\ IsFiniteSet(EntriesOf(r, p))
         /\ Cardinality(EntriesOf(r, p)) \in Nat
         /\ p \in queued(r) <=> EntriesOf(r, p) # {}
         /\ p \notin queued(r) => Cardinality(EntriesOf(r, p)) = 0
<1>1. EntriesOf(r, p) \in SUBSET TxSlot
  BY DEF EntriesOf, active
<1>2. p \in queued(r) <=> EntriesOf(r, p) # {}
  BY DEF EntriesOf, queued
<1> QED  BY <1>1, <1>2, EntriesFinite, FS_EmptySet

\* Queueing a message adds its packets to the bag.
LEMMA BagAdds ==
  ASSUME NEW P, NoPacket \notin P, NEW N, NEW r \in Queues(P, N), CountIsExact(r),
         NEW ps \in Seq(P), Len(ps) <= pqc_tx_free_slots(r)
  PROVE  BagOf(pqc_udp_send_all(r, ps)) = Bag!(+)(BagOf(r), Bag!PacketsOf(ps))
<1> DEFINE s     == pqc_udp_send_all(r, ps)
           k     == Len(ps)
           T     == Taken(r, k)
           fb(i) == free_before(r, i)
           new(p) == {i \in T : ps[fb(i) + 1] = p}
           at(p) == {j \in DOMAIN ps : ps[j] = p}
           R     == {ps[j] : j \in DOMAIN ps}
<1>1. k \in Nat /\ DOMAIN ps = 1 .. k /\ \A j \in 1 .. k : ps[j] \in P
  OBVIOUS
<1>2. /\ active(s) = active(r) \cup T
      /\ \A i \in TxSlot : s.slot[i] = IF i \in T THEN ps[fb(i) + 1] ELSE r.slot[i]
      /\ \A i \in T : fb(i) + 1 \in 1 .. k
  BY SentEntries
<1>3. T \in SUBSET TxSlot /\ T \cap active(r) = {} /\ active(r) \in SUBSET TxSlot
  BY DEF Taken, active
<1>4. /\ \A i, j \in T : fb(i) = fb(j) => i = j
      /\ \A x \in 0 .. k - 1 : \E i \in T : fb(i) = x
  <2> DEFINE part == [i \in T |-> free_before(r, i)]
  <2>1. part \in Bijection(T, 0 .. k - 1)
    BY <1>1, TakenRank
  <2>2. \A i \in T : part[i] = fb(i)
    OBVIOUS
  <2> HIDE DEF part, T, k, fb
  <2> QED  BY <2>1, <2>2 DEF Bijection, Injection, IsInjective, Surjection
<1>5. \A i \in T : fb(i) \in Nat
  <2>1. \A i \in TxSlot : fb(i) \in Nat
    BY SearchOrder
  <2> HIDE DEF fb, T
  <2> QED  BY <1>3, <2>1
<1>6. ASSUME NEW p
      PROVE  /\ EntriesOf(s, p) = EntriesOf(r, p) \cup new(p)
             /\ EntriesOf(r, p) \cap new(p) = {}
  <2> HIDE DEF s, T, fb
  <2>1. ASSUME NEW i PROVE i \in EntriesOf(s, p) <=> i \in EntriesOf(r, p) \/ i \in new(p)
    BY <1>2, <1>3 DEF EntriesOf
  <2>2. EntriesOf(r, p) \cap new(p) = {}
    BY <1>3 DEF EntriesOf
  <2> HIDE DEF new
  <2> QED  BY <2>1, <2>2
<1>7. ASSUME NEW p PROVE IsFiniteSet(new(p)) /\ Cardinality(new(p)) = Cardinality(at(p))
  <2> DEFINE f == [i \in new(p) |-> fb(i) + 1]
  <2>1. new(p) \in SUBSET TxSlot
    BY <1>3
  <2>2. IsFiniteSet(new(p))
    <3> HIDE DEF new
    <3> QED  BY <2>1, EntriesFinite
  <2> HIDE DEF T, fb, k
  <2>3. \A i \in new(p) : i \in T /\ fb(i) + 1 \in at(p)
    BY <1>1, <1>2
  <2>4. f \in [new(p) -> at(p)]
    <3> HIDE DEF new, at
    <3> QED  BY <2>3
  <2>5. ASSUME NEW i \in new(p), NEW j \in new(p), f[i] = f[j] PROVE i = j
    <3>1. i \in T /\ j \in T /\ fb(i) + 1 = fb(j) + 1
      BY <2>5
    <3>2. fb(i) = fb(j)
      BY <1>5, <3>1
    <3> QED  BY <1>4, <3>1, <3>2
  <2>6. ASSUME NEW j \in at(p) PROVE \E i \in new(p) : f[i] = j
    <3>1. j \in 1 .. k /\ ps[j] = p
      BY <1>1
    <3>2. j - 1 \in 0 .. k - 1 /\ (j - 1) + 1 = j
      BY <1>1, <3>1
    <3>3. PICK i \in T : fb(i) = j - 1
      BY <1>4, <3>2
    <3>4. i \in new(p) /\ f[i] = j
      BY <3>1, <3>2, <3>3
    <3> QED  BY <3>4
  <2> HIDE DEF f, new, at
  <2>7. f \in Surjection(new(p), at(p)) /\ f \in Injection(new(p), at(p))
    BY <2>4, <2>5, <2>6 DEF Injection, IsInjective, Surjection
  <2> QED  BY <2>2, <2>7, FS_Surjection
<1>8. ASSUME NEW p
      PROVE  /\ Cardinality(EntriesOf(s, p)) = Cardinality(EntriesOf(r, p)) + Cardinality(at(p))
             /\ Cardinality(at(p)) \in Nat /\ (p \notin R => Cardinality(at(p)) = 0)
             /\ p \in queued(s) <=> p \in queued(r) \/ p \in R
  <2>1. IsFiniteSet(EntriesOf(r, p)) /\ Cardinality(EntriesOf(r, p)) \in Nat
    BY EntriesCounted
  <2>2. /\ IsFiniteSet(new(p)) /\ Cardinality(new(p)) \in Nat
        /\ Cardinality(new(p)) = Cardinality(at(p))
    <3> HIDE DEF new, at
    <3> QED  BY <1>7, FS_CardinalityType
  <2>3. Cardinality(EntriesOf(s, p)) = Cardinality(EntriesOf(r, p)) + Cardinality(new(p))
    <3>1. EntriesOf(s, p) = EntriesOf(r, p) \cup new(p) /\ EntriesOf(r, p) \cap new(p) = {}
      BY <1>6
    <3> HIDE DEF new, s
    <3>2. Cardinality(EntriesOf(r, p) \cup new(p))
            = Cardinality(EntriesOf(r, p)) + Cardinality(new(p))
              - Cardinality(EntriesOf(r, p) \cap new(p))
      BY <2>1, <2>2, FS_Union
    <3>3. Cardinality(EntriesOf(r, p) \cap new(p)) = 0
      BY <3>1, FS_EmptySet
    <3> QED  BY <2>1, <2>2, <3>1, <3>2, <3>3
  <2>4. p \notin R => at(p) = {}
    OBVIOUS
  <2>5. p \notin R => Cardinality(at(p)) = 0
    BY <2>4, FS_EmptySet
  <2>6. p \in R <=> new(p) # {}
    <3>1. p \in R => \E i \in T : ps[fb(i) + 1] = p
      <4> SUFFICES ASSUME NEW j \in 1 .. k, ps[j] = p PROVE \E i \in T : ps[fb(i) + 1] = p
        BY <1>1
      <4> HIDE DEF k, T, fb
      <4>1. j - 1 \in 0 .. k - 1 /\ (j - 1) + 1 = j
        BY <1>1
      <4>2. PICK i \in T : fb(i) = j - 1
        BY <1>4, <4>1
      <4> QED  BY <4>1, <4>2
    <3>2. \A i \in T : ps[fb(i) + 1] \in R
      <4> HIDE DEF k, T, fb
      <4> QED  BY <1>1, <1>2
    <3> HIDE DEF T, fb, R
    <3> QED  BY <3>1, <3>2
  <2>7. p \in queued(s) <=> EntriesOf(s, p) # {}
    BY EntriesCounted
  <2>8. p \in queued(r) <=> EntriesOf(r, p) # {}
    BY EntriesCounted
  <2>9. EntriesOf(s, p) = EntriesOf(r, p) \cup new(p)
    BY <1>6
  <2> HIDE DEF new, at, s, R
  <2> QED  BY <2>2, <2>3, <2>5, <2>6, <2>7, <2>8, <2>9
<1> HIDE DEF at, R, s
<1>9. Bag!PacketsOf(ps) = [p \in R |-> Cardinality(at(p))]
  BY SameCount, Zenon DEF Bag!PacketsOf, R, at
<1>10. Bag!(+)(BagOf(r), Bag!PacketsOf(ps))
         = [p \in queued(r) \cup R |-> (IF p \in queued(r) THEN BagOf(r)[p] ELSE 0)
                                       + (IF p \in R THEN Bag!PacketsOf(ps)[p] ELSE 0)]
  BY <1>9, Zenon DEF Bag!(+), BagOf
<1>11. queued(s) = queued(r) \cup R
  BY <1>8
<1>12. ASSUME NEW p \in queued(s)
       PROVE  BagOf(s)[p] = (IF p \in queued(r) THEN BagOf(r)[p] ELSE 0)
                            + (IF p \in R THEN Bag!PacketsOf(ps)[p] ELSE 0)
  <2>1. BagOf(s)[p] = Cardinality(EntriesOf(s, p))
    BY DEF BagOf
  <2>2. p \in queued(r) => BagOf(r)[p] = Cardinality(EntriesOf(r, p))
    BY DEF BagOf
  <2>3. p \in R => Bag!PacketsOf(ps)[p] = Cardinality(at(p))
    BY <1>9
  <2>4. /\ Cardinality(EntriesOf(r, p)) \in Nat
        /\ p \notin queued(r) => Cardinality(EntriesOf(r, p)) = 0
    BY EntriesCounted
  <2> QED  BY <1>8, <2>1, <2>2, <2>3, <2>4
<1>13. BagOf(s) = [p \in queued(s) |-> BagOf(s)[p]]
  BY DEF BagOf
<1>14. BagOf(s) = Bag!(+)(BagOf(r), Bag!PacketsOf(ps))
  BY <1>10, <1>11, <1>12, <1>13
<1> QED  BY <1>14 DEF s

\* Sending a packet takes one copy of it out of the bag.
LEMMA BagTakes ==
  ASSUME NEW P, NEW N, NEW r \in Queues(P, N), active(r) # {}
  PROVE  BagOf(pqc_tx_process(r)) = Bag!(-)(BagOf(r), Bag!SetToBag({pqc_tx_next(r)}))
<1> DEFINE i == pqc_tx_select_slot(r)
           s == pqc_tx_process(r)
           x == pqc_tx_next(r)
           b == [p \in queued(r) |-> IF p = x THEN BagOf(r)[p] - 1 ELSE BagOf(r)[p]]
<1>1. i \in active(r) /\ i \in TxSlot /\ x = r.slot[i]
  BY SelectSlot DEF active, pqc_tx_next
<1>2. s.slot = [r.slot EXCEPT ![i] = NoPacket]
  BY DEF pqc_tx_process
<1> HIDE DEF i, s, x
<1>3. active(s) = active(r) \ {i} /\ \A j \in active(s) : s.slot[j] = r.slot[j]
  BY <1>1, <1>2 DEF active, Queues
<1>4. x \in queued(r)
  BY <1>1 DEF queued
<1>5. ASSUME NEW p, p # x PROVE EntriesOf(s, p) = EntriesOf(r, p)
  BY <1>1, <1>3, <1>5 DEF EntriesOf
<1>6. Cardinality(EntriesOf(s, x)) = Cardinality(EntriesOf(r, x)) - 1
  <2>1. EntriesOf(s, x) = EntriesOf(r, x) \ {i} /\ i \in EntriesOf(r, x)
    BY <1>1, <1>3 DEF EntriesOf
  <2>2. IsFiniteSet(EntriesOf(r, x))
    BY EntriesCounted
  <2> QED  BY <2>1, <2>2, FS_RemoveElement
<1>7. ASSUME NEW p
      PROVE  /\ Cardinality(EntriesOf(r, p)) \in Nat /\ Cardinality(EntriesOf(s, p)) \in Nat
             /\ p \in queued(r) <=> Cardinality(EntriesOf(r, p)) > 0
             /\ p \in queued(s) <=> Cardinality(EntriesOf(s, p)) > 0
  <2>1. /\ Cardinality(EntriesOf(r, p)) \in Nat /\ Cardinality(EntriesOf(s, p)) \in Nat
        /\ IsFiniteSet(EntriesOf(r, p)) /\ IsFiniteSet(EntriesOf(s, p))
        /\ p \in queued(r) <=> EntriesOf(r, p) # {}
        /\ p \in queued(s) <=> EntriesOf(s, p) # {}
    BY EntriesCounted
  <2>2. /\ EntriesOf(r, p) = {} <=> Cardinality(EntriesOf(r, p)) = 0
        /\ EntriesOf(s, p) = {} <=> Cardinality(EntriesOf(s, p)) = 0
    BY <2>1, FS_EmptySet
  <2> QED  BY <2>1, <2>2
<1>8. Bag!(-)(BagOf(r), Bag!SetToBag({x})) = [p \in {d \in queued(r) : b[d] > 0} |-> b[p]]
  <2>1. Bag!SetToBag({x}) = [e \in {x} |-> 1]
    BY Zenon DEF Bag!SetToBag
  <2>2. DOMAIN BagOf(r) = queued(r)
    BY DEF BagOf
  <2>3. [e \in DOMAIN BagOf(r) |-> IF e \in DOMAIN Bag!SetToBag({x})
                                   THEN BagOf(r)[e] - Bag!SetToBag({x})[e]
                                   ELSE BagOf(r)[e]] = b
    BY <2>1, <2>2
  <2>4. DOMAIN b = queued(r)
    OBVIOUS
  <2> HIDE DEF b
  <2> QED  BY <2>3, <2>4, Zenon DEF Bag!(-)
<1>9. ASSUME NEW p \in queued(r) PROVE b[p] = Cardinality(EntriesOf(s, p))
  <2>1. BagOf(r)[p] = Cardinality(EntriesOf(r, p))
    BY DEF BagOf
  <2> QED  BY <1>5, <1>6, <2>1
<1>10. queued(s) \subseteq queued(r)
  <2>1. ASSUME NEW p \in queued(s) PROVE p \in queued(r)
    <3>1. CASE p = x
      BY <1>4, <3>1
    <3>2. CASE p # x
      BY <1>5, <1>7, <3>2
    <3> QED  BY <3>1, <3>2
  <2> QED  BY <2>1
<1> HIDE DEF b
<1>11. {d \in queued(r) : b[d] > 0} = queued(s)
  BY <1>7, <1>9, <1>10
<1>12. BagOf(s) = [p \in queued(s) |-> Cardinality(EntriesOf(s, p))]
  BY DEF BagOf
<1>13. BagOf(s) = Bag!(-)(BagOf(r), Bag!SetToBag({x}))
  BY <1>8, <1>9, <1>10, <1>11, <1>12
<1> QED  BY <1>13 DEF s, x

\* Dropping all entries of some packets takes these packets out of the bag.
LEMMA BagDrops ==
  ASSUME NEW P, NEW N, NEW r \in Queues(P, N), NEW D \in SUBSET queued(r)
  PROVE  BagOf(clear_entries(r, {i \in active(r) : r.slot[i] \in D}))
           = [p \in queued(r) \ D |-> BagOf(r)[p]]
<1> DEFINE S == {i \in active(r) : r.slot[i] \in D}
           s == clear_entries(r, S)
<1>1. s.slot = [i \in TxSlot |-> IF i \in S THEN NoPacket ELSE r.slot[i]]
  BY DEF clear_entries
<1> HIDE DEF s
<1>2. active(s) = active(r) \ S /\ \A i \in active(s) : s.slot[i] = r.slot[i]
  BY <1>1 DEF active
<1>3. queued(s) = queued(r) \ D
  BY <1>2 DEF queued
<1>4. ASSUME NEW p \in queued(s) PROVE EntriesOf(s, p) = EntriesOf(r, p)
  BY <1>2, <1>3 DEF EntriesOf
<1>5. BagOf(s) = [p \in queued(r) \ D |-> BagOf(r)[p]]
  BY <1>3, <1>4 DEF BagOf
<1> QED  BY <1>5 DEF s

\* A step of TxBag, or none.
BagStep == Bag!Next \/ UNCHANGED Bag!vars

\* The bag and the node served last follow the queue.
LEMMA BagVariables ==
  BagOf(q') = BagOf(q) /\ q'.last = q.last => UNCHANGED Bag!vars
BY Zenon DEF BagOf, EntriesOf, Bag!vars

\* Queueing a message that fits.
LEMMA SendIsAdd ==
  ASSUME IInv, NEW ps \in Messages, Send(ps)
  PROVE  BagStep
<1>1. q \in Queues(Packets, Nodes) /\ CountIsExact(q) /\ NoPacket \notin Packets
  BY PacketsAreNotEmptyEntries DEF IInv
<1>2. ps \in Seq(Packets) /\ Len(ps) \in Nat
  BY MessagesArePackets
<1>3. q' = pqc_udp_send_all(q, ps) /\ Len(ps) <= pqc_tx_free_slots(q)
  <2>1. pqc_tx_free_slots(q) \in Int
    BY <1>1, TxQueueAssumption DEF pqc_tx_free_slots, Queues
  <2> QED  BY <1>2, <2>1 DEF Send
<1>4. BagOf(q') = Bag!(+)(BagOf(q), Bag!PacketsOf(ps)) /\ q'.last = q.last
  <2>1. BagOf(pqc_udp_send_all(q, ps)) = Bag!(+)(BagOf(q), Bag!PacketsOf(ps))
    BY <1>1, <1>2, <1>3, BagAdds
  <2>2. pqc_udp_send_all(q, ps).last = q.last
    BY DEF pqc_udp_send_all
  <2> QED  BY <1>3, <2>1, <2>2
<1>5. Bag!Cardinality(Bag!Copies(BagOf(q))) + Len(ps) <= PQC_TX_QUEUE_SIZE
  <2>1. Cardinality(Bag!Copies(BagOf(q))) = Cardinality(active(q))
    BY <1>1, CopiesCounted
  <2>2. Bag!Cardinality(Bag!Copies(BagOf(q))) = Cardinality(Bag!Copies(BagOf(q)))
    BY SameCount
  <2>3. q.count = Cardinality(active(q)) /\ q.count \in Int /\ PQC_TX_QUEUE_SIZE \in Int
    BY <1>1, TxQueueAssumption DEF CountIsExact, Queues
  <2>4. q.count + Len(ps) <= PQC_TX_QUEUE_SIZE
    BY <1>2, <1>3, <2>3 DEF pqc_tx_free_slots
  <2> QED  BY <2>1, <2>2, <2>3, <2>4
<1>6. Bag!Add(ps)
  BY <1>4, <1>5, Zenon DEF Bag!Add, BagOf, EntriesOf
<1> QED  BY <1>6, Zenon DEF BagStep, Bag!Next

\* The timer tick sends an urgent packet and not of the same node as before, if
\* there is another.
LEMMA ProcessIsTake ==
  ASSUME IInv, Process
  PROVE  BagStep
<1> DEFINE i == pqc_tx_select_slot(q)
           B == Bag!BagToSet(BagOf(q))
           U == {r \in B : \A o \in B :
                   pqc_tx_priority_for_msg(r.kind) <= pqc_tx_priority_for_msg(o.kind)}
<1>1. q \in Queues(Packets, Nodes) /\ active(q) # {} /\ q' = pqc_tx_process(q)
  BY DEF IInv, Process
<1>2. PICK p : p = pqc_tx_next(q)
  OBVIOUS
<1>3. BagOf(q') = Bag!(-)(BagOf(q), Bag!SetToBag({p}))
  BY <1>1, <1>2, BagTakes
<1>4. q'.last = p.node
  BY <1>1, <1>2 DEF pqc_tx_process
<1>5. B = queued(q)
  BY Zenon DEF Bag!BagToSet, BagOf
<1>6. /\ i \in Urgent(q) /\ p = q.slot[i]
      /\ q.slot[i].node = q.last => \A j \in Urgent(q) : q.slot[j].node = q.last
  BY <1>1, <1>2, SelectUrgent DEF pqc_tx_next
<1> HIDE DEF i, B
<1>7. p \in B /\ p \in U
  BY <1>5, <1>6 DEF queued, Urgent
<1>8. p.node = q.last => \A r \in U : r.node = q.last
  <2> SUFFICES ASSUME p.node = q.last, NEW r \in U PROVE r.node = q.last
    OBVIOUS
  <2>1. PICK j \in active(q) : r = q.slot[j]
    BY <1>5 DEF queued
  <2>2. j \in Urgent(q)
    BY <1>5, <2>1 DEF queued, Urgent
  <2> QED  BY <1>6, <2>1, <2>2
<1>9. Bag!Take(p)
  BY <1>3, <1>4, <1>7, <1>8, Zenon DEF Bag!Take, BagOf, EntriesOf, B
<1>10. \E x \in B : Bag!Take(x)
  BY <1>7, <1>9, Zenon
<1> QED  BY <1>10, Zenon DEF BagStep, Bag!Next, B, BagOf, EntriesOf

\* pqc_tx_drop takes a message out of the bag, or nothing when it is not queued.
LEMMA DropIsRemove ==
  ASSUME IInv, NEW n, NEW kind, NEW id, Drop(n, kind, id)
  PROVE  BagStep
<1> DEFINE B == Bag!BagToSet(BagOf(q))
           D == {p \in queued(q) : p.node = n /\ p.kind = kind /\ p.msg_id = id}
<1>1. q \in Queues(Packets, Nodes) /\ q' = pqc_tx_drop(q, n, kind, id)
  BY DEF IInv, Drop
<1>2. q' = clear_entries(q, {i \in active(q) : q.slot[i] \in D})
  <2>1. {i \in active(q) : q.slot[i].node = n /\ q.slot[i].kind = kind /\ q.slot[i].msg_id = id}
          = {i \in active(q) : q.slot[i] \in D}
    BY DEF queued
  <2> HIDE DEF D
  <2> QED  BY <1>1, <2>1 DEF pqc_tx_drop
<1>3. B = queued(q)
  BY Zenon DEF Bag!BagToSet, BagOf
<1>4. BagOf(q') = [p \in queued(q) \ D |-> BagOf(q)[p]]
  <2>1. D \in SUBSET queued(q)
    OBVIOUS
  <2> HIDE DEF D
  <2> QED  BY <1>1, <1>2, <2>1, BagDrops
<1>5. q'.last = q.last
  BY <1>2 DEF clear_entries
<1> HIDE DEF B
<1>6. CASE D = {}
  <2>1. BagOf(q') = [p \in queued(q) |-> BagOf(q)[p]]
    BY <1>4, <1>6
  <2>2. BagOf(q') = BagOf(q)
    BY <2>1 DEF BagOf
  <2> QED  BY <1>5, <2>2, BagVariables DEF BagStep
<1>7. CASE D # {}
  <2>1. PICK r \in B : r.node = n /\ r.kind = kind /\ r.msg_id = id
    BY <1>3, <1>7
  <2> DEFINE R == {p \in B : p.node = r.node /\ p.kind = r.kind /\ p.msg_id = r.msg_id}
  <2>2. BagOf(q') = [p \in B \ R |-> BagOf(q)[p]]
    <3>1. R = D
      BY <1>3, <2>1
    <3> HIDE DEF R, D
    <3> QED  BY <1>3, <1>4, <3>1
  <2>3. Bag!Remove(R)
    BY <1>5, <2>2, Zenon DEF Bag!Remove, B, BagOf, EntriesOf
  <2>4. \E x \in B :
          Bag!Remove({p \in B : p.node = x.node /\ p.kind = x.kind /\ p.msg_id = x.msg_id})
    BY <2>3, Zenon
  <2> QED  BY <2>4, Zenon DEF BagStep, Bag!Next, B, BagOf, EntriesOf
<1> QED  BY <1>6, <1>7

\* pqc_tx_drop_node takes the packets of a node out of the bag.
LEMMA DropNodeIsRemove ==
  ASSUME IInv, NEW n \in Nodes, DropNode(n)
  PROVE  BagStep
<1> DEFINE B == Bag!BagToSet(BagOf(q))
           D == {p \in queued(q) : p.node = n}
<1>1. q \in Queues(Packets, Nodes) /\ q' = pqc_tx_drop_node(q, n)
  BY DEF IInv, DropNode
<1>2. q' = clear_entries(q, {i \in active(q) : q.slot[i] \in D})
  <2>1. {i \in active(q) : q.slot[i].node = n} = {i \in active(q) : q.slot[i] \in D}
    BY DEF queued
  <2> HIDE DEF D
  <2> QED  BY <1>1, <2>1 DEF pqc_tx_drop_node
<1>3. B = queued(q)
  BY Zenon DEF Bag!BagToSet, BagOf
<1>4. BagOf(q') = [p \in queued(q) \ D |-> BagOf(q)[p]]
  <2>1. D \in SUBSET queued(q)
    OBVIOUS
  <2> HIDE DEF D
  <2> QED  BY <1>1, <1>2, <2>1, BagDrops
<1>5. q'.last = q.last
  BY <1>2 DEF clear_entries
<1> HIDE DEF B
<1>6. BagOf(q') = [p \in B \ {p \in B : p.node = n} |-> BagOf(q)[p]]
  BY <1>3, <1>4
<1>7. Bag!Remove({p \in B : p.node = n})
  BY <1>5, <1>6, Zenon DEF Bag!Remove, B, BagOf, EntriesOf
<1>8. \E x \in Nodes : Bag!Remove({p \in B : p.node = x})
  BY <1>7, Zenon
<1> QED  BY <1>8, Zenon DEF BagStep, Bag!Next, B, BagOf, EntriesOf

\* The array with its tail and its counter keeps the promises of TxBag, for every
\* size, any nodes and messages of any length: no packet of a message is overwritten,
\* lost or sent twice, a message is never queued in part, and pqc_tx_select_slot
\* serves priorities and nodes as promised, wherever the tail has wandered.
THEOREM QueueImplementsBag == Spec => ImplementsBag
<1>1. Init => Bag!Init
  <2> SUFFICES ASSUME Init PROVE Bag!Init
    OBVIOUS
  <2>1. queued(q) = {} /\ q.last = INVALID_NODE_ID
    BY InitQueue DEF Init, pqc_tx_init
  <2>2. Bag!EmptyBag = [e \in {} |-> 1]
    BY Zenon DEF Bag!EmptyBag, Bag!SetToBag
  <2>3. BagOf(q) = Bag!EmptyBag
    BY <2>1, <2>2 DEF BagOf
  <2> QED  BY <2>1, <2>3, Zenon DEF Bag!Init, BagOf, EntriesOf
<1>2. IInv /\ [Next]_q => [Bag!Next]_(Bag!vars)
  <2> SUFFICES ASSUME IInv, [Next]_q PROVE BagStep
    BY DEF BagStep
  <2>1. CASE \E ps \in Messages : Send(ps)
    BY <2>1, SendIsAdd
  <2>2. CASE Process
    BY <2>2, ProcessIsTake
  <2>3. CASE \E n \in Nodes, kind \in Kinds, id \in MsgIds : Drop(n, kind, id)
    BY <2>3, DropIsRemove
  <2>4. CASE \E n \in Nodes : DropNode(n)
    BY <2>4, DropNodeIsRemove
  <2>5. CASE UNCHANGED q
    BY <2>5, BagVariables DEF BagStep
  <2> QED  BY <2>1, <2>2, <2>3, <2>4, <2>5 DEF Next
<1> QED  BY <1>1, <1>2, Invariant, PTL DEF Spec, ImplementsBag, Bag!Spec
=============================================================================
