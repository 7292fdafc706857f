---------------------------- MODULE TxQueueProofs ----------------------------
(***************************************************************************)
(* Facts about the operators of TxQueue, for every queue size: what each   *)
(* of them does to a well-formed queue.                                    *)
(***************************************************************************)
EXTENDS TxQueue, FiniteSetTheorems, WellFoundedInduction, TLAPS

\* A set of naturals that is not empty has a least element, and first_of picks
\* it: the search for the lowest index of pqc_tx_select_slot ends at an entry
\* that it was looking for.
LEMMA FirstOfIsIn ==
  ASSUME NEW S \in SUBSET Nat, S # {}
  PROVE  first_of(S) \in S /\ \A j \in S : first_of(S) <= j
<1> DEFINE Below == {0 .. x : x \in S}
<1>1. Below \subseteq FiniteSubsetsOf(Nat)
  <2> SUFFICES ASSUME NEW x \in S PROVE 0 .. x \in FiniteSubsetsOf(Nat)
    OBVIOUS
  <2>1. IsFiniteSet(0 .. x)
    BY FS_Interval
  <2> QED  BY <2>1 DEF FiniteSubsetsOf
<1>2. Below # {}
  OBVIOUS
<1>3. IsWellFoundedOn(StrictSubsetOrdering(Nat), FiniteSubsetsOf(Nat))
  BY FS_StrictSubsetOrderingWellFounded
<1>4. PICK b \in Below : \A c \in Below : ~(<<c, b>> \in StrictSubsetOrdering(Nat))
  <2> HIDE DEF Below
  <2> QED  BY <1>1, <1>2, <1>3, WFMin
<1>5. PICK x \in S : b = 0 .. x
  OBVIOUS
<1>6. ASSUME NEW y \in S PROVE x <= y
  <2> SUFFICES ASSUME y < x PROVE FALSE
    OBVIOUS
  <2>1. 0 .. y \subseteq 0 .. x /\ 0 .. y # 0 .. x
    OBVIOUS
  <2>2. 0 .. y \in SUBSET Nat /\ 0 .. x \in SUBSET Nat
    OBVIOUS
  <2>3. <<0 .. y, 0 .. x>> \in StrictSubsetOrdering(Nat)
    BY <2>1, <2>2, Zenon DEF StrictSubsetOrdering
  <2> QED  BY <1>4, <1>5, <2>3
<1> QED  BY <1>6 DEF first_of

-----------------------------------------------------------------------------
\* Entries are counted by naturals.
LEMMA EntriesFinite ==
  ASSUME NEW S \in SUBSET TxSlot
  PROVE  IsFiniteSet(S) /\ Cardinality(S) \in Nat
<1>1. IsFiniteSet(TxSlot)
  BY TxQueueAssumption, FS_Interval DEF TxSlot
<1> QED  BY <1>1, FS_Subset, FS_CardinalityType

\* pqc_tx_init leaves an empty, well-formed queue.
LEMMA InitQueue ==
  ASSUME NEW P, NEW N
  PROVE  pqc_tx_init \in Queues(P, N) /\ active(pqc_tx_init) = {} /\ queued(pqc_tx_init) = {}
BY TxQueueAssumption DEF pqc_tx_init, Queues, TxSlot, active, queued

\* Queueing a message keeps the queue well-formed and adds nothing but packets
\* of that message.
LEMMA SendAllQueue ==
  ASSUME NEW P, NEW N, NEW q \in Queues(P, N), NEW ps \in Seq(P)
  PROVE  /\ pqc_udp_send_all(q, ps) \in Queues(P, N)
         /\ queued(pqc_udp_send_all(q, ps)) \subseteq queued(q) \cup {ps[k] : k \in 1 .. Len(ps)}
<1> DEFINE passed == {i \in TxSlot : free_before(q, i) < Len(ps)}
           slot   == [i \in TxSlot |-> IF i \in passed \ active(q)
                                      THEN ps[free_before(q, i) + 1] ELSE q.slot[i]]
           tail   == (q.tail + Cardinality(passed)) % PQC_TX_QUEUE_SIZE
           count  == q.count + Len(ps)
           r      == pqc_udp_send_all(q, ps)
<1>1. r = [slot |-> slot, tail |-> tail, count |-> count, last |-> q.last]
  BY DEF pqc_udp_send_all, Queues
<1>2. ASSUME NEW i \in TxSlot
      PROVE  free_before(q, i) \in Nat
  BY EntriesFinite DEF free_before
<1>3. ASSUME NEW i \in TxSlot, i \in passed
      PROVE  /\ free_before(q, i) + 1 \in 1 .. Len(ps)
             /\ ps[free_before(q, i) + 1] \in P
  BY <1>2, <1>3
<1>4. slot \in [TxSlot -> P \cup {NoPacket}]
  BY <1>3 DEF Queues
<1>5. tail \in TxSlot
  <2>1. Cardinality(passed) \in Nat
    BY EntriesFinite
  <2>2. q.tail \in Nat
    BY DEF Queues, TxSlot
  <2> QED  BY <2>1, <2>2, TxQueueAssumption DEF TxSlot
<1>6. count \in Int
  BY DEF Queues
<1>7. r \in Queues(P, N)
  BY <1>1, <1>4, <1>5, <1>6 DEF Queues
<1>8. ASSUME NEW i \in active(r)
      PROVE  r.slot[i] \in queued(q) \cup {ps[k] : k \in 1 .. Len(ps)}
  <2>1. i \in TxSlot /\ r.slot[i] = slot[i] /\ slot[i] # NoPacket
    BY <1>1, <1>8 DEF active
  <2>2. CASE i \in passed \ active(q)
    BY <1>3, <2>1, <2>2
  <2>3. CASE i \notin passed \ active(q)
    BY <2>1, <2>3 DEF queued, active
  <2> QED  BY <2>2, <2>3
<1> QED  BY <1>7, <1>8 DEF queued

\* The same for a single packet.
LEMMA SendFragmentQueue ==
  ASSUME NEW P, NEW N, NEW q \in Queues(P, N), NEW p \in P
  PROVE  /\ pqc_udp_send_fragment(q, p) \in Queues(P, N)
         /\ queued(pqc_udp_send_fragment(q, p)) \subseteq queued(q) \cup {p}
<1> DEFINE ps == <<p>>
<1>1. ps \in Seq(P) /\ {ps[k] : k \in 1 .. Len(ps)} = {p}
  OBVIOUS
<1>2. pqc_udp_send_fragment(q, p) = pqc_udp_send_all(q, ps)
  BY DEF pqc_udp_send_fragment
<1> HIDE DEF ps
<1>3. /\ pqc_udp_send_all(q, ps) \in Queues(P, N)
      /\ queued(pqc_udp_send_all(q, ps)) \subseteq queued(q) \cup {ps[k] : k \in 1 .. Len(ps)}
  BY <1>1, SendAllQueue
<1> QED  BY <1>1, <1>2, <1>3

\* Priorities are naturals.
LEMMA PriorityType == \A kind : pqc_tx_priority_for_msg(kind) \in Nat
BY DEF pqc_tx_priority_for_msg

\* The entries with the best priority present.
Urgent(q) == {i \in active(q) : \A j \in active(q) :
                pqc_tx_priority_for_msg(q.slot[i].kind) <= pqc_tx_priority_for_msg(q.slot[j].kind)}

\* pqc_tx_select_slot finds an urgent entry whenever there is an entry in use, and
\* one of the node served last only if all urgent ones are.
LEMMA SelectUrgent ==
  ASSUME NEW q, active(q) # {}
  PROVE  /\ pqc_tx_select_slot(q) \in Urgent(q)
         /\ q.slot[pqc_tx_select_slot(q)].node = q.last
              => \A j \in Urgent(q) : q.slot[j].node = q.last
<1> DEFINE prio(i) == pqc_tx_priority_for_msg(q.slot[i].kind)
           Prios   == {prio(i) : i \in active(q)}
           best    == {i \in active(q) : \A j \in active(q) : prio(i) <= prio(j)}
           others  == {i \in best : q.slot[i].node # q.last}
           among   == IF others # {} THEN others ELSE best
<1>1. Prios \in SUBSET Nat /\ Prios # {}
  BY PriorityType
<1>2. PICK i \in active(q) : prio(i) = first_of(Prios)
  <2> HIDE DEF prio
  <2> QED  BY <1>1, FirstOfIsIn
<1>3. i \in best
  <2> SUFFICES ASSUME NEW j \in active(q) PROVE prio(i) <= prio(j)
    OBVIOUS
  <2>1. prio(j) \in Prios
    OBVIOUS
  <2>2. \A m \in Prios : first_of(Prios) <= m
    <3> HIDE DEF Prios
    <3> QED  BY <1>1, FirstOfIsIn
  <2> HIDE DEF prio, Prios
  <2> QED  BY <1>2, <2>1, <2>2
<1>4. among # {} /\ among \subseteq active(q) /\ among \in SUBSET Nat
  <2>1. active(q) \subseteq Nat
    BY DEF active, TxSlot
  <2> HIDE DEF prio
  <2> QED  BY <1>3, <2>1
<1>5. first_of(among) \in among
  <2> HIDE DEF among
  <2> QED  BY <1>4, FirstOfIsIn
<1>6. pqc_tx_select_slot(q) = first_of(among)
  BY DEF pqc_tx_select_slot
<1>7. best = Urgent(q)
  BY DEF Urgent
<1> HIDE DEF best
<1>8. pqc_tx_select_slot(q) \in among
  BY <1>5, <1>6
<1> QED  BY <1>7, <1>8

\* So pqc_tx_process sends a packet that was queued and leaves the others alone.
LEMMA SelectSlot ==
  ASSUME NEW q, active(q) # {}
  PROVE  pqc_tx_select_slot(q) \in active(q)
BY SelectUrgent DEF Urgent

\* pqc_tx_process hands out a packet that was queued and adds none.
LEMMA ProcessQueue ==
  ASSUME NEW P, NEW N, \A p \in P : p.node \in N,
         NEW q \in Queues(P, N), active(q) # {}
  PROVE  /\ pqc_tx_next(q) \in queued(q) /\ pqc_tx_next(q) \in P
         /\ pqc_tx_process(q) \in Queues(P, N)
         /\ queued(pqc_tx_process(q)) \subseteq queued(q)
<1> DEFINE i == pqc_tx_select_slot(q)
           r == pqc_tx_process(q)
<1>1. i \in active(q)
  BY SelectSlot
<1>2. i \in TxSlot /\ pqc_tx_next(q) = q.slot[i] /\ q.slot[i] # NoPacket
  BY <1>1 DEF active, pqc_tx_next
<1>3. pqc_tx_next(q) \in queued(q) /\ pqc_tx_next(q) \in P
  BY <1>1, <1>2 DEF queued, Queues
<1>4. r = [slot |-> [q.slot EXCEPT ![i] = NoPacket], tail |-> q.tail,
           count |-> q.count - 1, last |-> pqc_tx_next(q).node]
  BY DEF pqc_tx_process
<1>5. pqc_tx_next(q).node \in N
  BY <1>3
<1> HIDE DEF i, r
<1>6. r \in Queues(P, N)
  BY <1>2, <1>4, <1>5 DEF Queues
<1>7. active(r) \subseteq active(q) /\ \A j \in active(r) : r.slot[j] = q.slot[j]
  BY <1>2, <1>4 DEF Queues, active
<1> QED  BY <1>3, <1>6, <1>7 DEF queued, r

\* Clearing entries keeps the queue well-formed and the other entries as they
\* were.
LEMMA ClearEntries ==
  ASSUME NEW P, NEW N, NEW q \in Queues(P, N), NEW S \in SUBSET active(q)
  PROVE  /\ clear_entries(q, S) \in Queues(P, N)
         /\ queued(clear_entries(q, S)) = {q.slot[i] : i \in active(q) \ S}
<1> DEFINE r == clear_entries(q, S)
<1>1. Cardinality(S) \in Int
  BY EntriesFinite DEF active
<1>2. r = [slot |-> [i \in TxSlot |-> IF i \in S THEN NoPacket ELSE q.slot[i]],
           tail |-> q.tail, count |-> q.count - Cardinality(S), last |-> q.last]
  BY DEF clear_entries
<1> HIDE DEF r
<1>3. r \in Queues(P, N)
  BY <1>1, <1>2 DEF Queues
<1>4. active(r) = active(q) \ S /\ \A i \in active(r) : r.slot[i] = q.slot[i]
  BY <1>2 DEF active
<1> QED  BY <1>3, <1>4 DEF queued, r

\* After pqc_tx_drop_node nothing of that node is left, and nothing else is gone.
LEMMA DropNodeQueue ==
  ASSUME NEW P, NEW N, NEW q \in Queues(P, N), NEW n
  PROVE  /\ pqc_tx_drop_node(q, n) \in Queues(P, N)
         /\ queued(pqc_tx_drop_node(q, n)) = {p \in queued(q) : p.node # n}
<1> DEFINE S == {i \in active(q) : q.slot[i].node = n}
<1>1. S \in SUBSET active(q) /\ pqc_tx_drop_node(q, n) = clear_entries(q, S)
  BY DEF pqc_tx_drop_node
<1>2. {q.slot[i] : i \in active(q) \ S} = {p \in queued(q) : p.node # n}
  BY DEF queued
<1> HIDE DEF S
<1> QED  BY <1>1, <1>2, ClearEntries

\* pqc_tx_drop takes exactly the packets of one message.
LEMMA DropQueue ==
  ASSUME NEW P, NEW N, NEW q \in Queues(P, N), NEW n, NEW kind, NEW id
  PROVE  /\ pqc_tx_drop(q, n, kind, id) \in Queues(P, N)
         /\ queued(pqc_tx_drop(q, n, kind, id))
              = {p \in queued(q) : ~(p.node = n /\ p.kind = kind /\ p.msg_id = id)}
<1> DEFINE S == {i \in active(q) : /\ q.slot[i].node = n /\ q.slot[i].kind = kind
                                   /\ q.slot[i].msg_id = id}
<1>1. S \in SUBSET active(q) /\ pqc_tx_drop(q, n, kind, id) = clear_entries(q, S)
  BY DEF pqc_tx_drop
<1>2. {q.slot[i] : i \in active(q) \ S}
        = {p \in queued(q) : ~(p.node = n /\ p.kind = kind /\ p.msg_id = id)}
  BY DEF queued
<1> HIDE DEF S
<1> QED  BY <1>1, <1>2, ClearEntries

-----------------------------------------------------------------------------
(* tx_count.  Numbering the free entries in the order in which the search  *)
(* meets them is a bijection onto 0 .. m - 1, m being their number; a      *)
(* message of k packets takes the entries numbered below k, so exactly k.  *)

\* An interval that starts at zero has as many elements as its bound says.
LEMMA IntervalSize ==
  ASSUME NEW k \in Nat
  PROVE  IsFiniteSet(0 .. k - 1) /\ Cardinality(0 .. k - 1) = k
<1>1. 0 \in Int /\ k - 1 \in Int
  OBVIOUS
<1>2. Cardinality(0 .. k - 1) = IF 0 > k - 1 THEN 0 ELSE (k - 1) - 0 + 1
  BY <1>1, FS_Interval
<1> QED  BY <1>1, <1>2, FS_Interval

\* The search of pqc_udp_send_fragment meets every entry once: different entries
\* lie at different distances from the tail.
LEMMA DistanceInjective ==
  ASSUME NEW t \in TxSlot, NEW i \in TxSlot
  PROVE  /\ distance(t, i) \in Nat
         /\ \A j \in TxSlot : distance(t, i) = distance(t, j) => i = j
<1> DEFINE M == PQC_TX_QUEUE_SIZE
<1>1. \A a \in 0 .. 2 * M - 1 : a % M = IF a < M THEN a ELSE a - M
  BY TxQueueAssumption
<1>2. \A j \in TxSlot : distance(t, j) = IF j < t THEN j + M - t ELSE j - t
  BY <1>1, TxQueueAssumption DEF distance, TxSlot
<1> QED  BY <1>2, TxQueueAssumption DEF TxSlot

\* Going e entries on from the tail and measuring the distance undo each other.
LEMMA DistanceBack ==
  ASSUME NEW t \in TxSlot
  PROVE  /\ \A i \in TxSlot : /\ distance(t, i) \in TxSlot
                              /\ (t + distance(t, i)) % PQC_TX_QUEUE_SIZE = i
         /\ \A e \in TxSlot : /\ (t + e) % PQC_TX_QUEUE_SIZE \in TxSlot
                              /\ distance(t, (t + e) % PQC_TX_QUEUE_SIZE) = e
<1> DEFINE M == PQC_TX_QUEUE_SIZE
<1>1. \A a \in 0 .. 2 * M - 1 : a % M = IF a < M THEN a ELSE a - M
  BY TxQueueAssumption
<1>2. \A j \in TxSlot : distance(t, j) = IF j < t THEN j + M - t ELSE j - t
  BY <1>1, TxQueueAssumption DEF distance, TxSlot
<1>3. \A e \in TxSlot : (t + e) % M = IF t + e < M THEN t + e ELSE t + e - M
  BY <1>1, TxQueueAssumption DEF TxSlot
<1>4. \A i \in TxSlot : distance(t, i) \in TxSlot /\ t + distance(t, i) \in Nat
  BY <1>2, TxQueueAssumption DEF TxSlot
<1>5. \A i \in TxSlot : (t + distance(t, i)) % M = i
  <2> SUFFICES ASSUME NEW i \in TxSlot PROVE (t + distance(t, i)) % M = i
    OBVIOUS
  <2> DEFINE e == distance(t, i)
  <2>1. e \in TxSlot /\ e = IF i < t THEN i + M - t ELSE i - t
    BY <1>2, <1>4
  <2> HIDE DEF e
  <2>2. (t + e) % M = i
    BY <1>3, <2>1, TxQueueAssumption DEF TxSlot
  <2> QED  BY <2>2 DEF e
<1>6. \A e \in TxSlot : (t + e) % M \in TxSlot
  BY <1>3, TxQueueAssumption DEF TxSlot
<1>7. \A e \in TxSlot : distance(t, (t + e) % M) = e
  BY <1>2, <1>3, <1>6, TxQueueAssumption DEF TxSlot
<1> QED  BY <1>4, <1>5, <1>6, <1>7

\* Going on by a and then by b entries is going on by both.
LEMMA TwoMoves ==
  ASSUME NEW t \in TxSlot, NEW a \in TxSlot, NEW b \in Nat, a + b <= PQC_TX_QUEUE_SIZE
  PROVE  (((t + a) % PQC_TX_QUEUE_SIZE) + b) % PQC_TX_QUEUE_SIZE = (t + (a + b)) % PQC_TX_QUEUE_SIZE
<1> DEFINE M == PQC_TX_QUEUE_SIZE
           s == (t + a) % M
<1>1. \A x \in 0 .. 2 * M - 1 : x % M = IF x < M THEN x ELSE x - M
  BY TxQueueAssumption
<1>2. M \in Nat \ {0} /\ t + a \in 0 .. 2 * M - 1 /\ t + (a + b) \in 0 .. 2 * M - 1
  BY TxQueueAssumption DEF TxSlot
<1>3. s = IF t + a < M THEN t + a ELSE t + a - M
  BY <1>1, <1>2, TxQueueAssumption DEF TxSlot
<1>4. (t + (a + b)) % M = IF t + (a + b) < M THEN t + (a + b) ELSE t + (a + b) - M
  BY <1>1, <1>2, TxQueueAssumption DEF TxSlot
<1> HIDE DEF s
<1>5. s + b \in 0 .. 2 * M - 1
  BY <1>2, <1>3 DEF TxSlot
<1>6. (s + b) % M = IF s + b < M THEN s + b ELSE s + b - M
  BY <1>1, <1>2, <1>3, TxQueueAssumption DEF TxSlot
<1>7. (s + b) % M = (t + (a + b)) % M
  <2> DEFINE u == (s + b) % M
             v == (t + (a + b)) % M
  <2>1. /\ u = IF s + b < M THEN s + b ELSE s + b - M
        /\ v = IF t + (a + b) < M THEN t + (a + b) ELSE t + (a + b) - M
    BY <1>4, <1>6
  <2> HIDE DEF u, v
  <2>2. u = v
    BY <1>2, <1>3, <2>1 DEF TxSlot
  <2> QED  BY <2>2 DEF u, v
<1> QED  BY <1>7 DEF s

\* The search meets no fewer free entries on the way to an entry further on, and
\* more of them when it passes a free one.
LEMMA SearchOrder ==
  ASSUME NEW P, NEW N, NEW q \in Queues(P, N), NEW i \in TxSlot, NEW j \in TxSlot
  PROVE  /\ free_before(q, i) \in Nat
         /\ distance(q.tail, i) <= distance(q.tail, j) => free_before(q, i) <= free_before(q, j)
         /\ i \notin active(q) /\ distance(q.tail, i) < distance(q.tail, j)
              => free_before(q, i) < free_before(q, j)
<1> DEFINE d(k) == distance(q.tail, k)
           B(k) == {l \in TxSlot \ active(q) : d(l) < d(k)}
<1>1. \A k \in TxSlot : d(k) \in Nat
  BY DistanceInjective DEF Queues
<1>2. /\ free_before(q, i) = Cardinality(B(i)) /\ free_before(q, j) = Cardinality(B(j))
  BY DEF free_before
<1>3. B(i) \in SUBSET TxSlot /\ B(j) \in SUBSET TxSlot
  OBVIOUS
<1>4. IsFiniteSet(B(j)) /\ Cardinality(B(i)) \in Nat /\ Cardinality(B(j)) \in Nat
  <2> HIDE DEF B
  <2> QED  BY <1>3, EntriesFinite
<1>5. d(i) <= d(j) => B(i) \in SUBSET B(j)
  BY <1>1
<1>6. i \notin active(q) /\ d(i) < d(j) => B(i) \in SUBSET B(j) /\ B(i) # B(j)
  BY <1>1
<1> HIDE DEF B, d
<1>7. d(i) <= d(j) => Cardinality(B(i)) <= Cardinality(B(j))
  BY <1>4, <1>5, FS_Subset
<1>8. i \notin active(q) /\ d(i) < d(j) => Cardinality(B(i)) < Cardinality(B(j))
  BY <1>4, <1>6, FS_Subset
<1> QED  BY <1>2, <1>4, <1>7, <1>8 DEF d

\* Up to and including a free entry the search passes as many entries as its
\* distance says.
LEMMA PassedSize ==
  ASSUME NEW P, NEW N, NEW q \in Queues(P, N), NEW y \in TxSlot \ active(q)
  PROVE  /\ {i \in TxSlot : free_before(q, i) < free_before(q, y) + 1}
              = {i \in TxSlot : distance(q.tail, i) <= distance(q.tail, y)}
         /\ Cardinality({i \in TxSlot : free_before(q, i) < free_before(q, y) + 1})
              = distance(q.tail, y) + 1
<1> DEFINE d(k) == distance(q.tail, k)
           S    == {i \in TxSlot : d(i) <= d(y)}
           f    == [i \in S |-> d(i)]
<1>1. q.tail \in TxSlot
  BY DEF Queues
<1>2. \A k \in TxSlot : d(k) \in TxSlot /\ d(k) \in Nat
  <2>1. \A k \in TxSlot : d(k) \in TxSlot
    BY <1>1, DistanceBack
  <2>2. TxSlot \subseteq Nat
    BY TxQueueAssumption DEF TxSlot
  <2> QED  BY <2>1, <2>2
<1>3. {i \in TxSlot : free_before(q, i) < free_before(q, y) + 1} = S
  <2>1. ASSUME NEW i \in TxSlot PROVE free_before(q, i) < free_before(q, y) + 1 <=> d(i) <= d(y)
    <3>1. /\ free_before(q, i) \in Nat /\ free_before(q, y) \in Nat
          /\ d(i) <= d(y) => free_before(q, i) <= free_before(q, y)
          /\ d(y) < d(i) => free_before(q, y) < free_before(q, i)
      BY SearchOrder
    <3>2. d(i) \in Nat /\ d(y) \in Nat
      BY <1>2
    <3> HIDE DEF d
    <3> QED  BY <3>1, <3>2
  <2> QED  BY <2>1
<1>4. f \in Bijection(S, 0 .. d(y))
  <2>1. f \in [S -> 0 .. d(y)]
    BY <1>2
  <2>2. ASSUME NEW i \in S, NEW j \in S, f[i] = f[j] PROVE i = j
    <3>1. i \in TxSlot /\ j \in TxSlot /\ d(i) = d(j)
      BY <2>2
    <3> QED  BY <1>1, <3>1, DistanceInjective
  <2>3. ASSUME NEW e \in 0 .. d(y) PROVE \E i \in S : f[i] = e
    <3>1. e \in TxSlot
      <4>1. d(y) \in TxSlot
        BY <1>2
      <4> HIDE DEF d
      <4> QED  BY <4>1, TxQueueAssumption DEF TxSlot
    <3> DEFINE i == (q.tail + e) % PQC_TX_QUEUE_SIZE
    <3>2. i \in TxSlot /\ d(i) = e
      BY <1>1, <3>1, DistanceBack
    <3> HIDE DEF i
    <3>3. i \in S /\ f[i] = e
      BY <3>2
    <3> QED  BY <3>3
  <2> HIDE DEF f, S, d
  <2> QED  BY <2>1, <2>2, <2>3 DEF Bijection, Injection, IsInjective, Surjection
<1>5. IsFiniteSet(S) /\ Cardinality(S) \in Nat
  <2>1. S \in SUBSET TxSlot
    OBVIOUS
  <2> HIDE DEF S
  <2> QED  BY <2>1, EntriesFinite
<1>6. Cardinality(0 .. d(y)) = d(y) + 1
  <2>1. d(y) + 1 \in Nat /\ (d(y) + 1) - 1 = d(y)
    BY <1>2
  <2> HIDE DEF d
  <2> QED  BY <2>1, IntervalSize
<1>7. Cardinality(S) = d(y) + 1
  <2> HIDE DEF f, S, d
  <2> QED  BY <1>4, <1>5, <1>6, FS_Surjection DEF Bijection
<1> QED  BY <1>3, <1>7
\* The number of a free entry is its place in the search.
LEMMA FreeRank ==
  ASSUME NEW P, NEW N, NEW q \in Queues(P, N), NEW m,
         m = Cardinality(TxSlot \ active(q))
  PROVE  [i \in TxSlot \ active(q) |-> free_before(q, i)]
           \in Bijection(TxSlot \ active(q), 0 .. m - 1)
<1> DEFINE F    == TxSlot \ active(q)
           d(i) == distance(q.tail, i)
           B(i) == {j \in F : d(j) < d(i)}
           rank == [i \in F |-> free_before(q, i)]
<1>1. IsFiniteSet(F) /\ m \in Nat
  BY EntriesFinite
<1>2. ASSUME NEW i \in F
      PROVE  /\ d(i) \in Nat
             /\ \A j \in F : d(i) = d(j) => i = j
  BY DistanceInjective DEF Queues
<1>3. ASSUME NEW i \in F
      PROVE  /\ rank[i] = Cardinality(B(i))
             /\ IsFiniteSet(B(i)) /\ Cardinality(B(i)) \in Nat
             /\ Cardinality(B(i)) < m
  <2>1. rank[i] = Cardinality(B(i))
    BY DEF free_before
  <2>2. B(i) \in SUBSET TxSlot
    OBVIOUS
  <2>3. IsFiniteSet(B(i)) /\ Cardinality(B(i)) \in Nat
    <3> HIDE DEF B
    <3> QED  BY <2>2, EntriesFinite
  <2>4. B(i) \in SUBSET F /\ B(i) # F
    BY <1>2
  <2>5. Cardinality(B(i)) <= m /\ Cardinality(B(i)) # m
    <3> HIDE DEF B, F
    <3> QED  BY <1>1, <2>4, FS_Subset DEF F
  <2> HIDE DEF B, rank
  <2> QED  BY <1>1, <2>1, <2>3, <2>5
<1>4. ASSUME NEW i \in F, NEW j \in F, d(i) < d(j)
      PROVE  rank[i] # rank[j]
  <2>1. B(i) \in SUBSET B(j) /\ i \in B(j) /\ i \notin B(i)
    BY <1>2, <1>4
  <2>2. Cardinality(B(i)) # Cardinality(B(j))
    <3>1. IsFiniteSet(B(j))
      BY <1>3
    <3>2. B(j) # B(i)
      BY <2>1
    <3> HIDE DEF B
    <3> QED  BY <2>1, <3>1, <3>2, FS_Subset
  <2>3. rank[i] = Cardinality(B(i)) /\ rank[j] = Cardinality(B(j))
    BY <1>3
  <2> HIDE DEF B, rank
  <2> QED  BY <2>2, <2>3
<1>5. rank \in [F -> 0 .. m - 1]
  <2> SUFFICES ASSUME NEW i \in F PROVE rank[i] \in 0 .. m - 1
    OBVIOUS
  <2>1. rank[i] \in Nat /\ rank[i] < m
    <3> HIDE DEF B, rank
    <3> QED  BY <1>3
  <2> HIDE DEF rank
  <2> QED  BY <1>1, <2>1
<1>6. \A i, j \in F : rank[i] = rank[j] => i = j
  <2> SUFFICES ASSUME NEW i \in F, NEW j \in F, i # j PROVE rank[i] # rank[j]
    OBVIOUS
  <2>1. d(i) < d(j) \/ d(j) < d(i)
    <3>1. d(i) \in Nat /\ d(j) \in Nat /\ d(i) # d(j)
      BY <1>2
    <3> HIDE DEF d
    <3> QED  BY <3>1
  <2> HIDE DEF rank, d
  <2> QED  BY <1>4, <2>1
<1>7. rank \in Injection(F, 0 .. m - 1)
  <2> HIDE DEF rank, F
  <2> QED  BY <1>5, <1>6 DEF Injection, IsInjective
<1>8. IsFiniteSet(0 .. m - 1) /\ Cardinality(0 .. m - 1) = m
  BY <1>1, IntervalSize
<1>9. rank \in Surjection(F, 0 .. m - 1)
  <2>1. Cardinality(F) = Cardinality(0 .. m - 1)
    BY <1>8
  <2> HIDE DEF rank, F
  <2> QED  BY <1>7, <1>8, <2>1, FS_Injection
<1> QED  BY <1>7, <1>9 DEF Bijection

\* The entries a message of k packets takes.
Taken(q, k) == {i \in TxSlot \ active(q) : free_before(q, i) < k}

\* When there is room for k packets, the entries they take are numbered from 0 to
\* k - 1.
LEMMA TakenRank ==
  ASSUME NEW P, NEW N, NEW q \in Queues(P, N), CountIsExact(q),
         NEW k \in Nat, k <= pqc_tx_free_slots(q)
  PROVE  [i \in Taken(q, k) |-> free_before(q, i)] \in Bijection(Taken(q, k), 0 .. k - 1)
<1> DEFINE F      == TxSlot \ active(q)
           m      == Cardinality(F)
           rank   == [i \in F |-> free_before(q, i)]
           taken  == Taken(q, k)
           part   == [i \in taken |-> free_before(q, i)]
<1>1. Cardinality(active(q)) \in Nat /\ m \in Nat
  <2>1. active(q) \in SUBSET TxSlot /\ F \in SUBSET TxSlot
    BY DEF active
  <2> HIDE DEF F
  <2> QED  BY <2>1, EntriesFinite
<1>2. k <= m
  <2>1. Cardinality(TxSlot) = PQC_TX_QUEUE_SIZE /\ IsFiniteSet(TxSlot)
    BY IntervalSize, TxQueueAssumption DEF TxSlot
  <2>2. TxSlot \cap active(q) = active(q)
    BY DEF active
  <2>3. m = PQC_TX_QUEUE_SIZE - Cardinality(active(q))
    BY <2>1, <2>2, FS_Difference
  <2>4. k <= PQC_TX_QUEUE_SIZE - q.count
    BY DEF pqc_tx_free_slots
  <2> HIDE DEF m
  <2> QED  BY <2>3, <2>4 DEF CountIsExact
<1>3. rank \in Bijection(F, 0 .. m - 1)
  BY FreeRank
<1>4. ASSUME NEW i \in taken
      PROVE  i \in F /\ part[i] = rank[i] /\ rank[i] < k
  BY DEF Taken
<1>5. ASSUME NEW i \in F
      PROVE  /\ rank[i] \in 0 .. m - 1
             /\ \A j \in F : rank[i] = rank[j] => i = j
  <2> HIDE DEF rank, F, m
  <2> QED  BY <1>3, <1>5 DEF Bijection, Injection, IsInjective
<1>6. ASSUME NEW x \in 0 .. m - 1 PROVE \E i \in F : rank[i] = x
  <2> HIDE DEF rank, F, m
  <2> QED  BY <1>3, <1>6 DEF Bijection, Surjection
<1>7. ASSUME NEW i \in taken PROVE part[i] \in 0 .. k - 1
  <2> HIDE DEF rank, F, m, part
  <2> QED  BY <1>1, <1>2, <1>4, <1>5
<1>8. part \in [taken -> 0 .. k - 1]
  BY <1>7
<1>9. ASSUME NEW i \in taken, NEW j \in taken, part[i] = part[j] PROVE i = j
  <2> HIDE DEF rank, F, part
  <2> QED  BY <1>4, <1>5, <1>9
<1>10. ASSUME NEW x \in 0 .. k - 1 PROVE \E i \in taken : part[i] = x
  <2>1. x \in 0 .. m - 1 /\ x < k
    <3> HIDE DEF m
    <3> QED  BY <1>1, <1>2
  <2>2. PICK i \in F : rank[i] = x
    BY <1>6, <2>1
  <2>3. i \in taken /\ part[i] = x
    BY <2>1, <2>2 DEF Taken
  <2> QED  BY <2>3
<1> HIDE DEF part
<1>11. part \in Bijection(taken, 0 .. k - 1)
  BY <1>8, <1>9, <1>10 DEF Bijection, Injection, IsInjective, Surjection
<1> QED  BY <1>11 DEF part

\* A message fills the free entries numbered below its length and no others.
LEMMA SentEntries ==
  ASSUME NEW P, NoPacket \notin P, NEW N, NEW q \in Queues(P, N), NEW ps \in Seq(P)
  PROVE  /\ active(pqc_udp_send_all(q, ps)) = active(q) \cup Taken(q, Len(ps))
         /\ \A i \in TxSlot : pqc_udp_send_all(q, ps).slot[i]
                              = IF i \in Taken(q, Len(ps)) THEN ps[free_before(q, i) + 1] ELSE q.slot[i]
         /\ \A i \in Taken(q, Len(ps)) : free_before(q, i) + 1 \in 1 .. Len(ps)
<1> DEFINE r     == pqc_udp_send_all(q, ps)
           taken == Taken(q, Len(ps))
<1>1. ASSUME NEW i \in TxSlot
      PROVE  r.slot[i] = IF i \in taken THEN ps[free_before(q, i) + 1] ELSE q.slot[i]
  BY DEF pqc_udp_send_all, Taken
<1>2. ASSUME NEW i \in taken
      PROVE  free_before(q, i) + 1 \in 1 .. Len(ps) /\ ps[free_before(q, i) + 1] # NoPacket
  <2>1. free_before(q, i) \in Nat /\ free_before(q, i) < Len(ps)
    BY EntriesFinite DEF free_before, Taken
  <2>2. ps[free_before(q, i) + 1] \in P
    BY <2>1
  <2> QED  BY <2>1, <2>2
<1> HIDE DEF r
<1>3. active(r) = active(q) \cup taken
  BY <1>1, <1>2 DEF active, Taken
<1> QED  BY <1>1, <1>2, <1>3 DEF r

\* Queueing a message that fits keeps the counter exact (pqc_udp_send_fragment).
LEMMA SendAllCounts ==
  ASSUME NEW P, NoPacket \notin P, NEW N, NEW q \in Queues(P, N), CountIsExact(q),
         NEW ps \in Seq(P), Len(ps) <= pqc_tx_free_slots(q)
  PROVE  CountIsExact(pqc_udp_send_all(q, ps))
<1> DEFINE k      == Len(ps)
           taken  == Taken(q, k)
           part   == [i \in taken |-> free_before(q, i)]
           r      == pqc_udp_send_all(q, ps)
<1>1. /\ IsFiniteSet(active(q)) /\ Cardinality(active(q)) \in Nat
      /\ IsFiniteSet(taken) /\ Cardinality(taken) \in Nat /\ k \in Nat
  <2>1. active(q) \in SUBSET TxSlot /\ taken \in SUBSET TxSlot /\ k \in Nat
    BY DEF active, Taken
  <2> HIDE DEF taken
  <2> QED  BY <2>1, EntriesFinite
<1>2. Cardinality(taken) = k
  <2>1. part \in Bijection(taken, 0 .. k - 1)
    BY <1>1, TakenRank
  <2>2. Cardinality(0 .. k - 1) = k
    BY <1>1, IntervalSize
  <2> HIDE DEF part, taken, k
  <2> QED  BY <1>1, <2>1, <2>2, FS_Surjection DEF Bijection
<1>3. active(r) = active(q) \cup taken
  BY SentEntries
<1>4. Cardinality(active(r)) = Cardinality(active(q)) + k
  <2>1. active(q) \cap taken = {}
    BY DEF Taken
  <2>2. Cardinality(active(q) \cup taken)
          = Cardinality(active(q)) + Cardinality(taken) - Cardinality(active(q) \cap taken)
    <3> HIDE DEF taken
    <3> QED  BY <1>1, FS_Union
  <2>3. Cardinality(active(q) \cap taken) = 0
    BY <2>1, FS_EmptySet
  <2> HIDE DEF taken, k, r
  <2> QED  BY <1>1, <1>2, <1>3, <2>2, <2>3
<1>5. r.count = q.count + k
  BY DEF pqc_udp_send_all
<1> HIDE DEF k, r
<1> QED  BY <1>4, <1>5 DEF CountIsExact, r

-----------------------------------------------------------------------------
(* Where the next packet goes.                                             *)

\* Where pqc_udp_send_fragment puts one more packet: the tail lies behind the
\* entries the message has taken, and the search from there stops at the free
\* entry numbered next.
LEMMA NextFree ==
  ASSUME NEW P, NoPacket \notin P, NEW N, NEW r \in Queues(P, N), CountIsExact(r),
         NEW ps \in Seq(P), Len(ps) < pqc_tx_free_slots(r)
  PROVE  \E x \in TxSlot \ active(r) :
           /\ free_before(r, x) = Len(ps)
           /\ x \notin active(pqc_udp_send_all(r, ps))
           /\ \E e \in TxSlot :
                /\ (pqc_udp_send_all(r, ps).tail + e) % PQC_TX_QUEUE_SIZE = x
                /\ \A f \in 0 .. e - 1 :
                     (pqc_udp_send_all(r, ps).tail + f) % PQC_TX_QUEUE_SIZE
                       \in active(pqc_udp_send_all(r, ps))
<1> DEFINE M     == PQC_TX_QUEUE_SIZE
           k     == Len(ps)
           d(i)  == distance(r.tail, i)
           fb(i) == free_before(r, i)
           all   == pqc_udp_send_all(r, ps)
           c     == Cardinality({i \in TxSlot : fb(i) < k})
<1>1. k \in Nat /\ M \in Nat \ {0} /\ r.tail \in TxSlot /\ TxSlot \subseteq Nat
  BY TxQueueAssumption DEF Queues, TxSlot
<1>2. all.tail = (r.tail + c) % M
  BY DEF pqc_udp_send_all
<1>3. active(all) = active(r) \cup Taken(r, k)
  BY SentEntries
<1>4. \A n \in 0 .. k : \E x \in TxSlot \ active(r) : fb(x) = n
  <2>1. k + 1 \in Nat /\ k + 1 <= pqc_tx_free_slots(r) /\ (k + 1) - 1 = k
    BY <1>1, TxQueueAssumption DEF pqc_tx_free_slots, Queues
  <2> DEFINE T    == Taken(r, k + 1)
             part == [i \in T |-> free_before(r, i)]
  <2>2. part \in Bijection(T, 0 .. (k + 1) - 1)
    <3> HIDE DEF k
    <3> QED  BY <2>1, TakenRank
  <2>3. part \in Surjection(T, 0 .. k)
    <3> HIDE DEF k, part, T
    <3> QED  BY <2>1, <2>2 DEF Bijection
  <2>4. ASSUME NEW n \in 0 .. k PROVE \E i \in T : part[i] = n
    <3> HIDE DEF k, part, T
    <3> QED  BY <2>3 DEF Surjection
  <2>5. T \subseteq TxSlot \ active(r)
    BY DEF Taken
  <2> HIDE DEF k
  <2> QED  BY <2>4, <2>5
<1>5. PICK x \in TxSlot \ active(r) : fb(x) = k
  <2>1. k \in 0 .. k
    BY <1>1
  <2> HIDE DEF k, fb
  <2> QED  BY <1>4, <2>1
<1>6. \A i \in TxSlot : d(i) \in TxSlot /\ (r.tail + d(i)) % M = i /\ fb(i) \in Nat
  BY <1>1, DistanceBack, SearchOrder
<1>7. x \notin active(all)
  BY <1>1, <1>3, <1>5 DEF Taken
<1>8. /\ c \in Nat /\ c <= d(x)
      /\ \A i \in TxSlot : i \notin active(all) /\ d(i) < d(x) => d(i) < c
  <2>1. CASE k = 0
    <3>1. {i \in TxSlot : fb(i) < k} = {}
      BY <1>6, <2>1
    <3>2. c = 0
      BY <3>1, FS_EmptySet
    <3>3. ASSUME NEW i \in TxSlot, i \notin active(all), d(i) < d(x) PROVE FALSE
      <4>1. i \notin active(r)
        BY <1>3, <3>3
      <4>2. fb(i) < fb(x) /\ fb(i) \in Nat
        BY <3>3, <4>1, SearchOrder
      <4> HIDE DEF fb, k
      <4> QED  BY <1>5, <2>1, <4>2
    <3>4. d(x) \in Nat
      BY <1>1, <1>6
    <3> HIDE DEF c, d
    <3> QED  BY <3>2, <3>3, <3>4
  <2>2. CASE k > 0
    <3>1. k - 1 \in 0 .. k
      <4> HIDE DEF k
      <4> QED  BY <1>1, <2>2
    <3>2. PICK y \in TxSlot \ active(r) : fb(y) = k - 1
      <4> HIDE DEF k, fb
      <4> QED  BY <1>4, <3>1
    <3>3. fb(y) + 1 = k /\ fb(y) < fb(x)
      <4> HIDE DEF k, fb
      <4> QED  BY <1>1, <1>5, <3>2
    <3>4. c = d(y) + 1
      <4>1. Cardinality({i \in TxSlot : free_before(r, i) < free_before(r, y) + 1}) = d(y) + 1
        BY PassedSize
      <4> QED  BY <3>3, <4>1
    <3>5. d(x) \in Nat /\ d(y) \in Nat
      BY <1>1, <1>6
    <3>6. d(y) < d(x)
      <4>1. d(x) <= d(y) => fb(x) <= fb(y)
        BY SearchOrder
      <4>2. fb(x) \in Nat /\ fb(y) \in Nat
        BY <1>6
      <4> HIDE DEF d, fb, k
      <4> QED  BY <3>3, <3>5, <4>1, <4>2
    <3>7. ASSUME NEW i \in TxSlot, i \notin active(all), d(i) < d(x) PROVE d(i) < c
      <4>1. i \notin active(r) /\ i \notin Taken(r, k)
        BY <1>3, <3>7
      <4>2. fb(i) < fb(x)
        BY <3>7, <4>1, SearchOrder
      <4>3. fb(i) < k
        BY <1>5, <4>2
      <4> QED  BY <4>1, <4>3 DEF Taken
    <3> HIDE DEF c, d
    <3> QED  BY <3>4, <3>5, <3>6, <3>7
  <2> HIDE DEF k, c, d, all
  <2> QED  BY <1>1, <2>1, <2>2
<1> DEFINE e == d(x) - c
<1>9. e \in TxSlot
  <2>1. d(x) \in TxSlot
    BY <1>6
  <2> HIDE DEF c, d
  <2> QED  BY <1>1, <1>8, <2>1 DEF TxSlot
<1>10. ASSUME NEW f \in 0 .. e PROVE (all.tail + f) % M = (r.tail + (c + f)) % M /\ c + f \in TxSlot
  <2>1. d(x) \in TxSlot
    BY <1>6
  <2>2. c + f \in TxSlot /\ c \in TxSlot /\ f \in Nat
    <3> HIDE DEF c, d
    <3> QED  BY <1>1, <1>8, <2>1 DEF TxSlot
  <2>3. (all.tail + f) % M = (r.tail + (c + f)) % M
    <3>1. c + f <= M
      <4> HIDE DEF c, e
      <4> QED  BY <1>1, <1>8, <2>2 DEF TxSlot
    <3>2. (((r.tail + c) % M) + f) % M = (r.tail + (c + f)) % M
      <4> HIDE DEF c, e
      <4> QED  BY <1>1, <2>2, <3>1, TwoMoves
    <3> HIDE DEF c, all
    <3> QED  BY <1>2, <3>2
  <2> QED  BY <2>2, <2>3
<1>11. (all.tail + e) % M = x
  <2>1. e \in 0 .. e /\ c + e = d(x)
    <3>1. d(x) \in Nat
      BY <1>1, <1>6
    <3> HIDE DEF c, d
    <3> QED  BY <1>8, <3>1
  <2>2. (all.tail + e) % M = (r.tail + (c + e)) % M
    <3> HIDE DEF c, e, all
    <3> QED  BY <1>10, <2>1
  <2>3. (r.tail + d(x)) % M = x
    BY <1>6
  <2> HIDE DEF c, e, all, d
  <2> QED  BY <2>1, <2>2, <2>3
<1>12. ASSUME NEW f \in 0 .. e - 1 PROVE (all.tail + f) % M \in active(all)
  <2> DEFINE i == (r.tail + (c + f)) % M
  <2>1. f \in 0 .. e /\ c + f < d(x) /\ ~(c + f < c)
    <3>1. d(x) \in Nat
      BY <1>1, <1>6
    <3> HIDE DEF c, d
    <3> QED  BY <1>8, <3>1
  <2>2. (all.tail + f) % M = i /\ c + f \in TxSlot
    <3> HIDE DEF c, e, all
    <3> QED  BY <1>10, <2>1
  <2>3. i \in TxSlot /\ d(i) = c + f
    <3> DEFINE g == c + f
    <3>1. g \in TxSlot
      BY <2>2
    <3> HIDE DEF g
    <3>2. (r.tail + g) % M \in TxSlot /\ d((r.tail + g) % M) = g
      BY <1>1, <3>1, DistanceBack
    <3> QED  BY <3>2 DEF g
  <2>4. i \in active(all)
    <3> HIDE DEF i, c, d, all, e
    <3> QED  BY <1>8, <2>1, <2>3
  <2> QED  BY <2>2, <2>4
<1>13. fb(x) = k
  BY <1>5
<1> HIDE DEF e, c, d
<1> QED  BY <1>5, <1>7, <1>9, <1>11, <1>12

\* Queueing nothing changes nothing.
LEMMA SendNothing ==
  ASSUME NEW P, NEW N, NEW r \in Queues(P, N)
  PROVE  pqc_udp_send_all(r, << >>) = r
<1> DEFINE none == {i \in TxSlot : free_before(r, i) < Len(<< >>)}
<1>1. none = {}
  <2>1. \A i \in TxSlot : free_before(r, i) \in Nat
    BY SearchOrder
  <2> QED  BY <2>1
<1>2. Cardinality(none) = 0
  BY <1>1, FS_EmptySet
<1>3. /\ r = [slot |-> r.slot, tail |-> r.tail, count |-> r.count, last |-> r.last]
      /\ r.slot = [i \in TxSlot |-> r.slot[i]] /\ r.count \in Int /\ r.tail \in TxSlot
  BY DEF Queues
<1>4. (r.tail + 0) % PQC_TX_QUEUE_SIZE = r.tail
  BY <1>3, TxQueueAssumption DEF TxSlot
<1>5. pqc_udp_send_all(r, << >>)
        = [slot |-> [i \in TxSlot |-> IF i \in none \ active(r)
                                      THEN << >>[free_before(r, i) + 1] ELSE r.slot[i]],
           tail |-> (r.tail + Cardinality(none)) % PQC_TX_QUEUE_SIZE,
           count |-> r.count + Len(<< >>), last |-> r.last]
  BY Zenon DEF pqc_udp_send_all
<1>6. r.count + Len(<< >>) = r.count
  BY <1>3
<1>7. [i \in TxSlot |-> IF i \in none \ active(r)
                        THEN << >>[free_before(r, i) + 1] ELSE r.slot[i]] = r.slot
  <2> HIDE DEF none
  <2> QED  BY <1>1, <1>3
<1> HIDE DEF none
<1> QED  BY <1>2, <1>3, <1>4, <1>5, <1>6, <1>7

-----------------------------------------------------------------------------
(* The counter under the other operations.                                 *)

\* A single packet, when there is room for it.
LEMMA SendFragmentCounts ==
  ASSUME NEW P, NoPacket \notin P, NEW N, NEW q \in Queues(P, N), CountIsExact(q),
         NEW p \in P, pqc_tx_free_slots(q) > 0
  PROVE  CountIsExact(pqc_udp_send_fragment(q, p))
<1> DEFINE ps == <<p>>
<1>1. ps \in Seq(P) /\ Len(ps) = 1
  OBVIOUS
<1>2. pqc_udp_send_fragment(q, p) = pqc_udp_send_all(q, ps)
  BY DEF pqc_udp_send_fragment
<1>3. 1 <= pqc_tx_free_slots(q)
  BY TxQueueAssumption DEF pqc_tx_free_slots, Queues
<1> HIDE DEF ps
<1>4. CountIsExact(pqc_udp_send_all(q, ps))
  BY <1>1, <1>3, SendAllCounts
<1> QED  BY <1>2, <1>4

\* The counter of an empty queue is exact.
LEMMA InitCounts == CountIsExact(pqc_tx_init)
<1>1. active(pqc_tx_init) = {} /\ pqc_tx_init.count = 0
  BY DEF active, pqc_tx_init
<1> QED  BY <1>1, FS_EmptySet DEF CountIsExact

\* pqc_tx_process counts the packet it sends.
LEMMA ProcessCounts ==
  ASSUME NEW P, NEW N, NEW q \in Queues(P, N), CountIsExact(q), active(q) # {}
  PROVE  CountIsExact(pqc_tx_process(q))
<1> DEFINE i == pqc_tx_select_slot(q)
           r == pqc_tx_process(q)
<1>1. i \in active(q)
  BY SelectSlot
<1>2. r.slot = [q.slot EXCEPT ![i] = NoPacket] /\ r.count = q.count - 1
  BY DEF pqc_tx_process
<1> HIDE DEF i, r
<1>3. active(r) = active(q) \ {i}
  BY <1>1, <1>2 DEF active, Queues
<1>4. IsFiniteSet(active(q)) /\ Cardinality(active(q)) \in Nat
  BY EntriesFinite DEF active
<1>5. Cardinality(active(q) \ {i}) = Cardinality(active(q)) - 1
  BY <1>1, <1>4, FS_RemoveElement
<1> QED  BY <1>2, <1>3, <1>5 DEF CountIsExact, r

\* pqc_tx_clear_entry counts every entry it clears.
LEMMA ClearEntriesCounts ==
  ASSUME NEW P, NEW N, NEW q \in Queues(P, N), CountIsExact(q), NEW S \in SUBSET active(q)
  PROVE  CountIsExact(clear_entries(q, S))
<1> DEFINE r == clear_entries(q, S)
<1>1. /\ r.slot = [i \in TxSlot |-> IF i \in S THEN NoPacket ELSE q.slot[i]]
      /\ r.count = q.count - Cardinality(S)
  BY DEF clear_entries
<1> HIDE DEF r
<1>2. active(r) = active(q) \ S
  BY <1>1 DEF active
<1>3. IsFiniteSet(active(q)) /\ active(q) \cap S = S
  BY EntriesFinite DEF active
<1>4. Cardinality(active(q) \ S) = Cardinality(active(q)) - Cardinality(S)
  BY <1>3, FS_Difference
<1> QED  BY <1>1, <1>2, <1>4 DEF CountIsExact, r

\* pqc_tx_drop and pqc_tx_drop_node keep the counter exact.
LEMMA DropCounts ==
  ASSUME NEW P, NEW N, NEW q \in Queues(P, N), CountIsExact(q), NEW n
  PROVE  /\ CountIsExact(pqc_tx_drop_node(q, n))
         /\ \A kind, id : CountIsExact(pqc_tx_drop(q, n, kind, id))
<1>1. CountIsExact(pqc_tx_drop_node(q, n))
  <2> DEFINE S == {i \in active(q) : q.slot[i].node = n}
  <2>1. S \in SUBSET active(q) /\ pqc_tx_drop_node(q, n) = clear_entries(q, S)
    BY DEF pqc_tx_drop_node
  <2> HIDE DEF S
  <2> QED  BY <2>1, ClearEntriesCounts
<1>2. ASSUME NEW kind, NEW id PROVE CountIsExact(pqc_tx_drop(q, n, kind, id))
  <2> DEFINE S == {i \in active(q) : /\ q.slot[i].node = n /\ q.slot[i].kind = kind
                                     /\ q.slot[i].msg_id = id}
  <2>1. S \in SUBSET active(q) /\ pqc_tx_drop(q, n, kind, id) = clear_entries(q, S)
    BY DEF pqc_tx_drop
  <2> HIDE DEF S
  <2> QED  BY <2>1, ClearEntriesCounts
<1> QED  BY <1>1, <1>2

\* An exact counter that is zero means that nothing is queued: the test that
\* hs_fsm_retry makes before it repeats a message or gives up.
LEMMA NothingPending ==
  ASSUME NEW P, NEW N, NEW q \in Queues(P, N), CountIsExact(q), ~pqc_tx_has_pending(q)
  PROVE  queued(q) = {} /\ active(q) = {} /\ pqc_tx_free_slots(q) = PQC_TX_QUEUE_SIZE
<1>1. IsFiniteSet(active(q)) /\ Cardinality(active(q)) \in Nat
  BY EntriesFinite DEF active
<1>2. q.count = 0 /\ Cardinality(active(q)) = 0
  BY <1>1 DEF CountIsExact, pqc_tx_has_pending
<1>3. active(q) = {}
  BY <1>1, <1>2, FS_EmptySet
<1> QED  BY <1>2, <1>3, TxQueueAssumption DEF queued, pqc_tx_free_slots

\* pqc_tx_free_slots is the number of entries that are free.
LEMMA FreeSlots ==
  ASSUME NEW P, NEW N, NEW q \in Queues(P, N), CountIsExact(q)
  PROVE  pqc_tx_free_slots(q) \in Nat
<1>1. IsFiniteSet(TxSlot) /\ Cardinality(TxSlot) = PQC_TX_QUEUE_SIZE
  BY IntervalSize, TxQueueAssumption DEF TxSlot
<1>2. active(q) \in SUBSET TxSlot
  BY DEF active
<1>3. Cardinality(active(q)) \in Nat /\ Cardinality(active(q)) <= PQC_TX_QUEUE_SIZE
  BY <1>1, <1>2, FS_Subset, EntriesFinite
<1> QED  BY <1>3, TxQueueAssumption DEF CountIsExact, pqc_tx_free_slots
=============================================================================
