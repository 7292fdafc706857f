----------------------------- MODULE OrderProofs -----------------------------
(***************************************************************************)
(* What order and patience of the network buy: EstablishedTogether and     *)
(* KeyAgreement of Handshake.                                              *)
(*                                                                         *)
(* Message ids start again with every session, so an ACK does not say      *)
(* which ciphertext it confirms, and a GETPK not which handshake it        *)
(* begins.  Only order keeps them apart.  The invariant OrderInv follows   *)
(* the packets of one node by kind through queue and channels, in the two  *)
(* phases of a handshake:                                                  *)
(*   Requesting   the node has no ciphertext under way: whatever is left   *)
(*                of earlier ones lies in front of the new requests, and   *)
(*                old answers in front of the new key;                     *)
(*   Confirming   it has: every ciphertext under way is the current one,   *)
(*                and once the root has answered one, no request can       *)
(*                restart the session any more.                            *)
(* It holds whatever is lost or duplicated, however often a message is     *)
(* repeated and however many nodes share the root, as long as InOrder      *)
(* does: packets do not overtake each other, the long timers cover the     *)
(* transfer they wait for, and no node loses its memory.                   *)
(***************************************************************************)
EXTENDS HandshakeProofs

InOrder == ReorderWindow = 1 /\ MaxEarly = 0 /\ MaxNodeReboots = 0

-----------------------------------------------------------------------------
(* Channels, by the kinds of the packets in them.                          *)

Holds(c, kinds) == \E i \in DOMAIN c : c[i].kind \in kinds
NoneAfter(c, first, later) ==
  \A i, j \in DOMAIN c : i < j /\ c[i].kind \in first => c[j].kind \notin later
Current(c, ss) == \A i \in DOMAIN c : c[i].kind = "CT" => c[i].ct = ss

\* The first packet is taken out, or a duplicate of it stays; a packet is put in, or
\* the radio loses it.
Delivers(c, c2) == c \in Seq(Packet) /\ c # << >> /\ (c2 = c \/ c2 = Tail(c))
Sends(c, c2, p) == c \in Seq(Packet) /\ p \in Packet /\ (c2 = c \/ c2 = Append(c, p))

\* An empty channel.
LEMMA EmptyChannel ==
  /\ \A kinds : ~Holds(<< >>, kinds)
  /\ \A first, later : NoneAfter(<< >>, first, later)
BY DEF Holds, NoneAfter

\* The first packet of a channel is taken out, or a duplicate of it stays.
LEMMA PacketTaken ==
  ASSUME NEW c, NEW c2, Delivers(c, c2)
  PROVE  /\ \A kinds : Head(c).kind \in kinds => Holds(c, kinds)
         /\ \A kinds : Holds(c2, kinds) => Holds(c, kinds)
         /\ \A first, later : NoneAfter(c, first, later) => NoneAfter(c2, first, later)
         /\ \A first, later : NoneAfter(c, first, later) /\ Head(c).kind \in first \ later
                                => ~Holds(c2, later)
         /\ \A ss : Current(c, ss) /\ Head(c).kind = "CT" => Head(c).ct = ss
         /\ \A ss : Current(c, ss) => Current(c2, ss)
<1>1. Len(c) \in Nat /\ Len(c) > 0 /\ DOMAIN c = 1 .. Len(c) /\ Head(c) = c[1]
  BY EmptySeq DEF Delivers
<1>2. CASE c2 = c
  <2>1. 1 \in DOMAIN c /\ \A i \in DOMAIN c : i = 1 \/ 1 < i
    BY <1>1
  <2> QED  BY <1>1, <1>2, <2>1 DEF Holds, NoneAfter, Current
<1>3. CASE c2 = Tail(c)
  <2>1. /\ Len(c2) = Len(c) - 1 /\ DOMAIN c2 = 1 .. Len(c) - 1
        /\ \A i \in 1 .. Len(c) - 1 : c2[i] = c[i + 1]
    BY <1>1, <1>3, HeadTailProperties DEF Delivers
  <2>2. 1 \in DOMAIN c /\ \A i \in DOMAIN c2 : i + 1 \in DOMAIN c /\ 1 < i + 1 /\ c2[i] = c[i + 1]
    BY <1>1, <2>1
  <2>3. \A i, j \in DOMAIN c2 : i < j => i + 1 < j + 1
    BY <2>1
  <2>4. /\ \A kinds : Head(c).kind \in kinds => Holds(c, kinds)
        /\ \A kinds : Holds(c2, kinds) => Holds(c, kinds)
    BY <1>1, <2>2 DEF Holds
  <2>5. \A first, later : NoneAfter(c, first, later) => NoneAfter(c2, first, later)
    BY <2>2, <2>3 DEF NoneAfter
  <2>6. \A first, later : NoneAfter(c, first, later) /\ Head(c).kind \in first \ later
                            => ~Holds(c2, later)
    BY <1>1, <2>2 DEF NoneAfter, Holds
  <2>7. /\ \A ss : Current(c, ss) => Current(c2, ss)
        /\ \A ss : Current(c, ss) /\ Head(c).kind = "CT" => Head(c).ct = ss
    BY <1>1, <2>2 DEF Current
  <2> QED  BY <2>4, <2>5, <2>6, <2>7
<1> QED  BY <1>2, <1>3 DEF Delivers

\* A packet is sent, or the radio loses it.
LEMMA PacketSent ==
  ASSUME NEW c, NEW c2, NEW p, Sends(c, c2, p)
  PROVE  /\ \A kinds : Holds(c2, kinds) => Holds(c, kinds) \/ p.kind \in kinds
         /\ \A first, later : NoneAfter(c, first, later) /\ (p.kind \in later => ~Holds(c, first))
                                => NoneAfter(c2, first, later)
         /\ \A ss : Current(c, ss) /\ (p.kind = "CT" => p.ct = ss) => Current(c2, ss)
<1>1. CASE c2 = c
  BY <1>1
<1>2. CASE c2 = Append(c, p)
  <2>1. Len(c) \in Nat /\ DOMAIN c = 1 .. Len(c)
    BY DEF Sends
  <2>2. /\ DOMAIN c2 = 1 .. Len(c) + 1 /\ c2[Len(c) + 1] = p
        /\ \A i \in 1 .. Len(c) : c2[i] = c[i]
    BY <1>2, AppendProperties DEF Sends
  <2>3. \A i \in DOMAIN c2 : (i \in DOMAIN c /\ c2[i] = c[i]) \/ (i = Len(c) + 1 /\ c2[i] = p)
    BY <2>1, <2>2
  <2>4. \A i, j \in DOMAIN c2 : i < j => i \in DOMAIN c /\ c2[i] = c[i]
    BY <2>1, <2>2
  <2>5. \A kinds : Holds(c2, kinds) => Holds(c, kinds) \/ p.kind \in kinds
    BY <2>3 DEF Holds
  <2>6. \A first, later : NoneAfter(c, first, later) /\ (p.kind \in later => ~Holds(c, first))
                            => NoneAfter(c2, first, later)
    BY <2>3, <2>4 DEF NoneAfter, Holds
  <2>7. \A ss : Current(c, ss) /\ (p.kind = "CT" => p.ct = ss) => Current(c2, ss)
    BY <2>3 DEF Current
  <2> QED  BY <2>5, <2>6, <2>7
<1> QED  BY <1>1, <1>2 DEF Sends

\* A channel with no packet of one kind.
LEMMA Without ==
  ASSUME NEW c
  PROVE  /\ \A first, later : ~Holds(c, first) \/ ~Holds(c, later) => NoneAfter(c, first, later)
         /\ \A ss : ~Holds(c, {"CT"}) => Current(c, ss)
         /\ \A some, more : some \subseteq more /\ Holds(c, some) => Holds(c, more)
BY DEF Holds, NoneAfter, Current

-----------------------------------------------------------------------------
(* The invariant.  s is the session of a node, a whether a GETPK waits in  *)
(* its queue, sl whether it has begun to collect a PK, u and d its         *)
(* channels and r its session at the root.                                 *)

Replies == {"ACK", "NACK"}
Asks(q) == \E p \in queued(q) : p.kind = "GETPK"

\* The node has sent, or will send, the ciphertext of the secret it holds.
Confirms(s) == s.state \in {"WAIT_ACK", "ESTABLISHED"}

\* Its timer may run out at any moment: a NACK for the ciphertext has come.
Hasty(s) == s.state = "WAIT_ACK" /\ s.retry_deadline = "short"

\* The root has had a fragment of a ciphertext: what it queues now are replies.
Answers(r) == r.state \in {"ESTABLISHED", "FAILED"} \/ r.pending_msg_type = "CT"

\* Some reply exists, and no request is left that could restart the session.
Heard(s, d, r) == Answers(r) \/ Holds(d, Replies) \/ Hasty(s)
Past(a, u, r)  == r.pending_msg_type # "PK" /\ ~Holds(u, {"GETPK"}) /\ ~a

Confirming(s, a, u, d, r) ==
  /\ Current(u, s.ss)
  /\ NoneAfter(u, {"CT"}, {"GETPK"}) /\ (a => ~Holds(u, {"CT"}))
  /\ NoneAfter(d, Replies, {"PK"}) /\ (Hasty(s) => ~Holds(d, {"PK"}))
  /\ Heard(s, d, r) => Past(a, u, r)
  /\ r.state = "ESTABLISHED" => r.ss = s.ss
  /\ MaxRootReboots = 0 /\ (Holds(d, {"ACK"}) \/ s.state = "ESTABLISHED")
       => r.state = "ESTABLISHED"

Requesting(sl, u, d, r) ==
  /\ NoneAfter(u, {"GETPK"}, {"CT"}) /\ (r.pending_msg_type = "PK" => ~Holds(u, {"CT"}))
  /\ NoneAfter(d, {"PK"}, Replies) /\ (sl => ~Holds(d, Replies))
  /\ Holds(d, {"PK"}) \/ sl => ~Holds(u, {"CT"}) /\ ~Answers(r)

Phase(s, a, sl, u, d, r) ==
  IF Confirms(s) THEN Confirming(s, a, u, d, r) ELSE Requesting(sl, u, d, r)

Order(n) == Phase(ns[n], Asks(nq[n]), nrx[n].owner # Nobody, up[n], down[n], rs[n])

\* What the faults of InOrder leave: nothing.
Calm == faults.early = 0 /\ faults.node = 0 /\ (MaxRootReboots = 0 => faults.root = 0)

OrderInv == Calm /\ \A n \in Node : Order(n)

-----------------------------------------------------------------------------
(* Steps of the node, seen from the phases.                                *)

\* A packet leaves the queue: requests first (pqc_tx_priority_for_msg), and only
\* then the ciphertext of the current secret.
LEMMA ConfirmingSends ==
  ASSUME NEW u, NEW u2, NEW p, Sends(u, u2, p),
         NEW s, NEW a \in BOOLEAN, NEW a2 \in BOOLEAN, NEW d, NEW r, Confirming(s, a, u, d, r),
         a2 => a, p.kind = "GETPK" => a, p.kind = "CT" => ~a /\ p.ct = s.ss
  PROVE  Confirming(s, a2, u2, d, r)
<1>1. /\ \A kinds : Holds(u2, kinds) => Holds(u, kinds) \/ p.kind \in kinds
      /\ \A first, later : NoneAfter(u, first, later) /\ (p.kind \in later => ~Holds(u, first))
                             => NoneAfter(u2, first, later)
      /\ \A ss : Current(u, ss) /\ (p.kind = "CT" => p.ct = ss) => Current(u2, ss)
  BY PacketSent
<1>2. Current(u2, s.ss) /\ NoneAfter(u2, {"CT"}, {"GETPK"}) /\ (a2 => ~Holds(u2, {"CT"}))
  BY <1>1 DEF Confirming
<1>3. Heard(s, d, r) => Past(a2, u2, r)
  BY <1>1 DEF Confirming, Past
<1> QED  BY <1>2, <1>3 DEF Confirming

\* A node that has no ciphertext sends none.
LEMMA RequestingSends ==
  ASSUME NEW u, NEW u2, NEW p, Sends(u, u2, p),
         NEW sl, NEW d, NEW r, Requesting(sl, u, d, r), p.kind # "CT"
  PROVE  Requesting(sl, u2, d, r)
<1>1. /\ Holds(u2, {"CT"}) => Holds(u, {"CT"})
      /\ NoneAfter(u, {"GETPK"}, {"CT"}) => NoneAfter(u2, {"GETPK"}, {"CT"})
  BY PacketSent
<1> QED  BY <1>1 DEF Requesting

\* A packet is taken that leaves the node where it is: a NACK may make it hasty.
LEMMA ConfirmingTakes ==
  ASSUME NEW d, NEW d2, Delivers(d, d2),
         NEW s, NEW s2, NEW a \in BOOLEAN, NEW a2 \in BOOLEAN, NEW u, NEW r,
         Confirming(s, a, u, d, r), s2.state = s.state, s2.ss = s.ss, a2 => a,
         Hasty(s2) => Hasty(s) \/ Head(d).kind = "NACK"
  PROVE  Confirming(s2, a2, u, d2, r)
<1>1. /\ \A kinds : Head(d).kind \in kinds => Holds(d, kinds)
      /\ \A kinds : Holds(d2, kinds) => Holds(d, kinds)
      /\ NoneAfter(d, Replies, {"PK"}) => NoneAfter(d2, Replies, {"PK"})
      /\ NoneAfter(d, Replies, {"PK"}) /\ Head(d).kind \in Replies \ {"PK"} => ~Holds(d2, {"PK"})
  BY PacketTaken
<1>2. NoneAfter(d2, Replies, {"PK"}) /\ (Hasty(s2) => ~Holds(d2, {"PK"}))
  BY <1>1 DEF Confirming, Replies
<1>3. Heard(s2, d2, r) => Past(a2, u, r)
  <2>1. Heard(s2, d2, r) => Heard(s, d, r)
    BY <1>1 DEF Heard, Replies
  <2> QED  BY <2>1 DEF Confirming, Past
<1>4. Holds(d2, {"ACK"}) => Holds(d, {"ACK"})
  BY <1>1
<1> QED  BY <1>2, <1>3, <1>4 DEF Confirming

\* Nothing is taken and the timer is no more impatient than before.
LEMMA ConfirmingStays ==
  ASSUME NEW s, NEW s2, NEW a \in BOOLEAN, NEW a2 \in BOOLEAN, NEW u, NEW d, NEW r,
         Confirming(s, a, u, d, r), s2.state = s.state, s2.ss = s.ss, a2 => a,
         Hasty(s2) => Hasty(s)
  PROVE  Confirming(s2, a2, u, d, r)
BY DEF Confirming, Heard, Past

\* A node without a ciphertext takes a packet: only a PK fragment takes its slot.
LEMMA RequestingTakes ==
  ASSUME NEW d, NEW d2, Delivers(d, d2),
         NEW sl \in BOOLEAN, NEW sl2 \in BOOLEAN, NEW u, NEW r, Requesting(sl, u, d, r),
         sl2 => sl \/ Head(d).kind = "PK"
  PROVE  Requesting(sl2, u, d2, r)
<1>1. /\ \A kinds : Head(d).kind \in kinds => Holds(d, kinds)
      /\ \A kinds : Holds(d2, kinds) => Holds(d, kinds)
      /\ NoneAfter(d, {"PK"}, Replies) => NoneAfter(d2, {"PK"}, Replies)
      /\ NoneAfter(d, {"PK"}, Replies) /\ Head(d).kind \in {"PK"} \ Replies => ~Holds(d2, Replies)
  BY PacketTaken
<1> QED  BY <1>1 DEF Requesting, Replies

\* The same without a packet.
LEMMA RequestingStays ==
  ASSUME NEW sl \in BOOLEAN, NEW sl2 \in BOOLEAN, NEW u, NEW d, NEW r,
         Requesting(sl, u, d, r), sl2 => sl
  PROVE  Requesting(sl2, u, d, r)
BY DEF Requesting

\* The key is complete: behind a PK there is no reply of an earlier handshake, no
\* ciphertext of one under way, and the root waits for a new one.
LEMMA BeginsToConfirm ==
  ASSUME NEW d, NEW d2, Delivers(d, d2),
         NEW sl, NEW s, NEW a \in BOOLEAN, NEW u, NEW r, Requesting(sl, u, d, r),
         Head(d).kind = "PK", s.state = "WAIT_ACK", s.retry_deadline = "long"
  PROVE  Confirming(s, a, u, d2, r)
<1>1. /\ Holds(d, {"PK"}) /\ ~Holds(d2, Replies)
  BY PacketTaken DEF Requesting, Replies
<1>2. ~Holds(u, {"CT"}) /\ ~Answers(r) /\ ~Hasty(s)
  BY <1>1 DEF Requesting, Hasty
<1>3. Current(u, s.ss) /\ NoneAfter(u, {"CT"}, {"GETPK"}) /\ NoneAfter(d2, Replies, {"PK"})
  BY <1>1, <1>2, Without
<1>4. ~Holds(d2, {"ACK"})
  BY <1>1, Without DEF Replies
<1>5. r.state # "ESTABLISHED" /\ s.state # "ESTABLISHED" /\ ~Heard(s, d2, r)
  BY <1>1, <1>2 DEF Answers, Heard
<1> QED  BY <1>2, <1>3, <1>4, <1>5 DEF Confirming

\* The ACK of the pending ciphertext.
LEMMA BecomesEstablished ==
  ASSUME NEW d, NEW d2, Delivers(d, d2),
         NEW s, NEW s2, NEW a \in BOOLEAN, NEW a2 \in BOOLEAN, NEW u, NEW r,
         Confirming(s, a, u, d, r), Head(d).kind = "ACK",
         s2.state = "ESTABLISHED", s2.ss = s.ss, a2 => a
  PROVE  Confirming(s2, a2, u, d2, r)
<1>1. /\ \A kinds : Holds(d2, kinds) => Holds(d, kinds)
      /\ NoneAfter(d, Replies, {"PK"}) => NoneAfter(d2, Replies, {"PK"})
      /\ Holds(d, {"ACK"}) /\ Holds(d, Replies)
  BY PacketTaken DEF Replies
<1>2. ~Hasty(s2)
  BY DEF Hasty
<1>3. Heard(s2, d2, r) => Past(a2, u, r)
  BY <1>1 DEF Heard, Confirming, Past
<1> QED  BY <1>1, <1>2, <1>3 DEF Confirming

\* The handshake is given up, hastily or because nothing is under way any more.
LEMMA GivesUp ==
  ASSUME NEW s, NEW a, NEW u, NEW d, NEW r, Confirming(s, a, u, d, r),
         Hasty(s) \/ (u = << >> /\ d = << >>)
  PROVE  Requesting(FALSE, u, d, r)
<1>1. CASE Hasty(s)
  <2>1. ~Holds(d, {"PK"}) /\ Past(a, u, r)
    BY <1>1 DEF Confirming, Heard
  <2>2. NoneAfter(u, {"GETPK"}, {"CT"}) /\ NoneAfter(d, {"PK"}, Replies)
    BY <2>1, Without DEF Past
  <2> QED  BY <2>1, <2>2 DEF Requesting, Past
<1>2. CASE u = << >> /\ d = << >>
  BY <1>2, EmptyChannel DEF Requesting
<1> QED  BY <1>1, <1>2

-----------------------------------------------------------------------------
(* Steps of the root, seen from the phases.                                *)

\* A session that is no nearer to an answer and no nearer to a request.
Rests(r, r2) ==
  /\ Answers(r2) => Answers(r)
  /\ r2.pending_msg_type = "PK" => r.pending_msg_type = "PK"
  /\ r2.state = "ESTABLISHED" <=> r.state = "ESTABLISHED"
  /\ r.state = "ESTABLISHED" => r2.ss = r.ss

\* The root rests: it is told something that changes nothing, repeats itself, or
\* gives up a handshake that is not established.
LEMMA RootRests ==
  ASSUME NEW u, NEW u2, u2 = u \/ Delivers(u, u2),
         NEW s, NEW a \in BOOLEAN, NEW sl \in BOOLEAN, NEW d, NEW r, NEW r2,
         Phase(s, a, sl, u, d, r), Rests(r, r2)
  PROVE  Phase(s, a, sl, u2, d, r2)
<1>1. /\ \A kinds : Holds(u2, kinds) => Holds(u, kinds)
      /\ \A first, later : NoneAfter(u, first, later) => NoneAfter(u2, first, later)
      /\ \A ss : Current(u, ss) => Current(u2, ss)
  <2>1. CASE u2 = u
    BY <2>1
  <2>2. CASE Delivers(u, u2)
    BY <2>2, PacketTaken
  <2> QED  BY <2>1, <2>2
<1>2. CASE Confirms(s)
  <2>1. Confirming(s, a, u, d, r)
    BY <1>2 DEF Phase
  <2>2. Heard(s, d, r2) => Past(a, u2, r2)
    BY <1>1, <2>1 DEF Confirming, Heard, Past, Rests
  <2>3. Confirming(s, a, u2, d, r2)
    BY <1>1, <2>1, <2>2 DEF Confirming, Rests
  <2> QED  BY <1>2, <2>3 DEF Phase
<1>3. CASE ~Confirms(s)
  <2>1. Requesting(sl, u, d, r)
    BY <1>3 DEF Phase
  <2>2. Requesting(sl, u2, d, r2)
    BY <1>1, <2>1 DEF Requesting, Rests
  <2> QED  BY <1>3, <2>2 DEF Phase
<1> QED  BY <1>2, <1>3

\* A GETPK comes while the node waits for its ACK: it is a late one of the same
\* handshake, no ciphertext was in front of it, and nothing has been answered.
LEMMA RootRestartsSession ==
  ASSUME NEW u, NEW u2, Delivers(u, u2),
         NEW s, NEW a \in BOOLEAN, NEW sl \in BOOLEAN, NEW d, NEW r, NEW r2,
         Phase(s, a, sl, u, d, r), Head(u).kind = "GETPK", ~Answers(r2)
  PROVE  Phase(s, a, sl, u2, d, r2)
<1>1. /\ \A kinds : Head(u).kind \in kinds => Holds(u, kinds)
      /\ \A kinds : Holds(u2, kinds) => Holds(u, kinds)
      /\ \A first, later : NoneAfter(u, first, later) => NoneAfter(u2, first, later)
      /\ NoneAfter(u, {"GETPK"}, {"CT"}) /\ Head(u).kind \in {"GETPK"} \ {"CT"} => ~Holds(u2, {"CT"})
      /\ \A ss : Current(u, ss) => Current(u2, ss)
  BY PacketTaken
<1>2. CASE Confirms(s)
  <2>1. Confirming(s, a, u, d, r) /\ ~Past(a, u, r)
    BY <1>1, <1>2 DEF Phase, Past
  <2>2. ~Heard(s, d, r)
    BY <2>1 DEF Confirming
  <2>3. ~Heard(s, d, r2) /\ r2.state # "ESTABLISHED" /\ r.state # "ESTABLISHED"
    BY <2>2 DEF Heard, Answers
  <2>4. Confirming(s, a, u2, d, r2)
    BY <1>1, <2>1, <2>3 DEF Confirming
  <2> QED  BY <1>2, <2>4 DEF Phase
<1>3. CASE ~Confirms(s)
  BY <1>1, <1>3 DEF Phase, Requesting
<1> QED  BY <1>2, <1>3

\* A fragment of a ciphertext comes while the root waits for one.  When the node
\* waits for the ACK it is the current one, and no request is behind it.
LEMMA RootTakesCt ==
  ASSUME NEW u, NEW u2, Delivers(u, u2),
         NEW s, NEW a \in BOOLEAN, NEW sl \in BOOLEAN, NEW d, NEW r, NEW r2,
         Phase(s, a, sl, u, d, r), Head(u).kind = "CT", r.state # "ESTABLISHED",
         r2.pending_msg_type # "PK", r2.state = "ESTABLISHED" => r2.ss = Head(u).ct
  PROVE  Phase(s, a, sl, u2, d, r2)
<1>1. /\ Holds(u, {"CT"})
      /\ \A kinds : Holds(u2, kinds) => Holds(u, kinds)
      /\ \A first, later : NoneAfter(u, first, later) => NoneAfter(u2, first, later)
      /\ NoneAfter(u, {"CT"}, {"GETPK"}) => ~Holds(u2, {"GETPK"})
      /\ \A ss : Current(u, ss) => Current(u2, ss) /\ Head(u).ct = ss
  BY PacketTaken
<1>2. CASE Confirms(s)
  <2>1. Confirming(s, a, u, d, r)
    BY <1>2 DEF Phase
  <2>2. ~a /\ ~Holds(u2, {"GETPK"}) /\ Current(u2, s.ss) /\ Head(u).ct = s.ss
    BY <1>1, <2>1 DEF Confirming
  <2>3. Past(a, u2, r2)
    BY <2>2 DEF Past
  <2>4. Confirming(s, a, u2, d, r2)
    BY <1>1, <2>1, <2>2, <2>3 DEF Confirming
  <2> QED  BY <1>2, <2>4 DEF Phase
<1>3. CASE ~Confirms(s)
  BY <1>1, <1>3 DEF Phase, Requesting
<1> QED  BY <1>2, <1>3

\* The root sends what belongs to its session: fragments of the PK while that is
\* pending, replies once it has had a ciphertext, an ACK when it is established.
LEMMA RootSends ==
  ASSUME NEW d, NEW d2, NEW p, Sends(d, d2, p),
         NEW s, NEW a \in BOOLEAN, NEW sl \in BOOLEAN, NEW u, NEW r,
         Phase(s, a, sl, u, d, r),
         \/ p.kind = "PK" /\ r.pending_msg_type = "PK" /\ ~Answers(r)
         \/ p.kind = "NACK" /\ Answers(r)
         \/ p.kind = "ACK" /\ r.state = "ESTABLISHED"
  PROVE  Phase(s, a, sl, u, d2, r)
<1>1. /\ \A kinds : Holds(d2, kinds) => Holds(d, kinds) \/ p.kind \in kinds
      /\ \A first, later : NoneAfter(d, first, later) /\ (p.kind \in later => ~Holds(d, first))
                             => NoneAfter(d2, first, later)
  BY PacketSent
<1>2. Answers(r) \/ (p.kind = "PK" /\ r.pending_msg_type = "PK" /\ ~Answers(r))
  BY DEF Answers
<1>3. p.kind \in Replies => Answers(r)
  BY DEF Answers, Replies
<1>4. CASE Confirms(s)
  <2>1. Confirming(s, a, u, d, r)
    BY <1>4 DEF Phase
  <2>2. p.kind = "PK" => ~Past(a, u, r) /\ ~Heard(s, d, r)
    BY <2>1 DEF Confirming, Past, Answers
  <2>3. p.kind = "PK" => ~Holds(d, Replies) /\ ~Hasty(s)
    BY <2>2 DEF Heard
  <2>4. NoneAfter(d2, Replies, {"PK"}) /\ (Hasty(s) => ~Holds(d2, {"PK"}))
    BY <1>1, <2>1, <2>3 DEF Confirming
  <2>5. Heard(s, d2, r) => Past(a, u, r)
    BY <1>1, <1>3, <2>1 DEF Confirming, Heard
  <2>6. Holds(d2, {"ACK"}) => Holds(d, {"ACK"}) \/ r.state = "ESTABLISHED"
    BY <1>1
  <2>7. Confirming(s, a, u, d2, r)
    BY <2>1, <2>4, <2>5, <2>6 DEF Confirming
  <2> QED  BY <1>4, <2>7 DEF Phase
<1>5. CASE ~Confirms(s)
  <2>1. Requesting(sl, u, d, r)
    BY <1>5 DEF Phase
  <2>2. p.kind \in Replies => ~Holds(d, {"PK"}) /\ ~sl
    BY <1>3, <2>1 DEF Requesting
  <2>3. NoneAfter(d2, {"PK"}, Replies) /\ (sl => ~Holds(d2, Replies))
    BY <1>1, <2>1, <2>2 DEF Requesting
  <2>4. Holds(d2, {"PK"}) \/ sl => ~Holds(u, {"CT"}) /\ ~Answers(r)
    BY <1>1, <2>1 DEF Requesting
  <2>5. Requesting(sl, u, d2, r)
    BY <2>1, <2>3, <2>4 DEF Requesting
  <2> QED  BY <1>5, <2>5 DEF Phase
<1> QED  BY <1>4, <1>5

\* The root restarts: it has answered nobody and asks for nothing.
LEMMA RootForgets ==
  ASSUME NEW s, NEW a \in BOOLEAN, NEW sl \in BOOLEAN, NEW u, NEW d, NEW r, NEW r2,
         Phase(s, a, sl, u, d, r), MaxRootReboots # 0,
         r2.state = "UNUSED", r2.pending_msg_type = "NONE"
  PROVE  Phase(s, a, sl, u, d, r2)
<1>1. ~Answers(r2)
  BY DEF Answers
<1>2. Heard(s, d, r2) => Heard(s, d, r)
  BY <1>1 DEF Heard
<1>3. CASE Confirms(s)
  <2>1. Confirming(s, a, u, d, r)
    BY <1>3 DEF Phase
  <2>2. Heard(s, d, r2) => Past(a, u, r2)
    BY <1>2, <2>1 DEF Confirming, Past
  <2> QED  BY <1>3, <2>1, <2>2 DEF Confirming, Phase
<1>4. CASE ~Confirms(s)
  BY <1>1, <1>4 DEF Phase, Requesting
<1> QED  BY <1>3, <1>4

-----------------------------------------------------------------------------
(* What a handler of the node does to its phase.                           *)

\* The timer fields that the invariants of the other modules do not look at.
LEMMA TimersSet ==
  ASSUME NEW s \in Session
  PROVE  /\ \A d \in Deadlines : retry_in(s, d).retry_deadline = d
         /\ hs_mark_retry(s).retry_deadline = "long"
         /\ \A type, id : session_set_pending(s, type, id).retry_deadline = "long"
BY Zenon DEF Session, retry_in, hs_mark_retry, session_set_pending

\* Only what is queued counts: packets of another kind do not make a request.
LEMMA AsksNoMore ==
  ASSUME NEW q, NEW q2, NEW P, queued(q2) \subseteq queued(q) \cup P, \A p \in P : p.kind # "GETPK"
  PROVE  Asks(q2) => Asks(q)
BY DEF Asks

\* Fragments of a ciphertext and reports are no requests.
LEMMA CtFragmentKind ==
  ASSUME NEW n, NEW id, NEW fs, NEW ct
  PROVE  \A k \in DOMAIN ct_fragments(n, id, fs, ct) : ct_fragments(n, id, fs, ct)[k].kind = "CT"
<1>1. \A f : CT(n, id, f, ct).kind = "CT"
  BY DEF CT
<1> QED  BY <1>1, Zenon DEF ct_fragments

LEMMA ReportKind ==
  ASSUME NEW n, NEW q
  PROVE  \A k \in DOMAIN reports(n, q) : reports(n, q)[k].kind = "METRICS"
<1>1. \A g : METRICS(n, g).kind = "METRICS"
  BY DEF METRICS
<1> QED  BY <1>1, Zenon DEF reports

\* A ciphertext is queued.
LEMMA CtQueued ==
  ASSUME NEW n \in Node, NEW q \in Queues(Mine(n), Node), NEW id \in MsgId,
         NEW fs \in SUBSET FragIdx("CT"), NEW ct \in Secret
  PROVE  Asks(pqc_udp_send_all(q, ct_fragments(n, id, fs, ct))) => Asks(q)
<1> DEFINE ps == ct_fragments(n, id, fs, ct)
           P  == {ps[k] : k \in 1 .. Len(ps)}
<1>1. ps \in Seq(Mine(n))
  BY CtFragmentsFit
<1>2. \A k \in DOMAIN ps : ps[k].kind = "CT"
  BY CtFragmentKind, Zenon
<1> HIDE DEF ps
<1>3. \A p \in P : p.kind # "GETPK"
  BY <1>1, <1>2
<1>4. queued(pqc_udp_send_all(q, ps)) \subseteq queued(q) \cup P
  BY <1>1, SendAllQueue
<1> HIDE DEF P
<1>5. Asks(pqc_udp_send_all(q, ps)) => Asks(q)
  BY <1>3, <1>4, AsksNoMore
<1> QED  BY <1>5 DEF ps

\* The end of udp_rx_callback leaves state, secret and requests.
LEMMA RxTurn ==
  ASSUME NodeTypeOK, NodeSafe, NEW n \in Node, NodeOrigin(n), NEW s \in Session,
         node_rx_done(n, s, nq[n])
  PROVE  /\ ns'[n].state = s.state /\ ns'[n].ss = s.ss /\ (Hasty(ns'[n]) => Hasty(s))
         /\ Asks(nq'[n]) => Asks(nq[n])
<1> DEFINE q     == nq[n]
           sends == session_is_established(s) /\ (~session_is_established(ns[n]) \/ metrics_pending[n])
           rep   == reports(n, q)
           s2    == session_next_msg_ids(s, Len(rep))
           q2    == pqc_udp_send_all(q, rep)
           P     == {rep[k] : k \in 1 .. Len(rep)}
<1>1. pqc_tx_free_slots(q) \in Nat /\ q \in Queues(Mine(n), Node)
  BY NodeFacts DEF NodeOrigin
<1>2. /\ ns' = [ns EXCEPT ![n] = IF sends THEN s2 ELSE s]
      /\ nq' = [nq EXCEPT ![n] = IF sends THEN q2 ELSE q]
      /\ sends => s.state = "ESTABLISHED"
  BY DEF node_rx_done, session_is_established
<1>3. /\ ns'[n] = (IF sends THEN s2 ELSE s) /\ nq'[n] = (IF sends THEN q2 ELSE q)
  BY <1>2 DEF NodeTypeOK
<1> HIDE DEF q, sends
<1>4. rep \in Seq(Mine(n)) /\ Len(rep) \in Nat /\ \A k \in DOMAIN rep : rep[k].kind = "METRICS"
  <2>1. rep \in Seq(Mine(n))
    BY <1>1, ReportsFit DEF q
  <2>2. \A k \in DOMAIN rep : rep[k].kind = "METRICS"
    BY ReportKind, Zenon
  <2> HIDE DEF rep
  <2> QED  BY <2>1, <2>2
<1> HIDE DEF rep
<1>5. queued(q2) \subseteq queued(q) \cup P /\ \A p \in P : p.kind # "GETPK"
  BY <1>1, <1>4, SendAllQueue
<1> HIDE DEF P
<1>6. Asks(q2) => Asks(q)
  BY <1>5, AsksNoMore
<1>7. s2.state = s.state /\ s2.ss = s.ss
  BY <1>4, NextMsgIds
<1> HIDE DEF s2, q2
<1>8. Hasty(ns'[n]) => Hasty(s)
  BY <1>2, <1>3, <1>7 DEF Hasty
<1> QED  BY <1>3, <1>6, <1>7, <1>8 DEF q

\* A step of the node that takes a packet of this kind, or none ("NONE").
Turns(n, kind) ==
  \/ /\ Confirms(ns[n]) /\ ns'[n].state = ns[n].state /\ ns'[n].ss = ns[n].ss
     /\ Asks(nq'[n]) => Asks(nq[n])
     /\ Hasty(ns'[n]) => Hasty(ns[n]) \/ kind = "NACK"
  \/ /\ ~Confirms(ns[n]) /\ ~Confirms(ns'[n])
     /\ nrx'[n].owner # Nobody => nrx[n].owner # Nobody \/ kind = "PK"
  \/ /\ kind = "PK" /\ ~Confirms(ns[n])
     /\ ns'[n].state = "WAIT_ACK" /\ ns'[n].retry_deadline = "long"
  \/ /\ kind = "ACK" /\ Confirms(ns[n]) /\ ns'[n].state = "ESTABLISHED" /\ ns'[n].ss = ns[n].ss
     /\ Asks(nq'[n]) => Asks(nq[n])

\* A packet that is refused.
LEMMA RecvIgnoredTurns ==
  ASSUME NodeTypeOK, NodeSafe, NEW n \in Node, NodeOrigin(n), NEW p, NodeRecvIgnored(n, p)
  PROVE  Turns(n, p.kind)
<1> DEFINE s == ns[n]
<1>1. node_rx_done(n, s, nq[n]) /\ UNCHANGED nrx /\ s \in Session
  BY NodeFacts DEF NodeRecvIgnored
<1> HIDE DEF s
<1>2. /\ ns'[n].state = s.state /\ ns'[n].ss = s.ss /\ (Hasty(ns'[n]) => Hasty(s))
      /\ Asks(nq'[n]) => Asks(nq[n])
  BY <1>1, RxTurn
<1> QED  BY <1>1, <1>2 DEF Turns, Confirms, s

\* A NACK for the pending ciphertext is served, or soon will be.
LEMMA RecvNackTurns ==
  ASSUME NodeTypeOK, NodeSafe, NEW n \in Node, NodeOrigin(n), NEW p \in Fitting, NodeRecvNack(n, p)
  PROVE  Turns(n, p.kind)
<1> DEFINE s  == ns[n]
           q  == nq[n]
           id == p.missing_msg_id
           fs == p.missing
           ct == node_ct[n]
           q2 == pqc_udp_send_all(q, ct_fragments(n, id, fs, ct))
           s1 == retry_in(s, "short")
           s2 == retry_in(s, "long")
<1>1. /\ p.kind = "NACK" /\ s.pending_msg_type = "CT" /\ p.missing_msg_type = "CT"
      /\ node_rx_done(n, s1, q) \/ node_rx_done(n, s2, q2)
  BY DEF NodeRecvNack
<1>2. id \in MsgId /\ fs \in SUBSET FragIdx("CT")
  BY <1>1 DEF Fitting, Fits, Packet
<1>3. s.state = "WAIT_ACK" /\ ct \in Secret /\ s \in Session /\ q \in Queues(Mine(n), Node)
  BY <1>1, NodeFacts DEF node_armed, NodeOrigin
<1>4. /\ s1.state = s.state /\ s1.ss = s.ss /\ s2.state = s.state /\ s2.ss = s.ss
  BY <1>3, RetryIn DEF Deadlines
<1> HIDE DEF id, fs, ct
<1>5. Asks(q2) => Asks(q)
  BY <1>2, <1>3, CtQueued
<1> HIDE DEF s1, s2, q2
<1>6. (ns'[n] = s1 /\ nq'[n] = q) \/ (ns'[n] = s2 /\ nq'[n] = q2)
  <2>1. s1.state # "ESTABLISHED" /\ s2.state # "ESTABLISHED"
    BY <1>3, <1>4
  <2> HIDE DEF q
  <2>2. \/ ns' = [ns EXCEPT ![n] = s1] /\ nq' = [nq EXCEPT ![n] = q]
        \/ ns' = [ns EXCEPT ![n] = s2] /\ nq' = [nq EXCEPT ![n] = q2]
    BY <1>1, <2>1, RxSilent
  <2> QED  BY <2>2 DEF NodeTypeOK
<1> QED  BY <1>1, <1>3, <1>4, <1>5, <1>6 DEF Turns, Confirms

\* Fragments of the PK are collected.
LEMMA RecvPkPartTurns ==
  ASSUME NodeTypeOK, NodeSafe, NEW n \in Node, NEW p, NodeRecvPkPart(n, p)
  PROVE  Turns(n, p.kind)
<1> DEFINE slot == slot_after(nrx[n], n, "PK", p.msg_id, p.frag, root_pk)
           s0   == ns[n]
           q0   == nq[n]
           s1   == session_next_msg_id(s0)
           s2   == retry_in(s1, "short")
           q2   == pqc_udp_send_fragment(nq[n], NACK(n, "PK", slot.ctx.msg_id, missing(slot.ctx)))
<1>1. /\ p.kind = "PK" /\ ns[n].state = "WAIT_PK"
      /\ node_rx_done(n, s2, q2) \/ node_rx_done(n, s0, q0)
  BY DEF NodeRecvPkPart
<1>2. s2.state = "WAIT_PK"
  <2>1. s1 \in Session /\ s1.state = "WAIT_PK"
    BY <1>1, NodeFacts, NextMsgId
  <2> HIDE DEF s1
  <2> QED  BY <2>1, RetryIn DEF Deadlines
<1> HIDE DEF s2, q2
<1>3. s0.state = "WAIT_PK"
  BY <1>1
<1> HIDE DEF s0, q0
<1>4. ns' = [ns EXCEPT ![n] = s2] \/ ns' = [ns EXCEPT ![n] = s0]
  BY <1>1, <1>2, <1>3, RxSilent
<1>5. ns'[n].state = "WAIT_PK"
  BY <1>2, <1>3, <1>4 DEF NodeTypeOK
<1> QED  BY <1>1, <1>5 DEF Turns, Confirms

\* The PK is complete: the node waits for the ACK of its ciphertext, or has failed.
LEMMA RecvPkCompleteTurns ==
  ASSUME NodeTypeOK, NodeSafe, NEW n \in Node, NodeOrigin(n), NEW p \in Packet,
         NodeRecvPkComplete(n, p)
  PROVE  Turns(n, p.kind)
<1> DEFINE slot == slot_after(nrx[n], n, "PK", p.msg_id, p.frag, root_pk)
           ct   == prng[n] + 1
           s    == [ns[n] EXCEPT !.ss = ct]
           id   == s.next_msg_id
           s1   == session_clear_pending(s)
           s2   == session_next_msg_id(s1)
           s3   == session_set_state(s2, "WAIT_ACK")
           s4   == session_set_pending(s3, "CT", id)
           sf   == session_set_failed(s)
           q0   == nq[n]
           q2   == pqc_udp_send_all(nq[n], ct_fragments(n, id, FragIdx("CT"), ct))
<1>1. /\ p.kind = "PK" /\ ns[n].state = "WAIT_PK" /\ nrx' = [nrx EXCEPT ![n] = FreeSlot(Nobody)]
      /\ node_rx_done(n, sf, q0) \/ node_rx_done(n, s4, q2)
  BY DEF NodeRecvPkComplete
<1>2. ct \in Secret
  BY NodeFacts DEF Secret
<1> HIDE DEF slot, ct
<1>3. s \in Session
  BY <1>2, NodeFacts, SetSecret
<1> HIDE DEF s
<1>4. sf.state = "FAILED"
  BY <1>3, SetFailed
<1>5. s4.state = "WAIT_ACK" /\ s4.retry_deadline = "long"
  <2>1. s1 \in Session
    BY <1>3, ClearPending
  <2> HIDE DEF s1
  <2>2. s2 \in Session
    BY <2>1, NextMsgId
  <2> HIDE DEF s2
  <2>3. s3 \in Session /\ s3.state = "WAIT_ACK"
    BY <2>2, SetState DEF States
  <2>4. id \in MsgId
    BY <1>3 DEF Session
  <2> HIDE DEF s3, id
  <2>5. s4.state = "WAIT_ACK"
    BY <2>3, <2>4, PendingCt
  <2>6. s4.retry_deadline = "long"
    BY <2>3, TimersSet
  <2> QED  BY <2>5, <2>6
<1> HIDE DEF sf, s4, q2, q0
<1>6. ns' = [ns EXCEPT ![n] = sf] \/ ns' = [ns EXCEPT ![n] = s4]
  <2>1. sf.state # "ESTABLISHED" /\ s4.state # "ESTABLISHED"
    BY <1>4, <1>5
  <2> QED  BY <1>1, <2>1, RxSilent
<1>7. ns'[n] = sf \/ ns'[n] = s4
  BY <1>6 DEF NodeTypeOK
<1>8. nrx'[n].owner = Nobody
  BY <1>1, FreedSlotGood
<1> QED  BY <1>1, <1>4, <1>5, <1>7, <1>8 DEF Turns, Confirms

\* An ACK confirms the ciphertext, or changes nothing.
LEMMA RecvAckTurns ==
  ASSUME NodeTypeOK, NodeSafe, NEW n \in Node, NodeOrigin(n), NEW p, NodeRecvAck(n, p)
  PROVE  Turns(n, p.kind)
<1> DEFINE s0 == ns[n]
           s1 == session_set_established(s0)
<1>1. /\ p.kind = "ACK" /\ s0.state = "WAIT_ACK"
      /\ node_rx_done(n, s0, nq[n]) \/ node_rx_done(n, s1, nq[n])
  BY DEF NodeRecvAck
<1>2. s0 \in Session /\ s1 \in Session /\ s1.state = "ESTABLISHED" /\ s1.ss = s0.ss
  BY NodeFacts, SetEstablished
<1> HIDE DEF s0, s1
<1>3. CASE node_rx_done(n, s0, nq[n])
  <2>1. /\ ns'[n].state = s0.state /\ ns'[n].ss = s0.ss /\ (Hasty(ns'[n]) => Hasty(s0))
        /\ Asks(nq'[n]) => Asks(nq[n])
    BY <1>2, <1>3, RxTurn
  <2> QED  BY <1>1, <2>1 DEF Turns, Confirms, s0
<1>4. CASE node_rx_done(n, s1, nq[n])
  <2>1. /\ ns'[n].state = s1.state /\ ns'[n].ss = s1.ss
        /\ Asks(nq'[n]) => Asks(nq[n])
    BY <1>2, <1>4, RxTurn
  <2> QED  BY <1>1, <1>2, <2>1 DEF Turns, Confirms, s0
<1> QED  BY <1>1, <1>3, <1>4

\* Without early timers: a long deadline passes when nothing is under way.
LEMMA TimerPasses ==
  ASSUME Calm, NEW n, NEW s, session_retry_due(s, n)
  PROVE  (s.retry_deadline = "short" \/ Quiescent(n)) /\ UNCHANGED faults
<1>1. ~(faults.early > 0)
  BY DEF Calm
<1> QED  BY <1>1 DEF session_retry_due, long_timeout

\* A retry is put off only when the queue still holds something: the deadline
\* that passed was a short one.
LEMMA PostponedTurns ==
  ASSUME NodeTypeOK, NodeSafe, NEW n \in Node, Calm, session_retry_due(ns[n], n),
         NodeRetryPostponed(n)
  PROVE  Turns(n, "NONE")
<1> DEFINE s == retry_in(ns[n], "short")
<1>1. ns' = [ns EXCEPT ![n] = s] /\ UNCHANGED <<nrx, nq>> /\ pqc_tx_has_pending(nq[n])
  BY DEF NodeRetryPostponed
<1>2. s.state = ns[n].state /\ s.ss = ns[n].ss
  BY NodeFacts, RetryIn DEF Deadlines
<1> HIDE DEF s
<1>3. ns'[n] = s
  BY <1>1 DEF NodeTypeOK
<1>4. ns[n].retry_deadline = "short"
  BY <1>1, TimerPasses DEF Quiescent
<1>5. Hasty(ns'[n]) => Hasty(ns[n])
  BY <1>2, <1>3, <1>4 DEF Hasty
<1> QED  BY <1>1, <1>2, <1>3, <1>5 DEF Turns, Confirms

\* The pending message is repeated: the ciphertext adds no request, and a request is
\* one of a node that has no ciphertext.
LEMMA RetrySendTurns ==
  ASSUME NodeTypeOK, NodeSafe, NEW n \in Node, NodeOrigin(n), NodeRetrySend(n)
  PROVE  Turns(n, "NONE")
<1> DEFINE s  == hs_mark_retry(ns[n])
           ct == node_ct[n]
           id == ns[n].pending_msg_id
           fs == FragIdx("CT")
           q1 == pqc_udp_send_fragment(nq[n], GETPK(n))
           q2 == pqc_udp_send_all(nq[n], ct_fragments(n, id, fs, ct))
<1>1. /\ ns' = [ns EXCEPT ![n] = s] /\ nrx' = [nrx EXCEPT ![n] = FreeSlot(Nobody)]
      /\ session_can_retry(ns[n])
      /\ \/ ns[n].pending_msg_type = "GETPK" /\ nq' = [nq EXCEPT ![n] = q1]
         \/ ns[n].pending_msg_type = "CT" /\ nq' = [nq EXCEPT ![n] = q2]
  BY DEF NodeRetrySend
<1>2. s.state = ns[n].state /\ s.ss = ns[n].ss
  BY <1>1, NodeFacts, MarkRetry
<1>3. s.retry_deadline = "long"
  BY NodeFacts, TimersSet
<1> HIDE DEF s
<1>4. ct \in Secret /\ id \in MsgId /\ fs \in SUBSET FragIdx("CT") /\ nq[n] \in Queues(Mine(n), Node)
  BY NodeFacts DEF Session, NodeOrigin
<1> HIDE DEF ct, id, fs
<1>5. Asks(q2) => Asks(nq[n])
  BY <1>4, CtQueued
<1> HIDE DEF q1, q2
<1>6. ns'[n] = s /\ nrx'[n].owner = Nobody
  BY <1>1, FreedSlotGood DEF NodeTypeOK
<1>7. CASE ns[n].pending_msg_type = "GETPK"
  <2>1. ns[n].state = "WAIT_PK"
    BY <1>7, NodeFacts DEF node_armed
  <2> QED  BY <1>2, <1>6, <2>1 DEF Turns, Confirms
<1>8. CASE ns[n].pending_msg_type = "CT" /\ nq' = [nq EXCEPT ![n] = q2]
  <2>1. ns[n].state = "WAIT_ACK" /\ nq'[n] = q2
    BY <1>8, NodeFacts DEF node_armed, NodeTypeOK
  <2>2. ~Hasty(ns'[n])
    BY <1>3, <1>6 DEF Hasty
  <2> QED  BY <1>2, <1>5, <1>6, <2>1, <2>2 DEF Turns, Confirms
<1> QED  BY <1>1, <1>7, <1>8

\* A node that gives up.
Resigns(n) ==
  /\ Confirms(ns[n]) /\ ~Confirms(ns'[n]) /\ nrx'[n].owner = Nobody
  /\ Hasty(ns[n]) \/ (up[n] = << >> /\ down[n] = << >>)

LEMMA ExhaustedTurns ==
  ASSUME NodeTypeOK, NodeSafe, NEW n \in Node, Calm, ~session_is_established(ns[n]),
         session_retry_due(ns[n], n), NodeRetryExhausted(n)
  PROVE  Turns(n, "NONE") \/ Resigns(n)
<1>1. ns' = [ns EXCEPT ![n] = session_init] /\ nrx' = [nrx EXCEPT ![n] = FreeSlot(Nobody)]
  BY InitSession DEF NodeRetryExhausted, node_fail_reset
<1>2. ns'[n].state = "IDLE" /\ nrx'[n].owner = Nobody
  <2>1. ns'[n] = session_init
    BY <1>1 DEF NodeTypeOK
  <2> QED  BY <1>1, <2>1, InitSession, FreedSlotGood
<1>3. CASE Confirms(ns[n])
  <2>1. ns[n].state = "WAIT_ACK"
    BY <1>3, NodeFacts DEF Confirms, session_is_established, node_armed, armed
  <2>2. Hasty(ns[n]) \/ (up[n] = << >> /\ down[n] = << >>)
    BY <2>1, TimerPasses DEF Hasty, Quiescent
  <2> QED  BY <1>2, <1>3, <2>2 DEF Resigns, Confirms
<1>4. CASE ~Confirms(ns[n])
  BY <1>2, <1>4 DEF Turns, Confirms
<1> QED  BY <1>3, <1>4

\* The steps that leave the channels alone.
LEMMA QuietTurns ==
  ASSUME NodeTypeOK, NodeSafe, NEW n \in Node, NodeOrigin(n),
         NodeRequestPk(n) \/ NodeFailReset(n) \/ NodeRxTimeout(n)
  PROVE  Turns(n, "NONE")
<1>1. CASE NodeRequestPk(n)
  <2>1. nrx' = nrx /\ ns[n].state = "IDLE" /\ NodeEffect(n)
    BY <1>1, RequestPkEffect DEF NodeRequestPk
  <2>2. ns'[n].state \in {"IDLE", "WAIT_PK"}
    BY <2>1 DEF NodeEffect, NodeChange, NodeStays, NodeBegins, NodeEncapsulates, NodeConfirmed,
       NodeResets
  <2> QED  BY <2>1, <2>2 DEF Turns, Confirms
<1>2. CASE NodeFailReset(n)
  <2>1. nrx' = nrx /\ ns[n].state = "FAILED" /\ NodeEffect(n)
    BY <1>2, GiveUpEffect DEF NodeFailReset, session_is_failed
  <2>2. ns'[n].state \in {"IDLE", "FAILED"}
    BY <2>1 DEF NodeEffect, NodeChange, NodeStays, NodeBegins, NodeEncapsulates, NodeConfirmed,
       NodeResets
  <2> QED  BY <2>1, <2>2 DEF Turns, Confirms
<1>3. CASE NodeRxTimeout(n)
  <2>1. ns' = ns /\ nq' = nq /\ nrx' = [nrx EXCEPT ![n] = FreeSlot(Nobody)]
    BY <1>3 DEF NodeRxTimeout
  <2>2. nrx'[n].owner = Nobody
    BY <2>1, FreedSlotGood
  <2> QED  BY <2>1, <2>2 DEF Turns, Confirms
<1> QED  BY <1>1, <1>2, <1>3

-----------------------------------------------------------------------------
(* Steps of a node.                                                        *)

\* Channels in order: the first packet is delivered.
LEMMA FirstRemoved ==
  ASSUME NEW S, NEW c \in Seq(S), c # << >>
  PROVE  RemoveAt(c, 1) = Tail(c)
<1>1. Len(c) \in Nat /\ Len(c) > 0
  BY EmptySeq
<1>2. SubSeq(c, 1, 0) = << >> /\ SubSeq(c, 2, Len(c)) = Tail(c)
  BY <1>1, SubSeqEmpty, TailIsSubSeq
<1>3. Tail(c) \in Seq(S)
  BY <1>1, HeadTailProperties
<1>4. RemoveAt(c, 1) = << >> \o Tail(c)
  BY <1>1, <1>2 DEF RemoveAt
<1> QED  BY <1>3, <1>4, ConcatEmptySeq

LEMMA DeliversFirst ==
  ASSUME ReorderWindow = 1, NEW chan \in [Node -> Seq(Packet)], NEW chan2, NEW n \in Node,
         NEW i \in DOMAIN chan[n], i <= ReorderWindow,
         chan2 = [chan EXCEPT ![n] = RemoveAt(@, i)] \/ chan2 = chan
  PROVE  /\ Delivers(chan[n], chan2[n]) /\ chan[n][i] = Head(chan[n])
         /\ \A m \in Node \ {n} : chan2[m] = chan[m]
<1> DEFINE c == chan[n]
<1>1. DOMAIN c = 1 .. Len(c) /\ Len(c) \in Nat /\ c \in Seq(Packet)
  OBVIOUS
<1>2. i \in 1 .. Len(c) /\ i <= 1
  BY <1>1
<1>3. chan2[n] = RemoveAt(c, i) \/ chan2[n] = c
  OBVIOUS
<1>4. \A m \in Node \ {n} : chan2[m] = chan[m]
  OBVIOUS
<1> HIDE DEF c
<1>5. i = 1 /\ Len(c) > 0
  BY <1>1, <1>2
<1>6. c # << >> /\ c[i] = Head(c)
  BY <1>1, <1>5
<1>7. RemoveAt(c, i) = Tail(c)
  BY <1>1, <1>5, <1>6, FirstRemoved
<1> QED  BY <1>1, <1>3, <1>4, <1>6, <1>7 DEF c, Delivers

\* The faults a step may use leave it as calm as it was.
LEMMA CalmKept ==
  ASSUME Calm, faults \in Faults,
         \/ UNCHANGED faults
         \/ faults' = [faults EXCEPT !.loss = @ - 1]
         \/ faults' = [faults EXCEPT !.dup = @ - 1]
         \/ faults.early > 0 \/ faults.node > 0
         \/ faults.root > 0 /\ faults' = [faults EXCEPT !.root = @ - 1]
  PROVE  Calm'
<1>1. ~(faults.early > 0) /\ ~(faults.node > 0) /\ (MaxRootReboots = 0 => ~(faults.root > 0))
  BY DEF Calm
<1>2. CASE faults' = faults
  BY <1>2 DEF Calm
<1>3. CASE faults' = [faults EXCEPT !.loss = @ - 1] \/ faults' = [faults EXCEPT !.dup = @ - 1]
  <2>1. faults'.early = faults.early /\ faults'.node = faults.node /\ faults'.root = faults.root
    BY <1>3, Zenon DEF Faults
  <2> QED  BY <2>1 DEF Calm
<1>4. CASE faults.root > 0 /\ faults' = [faults EXCEPT !.root = @ - 1]
  <2>1. faults'.early = faults.early /\ faults'.node = faults.node
    BY <1>4, Zenon DEF Faults
  <2> QED  BY <1>1, <1>4, <2>1 DEF Calm
<1> QED  BY <1>1, <1>2, <1>3, <1>4

\* A step of a node that takes no packet.
LEMMA OrderStays ==
  ASSUME NEW n \in Node, Order(n), Turns(n, "NONE"),
         up'[n] = up[n], down'[n] = down[n], rs'[n] = rs[n]
  PROVE  Order(n)'
<1> DEFINE s  == ns[n]
           s2 == ns'[n]
           a  == Asks(nq[n])
           a2 == Asks(nq'[n])
           sl == nrx[n].owner # Nobody
           sl2 == nrx'[n].owner # Nobody
           u  == up[n]
           d  == down[n]
           r  == rs[n]
<1>1. a \in BOOLEAN /\ a2 \in BOOLEAN /\ sl \in BOOLEAN /\ sl2 \in BOOLEAN
  BY DEF Asks
<1>2. Phase(s, a, sl, u, d, r) /\ (Order(n)' <=> Phase(s2, a2, sl2, u, d, r))
  BY DEF Order
<1>3. \/ /\ Confirms(s) /\ s2.state = s.state /\ s2.ss = s.ss /\ (a2 => a)
         /\ Hasty(s2) => Hasty(s)
      \/ ~Confirms(s) /\ ~Confirms(s2) /\ (sl2 => sl)
  BY DEF Turns
<1> HIDE DEF s, s2, a, a2, sl, sl2, u, d, r
<1>4. CASE Confirms(s) /\ s2.state = s.state /\ s2.ss = s.ss /\ (a2 => a) /\ (Hasty(s2) => Hasty(s))
  <2>1. Confirming(s, a, u, d, r) /\ Confirms(s2)
    BY <1>2, <1>4 DEF Phase, Confirms
  <2>2. Confirming(s2, a2, u, d, r)
    BY <1>1, <1>4, <2>1, ConfirmingStays
  <2> QED  BY <1>2, <2>1, <2>2 DEF Phase
<1>5. CASE ~Confirms(s) /\ ~Confirms(s2) /\ (sl2 => sl)
  <2>1. Requesting(sl, u, d, r)
    BY <1>2, <1>5 DEF Phase
  <2>2. Requesting(sl2, u, d, r)
    BY <1>1, <1>5, <2>1, RequestingStays
  <2> QED  BY <1>2, <1>5, <2>2 DEF Phase
<1> QED  BY <1>3, <1>4, <1>5

\* A step of a node that takes the first packet of its channel.
LEMMA OrderTakes ==
  ASSUME NEW n \in Node, Order(n), Delivers(down[n], down'[n]),
         Turns(n, Head(down[n]).kind), up'[n] = up[n], rs'[n] = rs[n]
  PROVE  Order(n)'
<1> DEFINE s  == ns[n]
           s2 == ns'[n]
           a  == Asks(nq[n])
           a2 == Asks(nq'[n])
           sl == nrx[n].owner # Nobody
           sl2 == nrx'[n].owner # Nobody
           u  == up[n]
           d  == down[n]
           d2 == down'[n]
           r  == rs[n]
<1>1. /\ a \in BOOLEAN /\ a2 \in BOOLEAN /\ sl \in BOOLEAN /\ sl2 \in BOOLEAN
      /\ Delivers(d, d2)
  BY DEF Asks
<1>2. Phase(s, a, sl, u, d, r) /\ (Order(n)' <=> Phase(s2, a2, sl2, u, d2, r))
  BY DEF Order
<1>3. \/ /\ Confirms(s) /\ s2.state = s.state /\ s2.ss = s.ss /\ (a2 => a)
         /\ Hasty(s2) => Hasty(s) \/ Head(d).kind = "NACK"
      \/ ~Confirms(s) /\ ~Confirms(s2) /\ (sl2 => sl \/ Head(d).kind = "PK")
      \/ /\ Head(d).kind = "PK" /\ ~Confirms(s)
         /\ s2.state = "WAIT_ACK" /\ s2.retry_deadline = "long"
      \/ /\ Head(d).kind = "ACK" /\ Confirms(s) /\ s2.state = "ESTABLISHED" /\ s2.ss = s.ss
         /\ (a2 => a)
  BY DEF Turns
<1> HIDE DEF s, s2, a, a2, sl, sl2, u, d, d2, r
<1>4. CASE /\ Confirms(s) /\ s2.state = s.state /\ s2.ss = s.ss /\ (a2 => a)
           /\ Hasty(s2) => Hasty(s) \/ Head(d).kind = "NACK"
  <2>1. Confirming(s, a, u, d, r) /\ Confirms(s2)
    BY <1>2, <1>4 DEF Phase, Confirms
  <2>2. Confirming(s2, a2, u, d2, r)
    BY <1>1, <1>4, <2>1, ConfirmingTakes
  <2> QED  BY <1>2, <2>1, <2>2 DEF Phase
<1>5. CASE ~Confirms(s) /\ ~Confirms(s2) /\ (sl2 => sl \/ Head(d).kind = "PK")
  <2>1. Requesting(sl, u, d, r)
    BY <1>2, <1>5 DEF Phase
  <2>2. Requesting(sl2, u, d2, r)
    BY <1>1, <1>5, <2>1, RequestingTakes
  <2> QED  BY <1>2, <1>5, <2>2 DEF Phase
<1>6. CASE /\ Head(d).kind = "PK" /\ ~Confirms(s)
           /\ s2.state = "WAIT_ACK" /\ s2.retry_deadline = "long"
  <2>1. Requesting(sl, u, d, r) /\ Confirms(s2)
    BY <1>2, <1>6 DEF Phase, Confirms
  <2>2. Confirming(s2, a2, u, d2, r)
    BY <1>1, <1>6, <2>1, BeginsToConfirm
  <2> QED  BY <1>2, <2>1, <2>2 DEF Phase
<1>7. CASE /\ Head(d).kind = "ACK" /\ Confirms(s) /\ s2.state = "ESTABLISHED" /\ s2.ss = s.ss
           /\ (a2 => a)
  <2>1. Confirming(s, a, u, d, r) /\ Confirms(s2)
    BY <1>2, <1>7 DEF Phase, Confirms
  <2>2. Confirming(s2, a2, u, d2, r)
    BY <1>1, <1>7, <2>1, BecomesEstablished
  <2> QED  BY <1>2, <2>1, <2>2 DEF Phase
<1> QED  BY <1>3, <1>4, <1>5, <1>6, <1>7

\* A step of a node that gives up.
LEMMA OrderResigns ==
  ASSUME NEW n \in Node, Order(n), Resigns(n),
         up'[n] = up[n], down'[n] = down[n], rs'[n] = rs[n]
  PROVE  Order(n)'
<1> DEFINE s == ns[n]
           a == Asks(nq[n])
           u == up[n]
           d == down[n]
           r == rs[n]
<1>1. Confirming(s, a, u, d, r) /\ (Hasty(s) \/ (u = << >> /\ d = << >>))
  BY DEF Order, Phase, Resigns
<1>2. Order(n)' <=> Requesting(FALSE, u, d, r)
  BY DEF Order, Phase, Resigns
<1> HIDE DEF s, a, u, d, r
<1> QED  BY <1>1, <1>2, GivesUp

\* What a node sends: requests before ciphertexts, and only the current ciphertext.
LEMMA SendsInOrder ==
  ASSUME NodeTypeOK, NodeSafe, NetTypeOK, NEW n \in Node, NodeOrigin(n), NodeTx(n)
  PROVE  \E p \in Packet :
           /\ Sends(up[n], up'[n], p)
           /\ p.kind = "GETPK" => Asks(nq[n])
           /\ p.kind = "CT" => ~Asks(nq[n]) /\ p.ct = ns[n].ss /\ Confirms(ns[n])
           /\ Asks(nq'[n]) => Asks(nq[n])
<1> DEFINE q == nq[n]
           p == pqc_tx_next(q)
           i == pqc_tx_select_slot(q)
<1>1. /\ p \in Mine(n) /\ p \in queued(q) /\ active(q) # {} /\ udp_send(up, p)
      /\ nq' = [nq EXCEPT ![n] = pqc_tx_process(q)]
  BY TxEffect DEF NodeTx
<1>2. p \in Packet /\ p.node = n
  BY <1>1 DEF Mine, Fitting
<1>3. p.kind = "CT" => p.ct = ns[n].ss /\ Confirms(ns[n])
  BY <1>1, NodeFacts DEF CtsAreCurrent, Confirms
<1>4. p.kind = "CT" => ~Asks(q)
  <2>1. i \in Urgent(q) /\ p = q.slot[i]
    BY <1>1, SelectUrgent DEF pqc_tx_next
  <2> SUFFICES ASSUME p.kind = "CT", NEW j \in active(q), q.slot[j].kind = "GETPK"
               PROVE  FALSE
    BY DEF Asks, queued
  <2>2. pqc_tx_priority_for_msg("CT") <= pqc_tx_priority_for_msg("GETPK")
    BY <2>1 DEF Urgent
  <2>3. pqc_tx_priority_for_msg("CT") = 1 /\ pqc_tx_priority_for_msg("GETPK") = 0
    BY DEF pqc_tx_priority_for_msg
  <2> QED  BY <2>2, <2>3
<1>5. p.kind = "GETPK" => Asks(q)
  BY <1>1 DEF Asks
<1>6. nq'[n] = pqc_tx_process(q)
  BY <1>1 DEF NodeTypeOK
<1>7. queued(pqc_tx_process(q)) \subseteq queued(q)
  <2>1. q \in TxQueues /\ \A x \in Packet : x.node \in Node
    BY NodeFacts, PacketFields
  <2> QED  BY <1>1, <2>1, ProcessQueue DEF TxQueues
<1> HIDE DEF p, q
<1>8. Asks(nq'[n]) => Asks(q)
  BY <1>6, <1>7 DEF Asks
<1>9. Sends(up[n], up'[n], p)
  BY <1>1, <1>2 DEF udp_send, NetTypeOK, Sends
<1> QED  BY <1>2, <1>3, <1>4, <1>5, <1>8, <1>9 DEF q

LEMMA OrderSends ==
  ASSUME NodeTypeOK, NodeSafe, NetTypeOK, NEW n \in Node, NodeOrigin(n), Order(n), NodeTx(n)
  PROVE  Order(n)'
<1>1. PICK p \in Packet :
           /\ Sends(up[n], up'[n], p)
           /\ p.kind = "GETPK" => Asks(nq[n])
           /\ p.kind = "CT" => ~Asks(nq[n]) /\ p.ct = ns[n].ss /\ Confirms(ns[n])
           /\ Asks(nq'[n]) => Asks(nq[n])
  BY SendsInOrder
<1> DEFINE s  == ns[n]
           a  == Asks(nq[n])
           a2 == Asks(nq'[n])
           sl == nrx[n].owner # Nobody
           u  == up[n]
           u2 == up'[n]
           d  == down[n]
           r  == rs[n]
<1>2. a \in BOOLEAN /\ a2 \in BOOLEAN /\ Sends(u, u2, p)
  BY <1>1 DEF Asks
<1>3. Phase(s, a, sl, u, d, r) /\ (Order(n)' <=> Phase(s, a2, sl, u2, d, r))
  BY DEF Order, NodeTx, rootVars
<1>4. /\ a2 => a
      /\ p.kind = "GETPK" => a
      /\ p.kind = "CT" => ~a /\ p.ct = s.ss
      /\ p.kind = "CT" => Confirms(s)
  BY <1>1
<1> HIDE DEF s, a, a2, sl, u, u2, d, r
<1>5. CASE Confirms(s)
  <2>1. Confirming(s, a, u, d, r)
    BY <1>3, <1>5 DEF Phase
  <2>2. Confirming(s, a2, u2, d, r)
    BY <1>2, <1>4, <2>1, ConfirmingSends
  <2> QED  BY <1>3, <1>5, <2>2 DEF Phase
<1>6. CASE ~Confirms(s)
  <2>1. Requesting(sl, u, d, r)
    BY <1>3, <1>6 DEF Phase
  <2>2. Requesting(sl, u2, d, r)
    BY <1>2, <1>4, <1>6, <2>1, RequestingSends
  <2> QED  BY <1>3, <1>6, <2>2 DEF Phase
<1> QED  BY <1>5, <1>6

\* A node handles the first packet of its channel.
LEMMA RecvTurns ==
  ASSUME NodeTypeOK, NodeSafe, NetTypeOK, ReorderWindow = 1, NEW n \in Node, NodeOrigin(n),
         down[n] \in Seq(Fitting), NodeRecv(n)
  PROVE  /\ Turns(n, Head(down[n]).kind) /\ Delivers(down[n], down'[n])
         /\ \A m \in Node \ {n} : down'[m] = down[m]
<1>1. PICK i \in DOMAIN down[n] :
        /\ udp_deliver(down, n, i)
        /\ \/ NodeRecvIgnored(n, down[n][i]) \/ NodeRecvNack(n, down[n][i])
           \/ NodeRecvPkPart(n, down[n][i]) \/ NodeRecvPkComplete(n, down[n][i])
           \/ NodeRecvAck(n, down[n][i])
  BY DEF NodeRecv
<1>2. /\ Delivers(down[n], down'[n]) /\ down[n][i] = Head(down[n])
      /\ \A m \in Node \ {n} : down'[m] = down[m]
  BY <1>1, DeliversFirst DEF udp_deliver, NetTypeOK
<1> DEFINE p == down[n][i]
<1>3. /\ p \in Fitting /\ p \in Packet
      /\ \/ NodeRecvIgnored(n, p) \/ NodeRecvNack(n, p) \/ NodeRecvPkPart(n, p)
         \/ NodeRecvPkComplete(n, p) \/ NodeRecvAck(n, p)
  BY <1>1 DEF Fitting
<1> HIDE DEF p
<1>4. Turns(n, p.kind)
  BY <1>3, RecvIgnoredTurns, RecvNackTurns, RecvPkPartTurns, RecvPkCompleteTurns, RecvAckTurns
<1> QED  BY <1>2, <1>4 DEF p

\* Every step of a node keeps the order.
LEMMA NodeStepOrder ==
  ASSUME IInv, OriginInv, OrderInv, InOrder, NEW n \in Node, NodeStep(n)
  PROVE  OrderInv'
<1>1. /\ TypeOK /\ NodeTypeOK /\ NodeSafe /\ NetTypeOK /\ NodeOrigin(n) /\ Calm /\ Order(n)
      /\ faults \in Faults /\ ReorderWindow = 1 /\ down[n] \in Seq(Fitting)
  BY DEF IInv, TypeOK, OriginInv, NetOrigin, OrderInv, InOrder, NetTypeOK
<1>2. UNCHANGED rs
  BY <1>1, NodeStepPreserves DEF rootVars
<1>3. ~(faults.early > 0) /\ ~(faults.node > 0)
  BY <1>1 DEF Calm
<1>4. \A m \in Node \ {n} : ns'[m] = ns[m] /\ nq'[m] = nq[m] /\ nrx'[m] = nrx[m]
  <2>1. \A m \in Node : NodeOrigin(m) /\ Channels(m)
    BY DEF OriginInv, NetOrigin, Channels
  <2>2. NodeEffect(n)
    BY <1>1, <2>1, NodeStepEffect
  <2> QED  BY <2>2 DEF NodeEffect
<1>5. /\ Order(n)' /\ Calm'
      /\ \A m \in Node \ {n} : up'[m] = up[m] /\ down'[m] = down[m]
  <2>1. CASE NodeRequestPk(n) \/ NodeFailReset(n)
    <3>1. UNCHANGED <<up, down, faults>> /\ Turns(n, "NONE")
      BY <1>1, <2>1, QuietTurns DEF NodeRequestPk, NodeFailReset, netVars
    <3> QED  BY <1>1, <1>2, <3>1, OrderStays, CalmKept
  <2>2. CASE NodeRxTimeout(n)
    <3>1. UNCHANGED <<up, down, faults>> /\ Turns(n, "NONE")
      BY <1>1, <1>3, <2>2, QuietTurns DEF NodeRxTimeout, long_timeout
    <3> QED  BY <1>1, <1>2, <3>1, OrderStays, CalmKept
  <2>3. CASE NodeTx(n)
    <3>1. Order(n)'
      BY <1>1, <2>3, OrderSends
    <3>2. /\ UNCHANGED down /\ pqc_tx_next(nq[n]).node = n
          /\ udp_send(up, pqc_tx_next(nq[n]))
      BY <1>1, <2>3, TxEffect DEF NodeTx, Mine
    <3>3. Calm' /\ \A m \in Node \ {n} : up'[m] = up[m]
      BY <1>1, <3>2, CalmKept DEF udp_send, NetTypeOK
    <3> QED  BY <3>1, <3>2, <3>3
  <2>4. CASE NodeRecv(n)
    <3>1. /\ Turns(n, Head(down[n]).kind) /\ Delivers(down[n], down'[n])
          /\ \A m \in Node \ {n} : down'[m] = down[m]
      BY <1>1, <2>4, RecvTurns
    <3>2. UNCHANGED up /\ \E i \in DOMAIN down[n] : udp_deliver(down, n, i)
      BY <2>4 DEF NodeRecv
    <3>3. Calm'
      BY <1>1, <3>2, CalmKept DEF udp_deliver
    <3> QED  BY <1>1, <1>2, <3>1, <3>2, <3>3, OrderTakes
  <2>5. CASE NodeRetry(n)
    <3>1. /\ ~session_is_established(ns[n]) /\ session_retry_due(ns[n], n)
          /\ NodeRetryPostponed(n) \/ NodeRetryExhausted(n) \/ NodeRetrySend(n)
          /\ UNCHANGED <<up, down>>
      BY <2>5 DEF NodeRetry
    <3>2. UNCHANGED faults
      BY <1>1, <3>1, TimerPasses
    <3>3. Turns(n, "NONE") \/ Resigns(n)
      BY <1>1, <3>1, PostponedTurns, ExhaustedTurns, RetrySendTurns
    <3>4. Order(n)'
      BY <1>1, <1>2, <3>1, <3>3, OrderStays, OrderResigns
    <3> QED  BY <1>1, <3>1, <3>2, <3>4, CalmKept
  <2>6. CASE NodeReboot(n)
    BY <1>3, <2>6 DEF NodeReboot
  <2> QED  BY <2>1, <2>2, <2>3, <2>4, <2>5, <2>6 DEF NodeStep
<1>6. \A m \in Node \ {n} : Order(m)'
  BY <1>2, <1>4, <1>5 DEF OrderInv, Order
<1> QED  BY <1>5, <1>6 DEF OrderInv

-----------------------------------------------------------------------------
(* Steps of the root.                                                      *)

\* A session with the fields of one that rests; a session that becomes idle.
LEMMA RestsAlike ==
  ASSUME NEW r, NEW s, Rests(r, s), NEW t,
         t.state = s.state, t.pending_msg_type = s.pending_msg_type, t.ss = s.ss
  PROVE  Rests(r, t)
BY DEF Rests, Answers

LEMMA RestsIdle ==
  ASSUME NEW r, r.state # "ESTABLISHED", NEW t, t.state = "IDLE", t.pending_msg_type = "NONE"
  PROVE  Rests(r, t)
BY DEF Rests, Answers

\* The session a packet finds, created if it has to be.
LEMMA FoundRests ==
  ASSUME NEW n \in Node
  PROVE  Rests(rs[n], root_session(n)) /\ Rests(rs[n], rs[n])
<1>1. CASE rs[n].state = "UNUSED"
  <2>1. root_session(n).state = "IDLE" /\ root_session(n).pending_msg_type = "NONE"
    BY <1>1, InitSession DEF root_session
  <2> QED  BY <1>1, <2>1, RestsIdle DEF Rests
<1>2. CASE rs[n].state # "UNUSED"
  BY <1>2 DEF root_session, Rests
<1> QED  BY <1>1, <1>2

\* What a handler assigns to the session of n.
LEMMA SessionAssigned ==
  ASSUME RootTypeOK, NEW n \in Node, NEW s, rs' = [rs EXCEPT ![n] = s]
  PROVE  rs'[n] = s
BY DEF RootTypeOK

\* A ciphertext after the session is established, or before one is waited for.
LEMMA CtOutOfTurnRests ==
  ASSUME RootTypeOK, RootSafe, NEW n \in Node, NEW p \in Packet,
         RootRecvCtDuplicate(n, p) \/ RootRecvCtUnexpected(n, p)
  PROVE  Rests(rs[n], rs'[n])
<1>1. CASE RootRecvCtDuplicate(n, p)
  <2> DEFINE edge == p.frag = 0 \/ p.frag + 1 = CtFrags
             s0   == rs[n]
             s    == IF edge THEN ack_session(s0, rq) ELSE s0
  <2>1. rs'[n] = s
    BY <1>1, SessionAssigned DEF RootRecvCtDuplicate
  <2>2. s0 \in Session /\ Rests(rs[n], s0)
    BY RootFacts, FoundRests
  <2> HIDE DEF edge, s0
  <2>3. LET a == ack_session(s0, rq)
        IN  a.state = s0.state /\ a.pending_msg_type = s0.pending_msg_type /\ a.ss = s0.ss
    BY <2>2, NextMsgId DEF ack_session
  <2>4. s.state = s0.state /\ s.pending_msg_type = s0.pending_msg_type /\ s.ss = s0.ss
    BY <2>3
  <2> HIDE DEF s
  <2> QED  BY <2>1, <2>2, <2>4, RestsAlike
<1>2. CASE RootRecvCtUnexpected(n, p)
  <2>1. rs'[n] = root_session(n)
    BY <1>2, SessionAssigned DEF RootRecvCtUnexpected
  <2> QED  BY <2>1, FoundRests
<1> QED  BY <1>1, <1>2

\* A NACK at most sets the retry timer.
LEMMA RootNackRests ==
  ASSUME RootTypeOK, RootSafe, NEW n \in Node, NEW p, RootRecvNack(n, p)
  PROVE  Rests(rs[n], rs'[n])
<1> DEFINE s0     == root_session(n)
           served == s0.pending_msg_type = "PK" /\ p.missing_msg_type = "PK"
                       /\ p.missing_msg_id = s0.pending_msg_id
           room   == pqc_tx_free_slots(rq) >= Cardinality(p.missing)
           d      == IF room THEN "long" ELSE "short"
           s      == IF ~served THEN s0 ELSE retry_in(s0, d)
<1>1. rs'[n] = s
  BY SessionAssigned DEF RootRecvNack
<1>2. s0 \in Session /\ d \in Deadlines /\ Rests(rs[n], s0)
  BY RootSession, FoundRests DEF Deadlines
<1> HIDE DEF s0, served, d
<1>3. s.state = s0.state /\ s.pending_msg_type = s0.pending_msg_type /\ s.ss = s0.ss
  BY <1>2, RetryIn
<1> HIDE DEF s
<1> QED  BY <1>1, <1>2, <1>3, RestsAlike

\* A report is noted in the session.
LEMMA MetricsRests ==
  ASSUME RootTypeOK, RootSafe, NEW n \in Node, NEW p \in Packet, RootRecvMetrics(n, p)
  PROVE  Rests(rs[n], rs'[n])
<1> DEFINE s0   == root_session(n)
           mask == s0.node_metrics_mask \cup {p.group}
           s1   == [s0 EXCEPT !.node_metrics_mask = mask]
           s    == summarised(s1)
<1>1. rs'[n] = s /\ p.group \in Nat
  BY SessionAssigned DEF RootRecvMetrics, Packet
<1>2. s0 \in Session /\ Rests(rs[n], s0)
  BY RootSession, FoundRests
<1> HIDE DEF s0
<1>3. mask \in SUBSET Nat
  BY <1>1, <1>2 DEF Session
<1> HIDE DEF mask
<1>4. /\ s1 \in Session /\ s1.state = s0.state /\ s1.ss = s0.ss
      /\ s1.pending_msg_type = s0.pending_msg_type
  BY <1>2, <1>3, Zenon DEF Session
<1> HIDE DEF s1
<1>5. s.state = s0.state /\ s.pending_msg_type = s0.pending_msg_type /\ s.ss = s0.ss
  BY <1>4, Summarised
<1> HIDE DEF s
<1> QED  BY <1>1, <1>2, <1>5, RestsAlike

\* A repetition, and the end of a handshake that is not established.
LEMMA RetryRests ==
  ASSUME RootTypeOK, RootSafe, NEW n \in Node, ~session_is_established(rs[n]),
         \/ RootRetryPostponed(n) \/ RootRetryExhausted(n)
         \/ RootRetryNack(n) \/ RootRetryPk(n) \/ root_fail_reset(n)
  PROVE  Rests(rs[n], rs'[n])
<1> DEFINE s0 == rs[n]
           s1 == session_next_msg_id(s0)
<1>1. s0 \in Session /\ Rests(rs[n], s0) /\ s0.state # "ESTABLISHED"
  BY RootFacts, FoundRests DEF session_is_established, root_armed, armed
<1>2. \/ rs'[n] = retry_in(s0, "short")
      \/ rs'[n] = session_reset
      \/ session_can_retry(s0) /\ rs'[n] = hs_mark_retry(s1)
      \/ session_can_retry(s0) /\ rs'[n] = hs_mark_retry(s0)
  BY SessionAssigned DEF RootRetryPostponed, RootRetryExhausted, RootRetryNack, RootRetryPk,
     root_fail_reset
<1> HIDE DEF s0
<1>3. /\ s1 \in Session /\ s1.state = s0.state /\ s1.pending_msg_type = s0.pending_msg_type
      /\ s1.ss = s0.ss /\ s1.retry_count = s0.retry_count
  BY <1>1, NextMsgId DEF session_next_msg_id, session_next_msg_ids, Session
<1> HIDE DEF s1
<1>4. session_can_retry(s0) => session_can_retry(s1)
  BY <1>3 DEF session_can_retry
<1>5. CASE rs'[n] = session_reset
  BY <1>1, <1>5, InitSession, RestsIdle DEF s0
<1>6. CASE rs'[n] = retry_in(s0, "short")
  <2>1. LET t == retry_in(s0, "short") IN
          t.state = s0.state /\ t.pending_msg_type = s0.pending_msg_type /\ t.ss = s0.ss
    BY <1>1, RetryIn DEF Deadlines
  <2> QED  BY <1>1, <1>6, <2>1, RestsAlike
<1>7. CASE session_can_retry(s0) /\ rs'[n] = hs_mark_retry(s1)
  <2>1. LET t == hs_mark_retry(s1) IN
          t.state = s1.state /\ t.pending_msg_type = s1.pending_msg_type /\ t.ss = s1.ss
    BY <1>3, <1>4, <1>7, MarkRetry
  <2> QED  BY <1>1, <1>3, <1>7, <2>1, RestsAlike
<1>8. CASE session_can_retry(s0) /\ rs'[n] = hs_mark_retry(s0)
  <2>1. LET t == hs_mark_retry(s0) IN
          t.state = s0.state /\ t.pending_msg_type = s0.pending_msg_type /\ t.ss = s0.ss
    BY <1>1, <1>8, MarkRetry
  <2> QED  BY <1>1, <1>8, <2>1, RestsAlike
<1> QED  BY <1>2, <1>5, <1>6, <1>7, <1>8

\* A request: the root waits for a ciphertext, or for the next request.
LEMMA GetpkRestarts ==
  ASSUME RootTypeOK, RootSafe, NEW n \in Node, NEW p, RootRecvGetpk(n, p)
  PROVE  p.kind = "GETPK" /\ ~Answers(rs'[n])
<1> DEFINE idle == root_session(n).state = "IDLE"
           s    == IF idle THEN root_session(n) ELSE session_reset
           id   == s.next_msg_id
           s1   == session_next_msg_id(s)
           s2   == session_set_state(s1, "WAIT_CT")
           s3   == session_set_pending(s2, "PK", id)
<1>1. p.kind = "GETPK" /\ (rs'[n] = s \/ rs'[n] = s3)
  BY SessionAssigned DEF RootRecvGetpk
<1>2. s \in Session /\ s.state = "IDLE" /\ s.pending_msg_type # "CT"
  <2>1. CASE idle
    BY <2>1, RootSession DEF root_armed
  <2>2. CASE ~idle
    BY <2>2, InitSession
  <2> QED  BY <2>1, <2>2
<1> HIDE DEF s
<1>3. id \in MsgId
  BY <1>2 DEF Session
<1> HIDE DEF id
<1>4. s1 \in Session
  BY <1>2, NextMsgId
<1> HIDE DEF s1
<1>5. s2 \in Session /\ s2.state = "WAIT_CT"
  BY <1>4, SetState DEF States
<1> HIDE DEF s2
<1>6. s3.state = "WAIT_CT" /\ s3.pending_msg_type = "PK"
  BY <1>3, <1>5, PendingPk
<1> HIDE DEF s3
<1> QED  BY <1>1, <1>2, <1>6 DEF Answers

\* The fragment that completes a message was missing before: its content is there.
LEMMA LastCounts ==
  ASSUME NEW rx, NEW type, NEW id, NEW f, NEW c, fragment_rx_accepts(rx, type, id, f),
         rx.received_frags \in Nat, rx.received_frags < total_frags(type),
         total_frags(type) \in Nat, fragment_rx_complete(fragment_rx_add(rx, type, id, f, c))
  PROVE  c \in contents(fragment_rx_add(rx, type, id, f, c))
<1> DEFINE B    == bitmap(rx)
           more == IF f \in B THEN 0 ELSE 1
           add  == IF f \in B THEN {} ELSE {<<f, c>>}
           r    == fragment_rx_add(rx, type, id, f, c)
<1>1. r = [active |-> TRUE, msg_type |-> type, msg_id |-> id,
           received_frags |-> rx.received_frags + more, buffer |-> rx.buffer \cup add]
  BY DEF fragment_rx_add
<1>2. fragment_rx_complete(r)
  OBVIOUS
<1> HIDE DEF B, r
<1>3. r.received_frags = rx.received_frags + more /\ r.msg_type = type
  BY <1>1
<1>4. f \notin B
  <2> SUFFICES ASSUME f \in B PROVE FALSE
    OBVIOUS
  <2>1. r.received_frags = rx.received_frags + 0 /\ r.received_frags = total_frags(type)
    BY <1>2, <1>3 DEF fragment_rx_complete
  <2> HIDE DEF r
  <2> QED  BY <2>1
<1>5. <<f, c>> \in r.buffer /\ <<f, c>>[2] = c
  BY <1>1, <1>4
<1>6. c \in contents(r)
  BY <1>5, Zenon DEF contents
<1> QED  BY <1>6 DEF r

LEMMA LastFragment ==
  ASSUME NEW slot \in RootSlot, SlotGood(slot, "CT"), NEW owner, NEW id, NEW f, NEW c,
         fragment_rx_accepts(slot.ctx, "CT", id, f),
         fragment_rx_complete(slot_after(slot, owner, "CT", id, f, c).ctx)
  PROVE  c \in contents(slot_after(slot, owner, "CT", id, f, c).ctx)
<1> DEFINE s  == IF slot.owner = Nobody THEN NewSlot(owner) ELSE slot
           rx == s.ctx
           x  == fragment_rx_add(rx, "CT", id, f, c)
           r  == slot_after(slot, owner, "CT", id, f, c)
<1>1. r.ctx = x
  <2>1. r = [s EXCEPT !.ctx = x]
    BY DEF slot_after
  <2>2. slot = [slot EXCEPT !.owner = slot.owner] /\ "ctx" \in DOMAIN slot
    BY DEF RootSlot, RxSlot
  <2>3. "ctx" \in DOMAIN NewSlot(owner)
    BY DEF NewSlot, FreeSlot
  <2>4. "ctx" \in DOMAIN s
    BY <2>2, <2>3
  <2> HIDE DEF s, x
  <2> QED  BY <2>1, <2>4
<1>2. total_frags("CT") \in Nat \ {0}
  BY TotalFrags, FragsAssumption
<1>3. /\ fragment_rx_accepts(rx, "CT", id, f)
      /\ rx.received_frags \in Nat /\ rx.received_frags < total_frags("CT")
  <2>1. CASE slot.owner = Nobody
    <3>1. rx = fragment_rx_init
      BY <2>1 DEF NewSlot, FreeSlot
    <3> HIDE DEF rx
    <3> QED  BY <1>2, <3>1 DEF fragment_rx_init, fragment_rx_accepts
  <2>2. CASE slot.owner # Nobody
    <3>1. rx = slot.ctx /\ rx.received_frags < total_frags("CT")
      BY <2>2 DEF SlotGood
    <3>2. slot.ctx.received_frags \in Nat
      BY DEF RootSlot, RxSlot, RxContext
    <3> HIDE DEF rx
    <3> QED  BY <3>1, <3>2
  <2> QED  BY <2>1, <2>2
<1>4. fragment_rx_complete(x)
  BY <1>1
<1> HIDE DEF rx
<1>5. c \in contents(x)
  BY <1>2, <1>3, <1>4, LastCounts
<1> HIDE DEF r, x
<1> QED  BY <1>1, <1>5 DEF r

\* A fragment of a ciphertext in turn: nothing is repeated to the node any more, and
\* a secret it completes is that of the fragment.
LEMMA CtInTurn ==
  ASSUME RootTypeOK, RootSafe, SlotOrigin, NEW n \in Node, NEW p \in Own(attempts[n]),
         RootRecvCtRefused(n, p) \/ RootRecvCtPart(n, p) \/ RootRecvCtComplete(n, p)
  PROVE  /\ p.kind = "CT" /\ rs[n].state # "ESTABLISHED" /\ rs'[n].pending_msg_type # "PK"
         /\ rs'[n].state = "ESTABLISHED" => rs'[n].ss = p.ct
<1> DEFINE s  == ct_session(n, p)
           s1 == session_next_msg_id(s)
           s2 == retry_in(s1, "short")
<1>1. /\ p.kind = "CT" /\ rs[n].state = "WAIT_CT" /\ p \in Packet
      /\ p.ct \in Drawn(attempts[n])
  BY DEF RootRecvCtRefused, RootRecvCtPart, RootRecvCtComplete, Own, Fitting
<1>2. /\ s \in Session /\ s.state = "WAIT_CT" /\ s.pending_msg_type = "CT"
      /\ p.msg_id \in MsgId /\ p.frag \in Nat
  BY <1>1, CtBegins
<1>3. s2.state = "WAIT_CT" /\ s2.pending_msg_type = "CT"
  <2> HIDE DEF s
  <2>1. s1 \in Session /\ s1.state = "WAIT_CT" /\ s1.pending_msg_type = "CT"
    BY <1>2, NextMsgId
  <2> HIDE DEF s1
  <2> QED  BY <2>1, RetryIn DEF Deadlines
<1>4. CASE RootRecvCtRefused(n, p)
  <2>1. rs'[n] = s
    BY <1>4, SessionAssigned DEF RootRecvCtRefused
  <2> HIDE DEF s
  <2> QED  BY <1>1, <1>2, <2>1
<1>5. CASE RootRecvCtPart(n, p)
  <2>1. rs' = [rs EXCEPT ![n] = s] \/ rs' = [rs EXCEPT ![n] = s2]
    BY <1>5 DEF RootRecvCtPart
  <2> HIDE DEF s, s2
  <2>2. rs'[n] = s \/ rs'[n] = s2
    BY <2>1, SessionAssigned
  <2> QED  BY <1>1, <1>2, <1>3, <2>2
<1>6. CASE RootRecvCtComplete(n, p)
  <2> DEFINE q  == ct_queue(n)
             After(i) == slot_after(rx_slots[i], n, "CT", p.msg_id, p.frag, p.ct)
             f1 == [s EXCEPT !.ss = NoSecret]
             f2 == session_set_failed(f1)
  <2>1. PICK i \in slot_for(rx_slots, n) :
          /\ fragment_rx_accepts(rx_slots[i].ctx, "CT", p.msg_id, p.frag)
          /\ fragment_rx_complete(After(i).ctx)
          /\ \/ /\ decapsulates(After(i).ctx)
                /\ rs' = [rs EXCEPT ![n] = summarised(ack_session(
                        session_set_established([s EXCEPT !.ss = content(After(i).ctx)]), q))]
             \/ rs' = [rs EXCEPT ![n] = f2]
    BY <1>6 DEF RootRecvCtComplete
  <2> DEFINE rx == After(i).ctx
             ss == content(rx)
             e1 == [s EXCEPT !.ss = ss]
             e2 == session_set_established(e1)
             e3 == ack_session(e2, q)
             e4 == summarised(e3)
  <2>2. p.ct \in contents(rx) /\ p.ct \in Secret
    <3> DEFINE slot == rx_slots[i]
               id   == p.msg_id
               f    == p.frag
               c    == p.ct
    <3>1. slot \in RootSlot /\ SlotGood(slot, "CT")
      BY SlotFound DEF RootTypeOK, SlotOrigin
    <3>2. /\ fragment_rx_accepts(slot.ctx, "CT", id, f)
          /\ fragment_rx_complete(slot_after(slot, n, "CT", id, f, c).ctx)
          /\ rx = slot_after(slot, n, "CT", id, f, c).ctx
      BY <2>1
    <3>3. c \in Secret
      BY <1>1 DEF Drawn, Secret
    <3> HIDE DEF slot, id, f, c, rx
    <3>4. c \in contents(rx)
      BY <3>1, <3>2, LastFragment
    <3> QED  BY <3>3, <3>4 DEF c
  <2>3. (decapsulates(rx) /\ rs'[n] = e4) \/ rs'[n] = f2
    BY <2>1, SessionAssigned
  <2> HIDE DEF s, q, rx
  <2>4. CASE decapsulates(rx) /\ rs'[n] = e4
    <3>1. ss = p.ct
      BY <2>2, <2>4 DEF decapsulates, unmixed, content
    <3> HIDE DEF ss
    <3>2. e1 \in Session /\ e1.ss = ss
      BY <1>2, <2>2, <3>1, SetSecret
    <3> HIDE DEF e1
    <3>3. e2 \in Session /\ e2.state = "ESTABLISHED" /\ e2.pending_msg_type = "NONE" /\ e2.ss = ss
      BY <3>2, SetEstablished
    <3> HIDE DEF e2
    <3>4. e3 \in Session /\ e3.state = "ESTABLISHED" /\ e3.pending_msg_type = "NONE" /\ e3.ss = ss
      <4>1. e3 = session_next_msg_id(e2) \/ e3 = e2
        BY DEF ack_session
      <4> QED  BY <3>3, <4>1, NextMsgId
    <3> HIDE DEF e3
    <3>5. e4.state = "ESTABLISHED" /\ e4.pending_msg_type = "NONE" /\ e4.ss = ss
      BY <3>4, Summarised
    <3> HIDE DEF e4
    <3> QED  BY <1>1, <2>4, <3>1, <3>5
  <2>5. CASE rs'[n] = f2
    <3>1. f1 \in Session
      BY <1>2, SetSecret, Zeros
    <3> HIDE DEF f1
    <3>2. f2.state = "FAILED" /\ f2.pending_msg_type = "NONE"
      BY <3>1, SetFailed
    <3> HIDE DEF f2
    <3> QED  BY <1>1, <2>5, <3>2
  <2> QED  BY <2>3, <2>4, <2>5
<1> QED  BY <1>4, <1>5, <1>6

\* The root handles the first packet of n's channel.
LEMMA RootRecvOrder ==
  ASSUME TypeOK, RootSafe, SlotOrigin, NetOrigin, ReorderWindow = 1, NEW n \in Node,
         Order(n), RootRecv(n)
  PROVE  Order(n)' /\ \A m \in Node \ {n} : up'[m] = up[m]
<1>1. PICK i \in DOMAIN up[n] :
        /\ udp_deliver(up, n, i)
        /\ \/ RootRecvNoSession(n, up[n][i]) \/ RootRecvGetpk(n, up[n][i])
           \/ RootRecvCtDuplicate(n, up[n][i]) \/ RootRecvCtUnexpected(n, up[n][i])
           \/ RootRecvCtRefused(n, up[n][i]) \/ RootRecvCtPart(n, up[n][i])
           \/ RootRecvCtComplete(n, up[n][i]) \/ RootRecvNack(n, up[n][i])
           \/ RootRecvMetrics(n, up[n][i])
  BY DEF RootRecv
<1>2. /\ RootTypeOK /\ up \in [Node -> Seq(Packet)] /\ up[n] \in Seq(Own(attempts[n]))
      /\ UNCHANGED <<nodeVars, down>>
  BY DEF TypeOK, NetTypeOK, NetOrigin, RootRecv
<1>3. /\ Delivers(up[n], up'[n]) /\ up[n][i] = Head(up[n])
      /\ \A m \in Node \ {n} : up'[m] = up[m]
  BY <1>1, <1>2, DeliversFirst DEF udp_deliver
<1> DEFINE p  == up[n][i]
           s  == ns[n]
           a  == Asks(nq[n])
           sl == nrx[n].owner # Nobody
           u  == up[n]
           u2 == up'[n]
           d  == down[n]
           r  == rs[n]
           r2 == rs'[n]
<1>4. p \in Own(attempts[n]) /\ p \in Packet
  <2> DEFINE O == Own(attempts[n])
  <2>1. u \in Seq(O) /\ i \in DOMAIN u
    BY <1>2
  <2> HIDE DEF O, u
  <2>2. u[i] \in O
    BY <2>1
  <2> QED  BY <2>2 DEF O, u, Own, Fitting
<1>5. \/ RootRecvNoSession(n, p) \/ RootRecvGetpk(n, p)
      \/ RootRecvCtDuplicate(n, p) \/ RootRecvCtUnexpected(n, p)
      \/ RootRecvCtRefused(n, p) \/ RootRecvCtPart(n, p)
      \/ RootRecvCtComplete(n, p) \/ RootRecvNack(n, p) \/ RootRecvMetrics(n, p)
  BY <1>1
<1>6. /\ a \in BOOLEAN /\ sl \in BOOLEAN /\ Delivers(u, u2) /\ p = Head(u)
      /\ Phase(s, a, sl, u, d, r)
  BY <1>3 DEF Order, Asks
<1>7. Order(n)' <=> Phase(s, a, sl, u2, d, r2)
  BY <1>2 DEF Order, nodeVars
<1> HIDE DEF p
<1>8. \/ Rests(r, r2)
      \/ p.kind = "GETPK" /\ ~Answers(r2)
      \/ /\ p.kind = "CT" /\ r.state # "ESTABLISHED" /\ r2.pending_msg_type # "PK"
         /\ r2.state = "ESTABLISHED" => r2.ss = p.ct
  <2>1. CASE RootRecvNoSession(n, p)
    <3>1. UNCHANGED rs
      BY <2>1 DEF RootRecvNoSession, rootVars
    <3> QED  BY <3>1, FoundRests
  <2>2. CASE RootRecvGetpk(n, p)
    BY <1>2, <2>2, GetpkRestarts
  <2>3. CASE RootRecvCtDuplicate(n, p) \/ RootRecvCtUnexpected(n, p)
    BY <1>2, <1>4, <2>3, CtOutOfTurnRests
  <2>4. CASE RootRecvCtRefused(n, p) \/ RootRecvCtPart(n, p) \/ RootRecvCtComplete(n, p)
    BY <1>2, <1>4, <2>4, CtInTurn
  <2>5. CASE RootRecvNack(n, p)
    BY <1>2, <2>5, RootNackRests
  <2>6. CASE RootRecvMetrics(n, p)
    BY <1>2, <1>4, <2>6, MetricsRests
  <2> QED  BY <1>5, <2>1, <2>2, <2>3, <2>4, <2>5, <2>6
<1> HIDE DEF s, a, sl, u, u2, d, r, r2
<1>9. CASE Rests(r, r2)
  BY <1>6, <1>7, <1>9, RootRests, <1>3
<1>10. CASE p.kind = "GETPK" /\ ~Answers(r2)
  BY <1>6, <1>7, <1>10, RootRestartsSession, <1>3
<1>11. CASE /\ p.kind = "CT" /\ r.state # "ESTABLISHED" /\ r2.pending_msg_type # "PK"
            /\ r2.state = "ESTABLISHED" => r2.ss = p.ct
  <2>1. Head(u).kind = "CT" /\ (r2.state = "ESTABLISHED" => r2.ss = Head(u).ct)
    BY <1>6, <1>11
  <2>2. Phase(s, a, sl, u2, d, r2)
    BY <1>6, <1>11, <2>1, RootTakesCt
  <2> QED  BY <1>3, <1>7, <2>2
<1> QED  BY <1>8, <1>9, <1>10, <1>11

\* A retry of the root, or the reset after a failure.
LEMMA RootGivesUpOrder ==
  ASSUME RootTypeOK, NEW n \in Node, Order(n), Rests(rs[n], rs'[n]),
         UNCHANGED <<nodeVars, up, down>>
  PROVE  Order(n)'
<1> DEFINE s  == ns[n]
           a  == Asks(nq[n])
           sl == nrx[n].owner # Nobody
           u  == up[n]
           d  == down[n]
           r  == rs[n]
           r2 == rs'[n]
<1>1. /\ a \in BOOLEAN /\ sl \in BOOLEAN /\ Phase(s, a, sl, u, d, r) /\ Rests(r, r2)
      /\ Order(n)' <=> Phase(s, a, sl, u, d, r2)
  BY DEF Order, Asks, nodeVars
<1> HIDE DEF s, a, sl, u, d, r, r2
<1>2. Phase(s, a, sl, u, d, r2)
  BY <1>1, RootRests
<1> QED  BY <1>1, <1>2

\* Every step of the root for one node keeps the order.
LEMMA RootStepOrder ==
  ASSUME IInv, OriginInv, OrderInv, InOrder, NEW n \in Node, RootStep(n)
  PROVE  OrderInv'
<1>1. /\ TypeOK /\ RootTypeOK /\ RootSafe /\ RootOrigin(n) /\ SlotOrigin /\ NetOrigin
      /\ Calm /\ Order(n) /\ faults \in Faults /\ ReorderWindow = 1
  BY DEF IInv, TypeOK, OriginInv, OrderInv, InOrder, NetTypeOK
<1>2. /\ UNCHANGED <<nodeVars, down>> /\ \A m \in Node \ {n} : rs'[m] = rs[m]
  BY <1>1, RootStepEffect DEF RootEffect
<1>3. Order(n)' /\ Calm' /\ \A m \in Node \ {n} : up'[m] = up[m]
  <2>1. CASE RootRecv(n)
    <3>1. \E i \in DOMAIN up[n] : udp_deliver(up, n, i)
      BY <2>1 DEF RootRecv
    <3>2. Calm'
      BY <1>1, <3>1, CalmKept DEF udp_deliver
    <3> QED  BY <1>1, <2>1, <3>2, RootRecvOrder
  <2>2. CASE RootRetry(n)
    <3>1. /\ ~session_is_established(rs[n]) /\ session_retry_due(rs[n], n) /\ UNCHANGED up
          /\ \/ RootRetryPostponed(n) \/ RootRetryExhausted(n)
             \/ RootRetryNack(n) \/ RootRetryPk(n)
      BY <2>2 DEF RootRetry
    <3>2. Rests(rs[n], rs'[n])
      BY <1>1, <3>1, RetryRests
    <3>3. UNCHANGED faults
      BY <1>1, <3>1, TimerPasses
    <3> QED  BY <1>1, <1>2, <3>1, <3>2, <3>3, RootGivesUpOrder, CalmKept
  <2>3. CASE RootFailReset(n)
    <3>1. /\ ~session_is_established(rs[n]) /\ root_fail_reset(n) /\ UNCHANGED <<up, faults>>
      BY <2>3 DEF RootFailReset, session_is_failed, session_is_established, netVars
    <3>2. Rests(rs[n], rs'[n])
      BY <1>1, <3>1, RetryRests
    <3> QED  BY <1>1, <1>2, <3>1, <3>2, RootGivesUpOrder, CalmKept
  <2> QED  BY <2>1, <2>2, <2>3 DEF RootStep
<1>4. \A m \in Node \ {n} : Order(m)'
  BY <1>2, <1>3 DEF OrderInv, Order, nodeVars
<1> QED  BY <1>3, <1>4 DEF OrderInv

\* A packet leaves the queue of the root: it belongs to the session of its node.
LEMMA RootTxOrder ==
  ASSUME IInv, OrderInv, RootTx
  PROVE  OrderInv'
<1>1. /\ RootTypeOK /\ RootSafe /\ NetTypeOK /\ Calm /\ faults \in Faults /\ rq \in TxQueues
      /\ active(rq) # {} /\ udp_send(down, pqc_tx_next(rq)) /\ UNCHANGED <<nodeVars, rs, up>>
  BY DEF IInv, TypeOK, OrderInv, NetTypeOK, RootTypeOK, RootTx
<1>2. PICK p \in Packet : p \in queued(rq) /\ udp_send(down, p)
  BY <1>1, ProcessQueue, PacketFields DEF TxQueues
<1>3. PICK n \in Node : n = p.node
  BY <1>2, PacketFields
<1>4. Belongs(p, rs[n]) /\ root_armed(rs[n])
  BY <1>1, <1>2, <1>3, RootFacts
<1>5. /\ Sends(down[n], down'[n], p) /\ Calm'
      /\ \A m \in Node \ {n} : down'[m] = down[m]
  <2>1. Sends(down[n], down'[n], p) /\ \A m \in Node \ {n} : down'[m] = down[m]
    BY <1>1, <1>2, <1>3 DEF udp_send, NetTypeOK, Sends
  <2>2. Calm'
    BY <1>1, CalmKept DEF udp_send
  <2> QED  BY <2>1, <2>2
<1>6. Order(n)'
  <2> DEFINE s  == ns[n]
             a  == Asks(nq[n])
             sl == nrx[n].owner # Nobody
             u  == up[n]
             d  == down[n]
             d2 == down'[n]
             r  == rs[n]
  <2>1. /\ a \in BOOLEAN /\ sl \in BOOLEAN /\ Phase(s, a, sl, u, d, r) /\ Sends(d, d2, p)
        /\ Order(n)' <=> Phase(s, a, sl, u, d2, r)
    BY <1>1, <1>3, <1>5 DEF OrderInv, Order, Asks, nodeVars
  <2>2. \/ p.kind = "PK" /\ r.pending_msg_type = "PK" /\ ~Answers(r)
        \/ p.kind = "NACK" /\ Answers(r)
        \/ p.kind = "ACK" /\ r.state = "ESTABLISHED"
    BY <1>4 DEF Belongs, root_armed, Answers
  <2> HIDE DEF s, a, sl, u, d, d2, r
  <2>3. Phase(s, a, sl, u, d2, r)
    BY <2>1, <2>2, RootSends
  <2> QED  BY <2>1, <2>3
<1>7. \A m \in Node \ {n} : Order(m)'
  BY <1>1, <1>5 DEF OrderInv, Order, nodeVars
<1> QED  BY <1>5, <1>6, <1>7 DEF OrderInv

\* The root restarts.
LEMMA RootRebootOrder ==
  ASSUME IInv, OrderInv, RootReboot
  PROVE  OrderInv'
<1>1. /\ Calm /\ faults \in Faults /\ faults.root > 0 /\ rs' = [n \in Node |-> UnusedSession]
      /\ faults' = [faults EXCEPT !.root = @ - 1] /\ UNCHANGED <<nodeVars, up, down>>
  BY DEF IInv, TypeOK, OrderInv, NetTypeOK, RootReboot
<1>2. Calm' /\ MaxRootReboots # 0
  BY <1>1, CalmKept DEF Calm
<1>3. ASSUME NEW n \in Node PROVE Order(n)'
  <2> DEFINE s  == ns[n]
             a  == Asks(nq[n])
             sl == nrx[n].owner # Nobody
             u  == up[n]
             d  == down[n]
             r  == rs[n]
             r2 == rs'[n]
  <2>1. /\ a \in BOOLEAN /\ sl \in BOOLEAN /\ Phase(s, a, sl, u, d, r)
        /\ Order(n)' <=> Phase(s, a, sl, u, d, r2)
    BY <1>1 DEF OrderInv, Order, Asks, nodeVars
  <2>2. r2.state = "UNUSED" /\ r2.pending_msg_type = "NONE"
    BY <1>1, InitSession
  <2> HIDE DEF s, a, sl, u, d, r, r2
  <2>3. Phase(s, a, sl, u, d, r2)
    BY <1>2, <2>1, <2>2, RootForgets
  <2> QED  BY <2>1, <2>3
<1> QED  BY <1>2, <1>3 DEF OrderInv

\* The steps of the root that are for no node in particular.
LEMMA RootWideOrder ==
  ASSUME IInv, OrderInv,
         RootTx \/ (\E i \in 1 .. RxSlots : RootRxTimeout(i)) \/ RootReboot
  PROVE  OrderInv'
<1>1. CASE \E i \in 1 .. RxSlots : RootRxTimeout(i)
  <2>1. /\ \E n : long_timeout(n) /\ UNCHANGED <<nodeVars, rs, up, down>>
    BY <1>1 DEF RootRxTimeout
  <2>2. UNCHANGED faults
    BY <2>1 DEF long_timeout, OrderInv, Calm
  <2> QED  BY <2>1, <2>2 DEF OrderInv, Calm, Order, nodeVars
<1> QED  BY <1>1, RootTxOrder, RootRebootOrder

-----------------------------------------------------------------------------
(* The theorems.                                                           *)

\* At the start nothing is under way and nobody has asked.
LEMMA InitOrder == InOrder /\ Init => OrderInv
<1> SUFFICES ASSUME InOrder, Init PROVE OrderInv
  OBVIOUS
<1>1. Calm
  BY DEF Init, InOrder, Calm
<1>2. ASSUME NEW n \in Node PROVE Order(n)
  <2>1. /\ ns[n].state = "IDLE" /\ up[n] = << >> /\ down[n] = << >>
        /\ nrx[n].owner = Nobody
    BY InitSession, FreeSlotClean DEF Init
  <2>2. Requesting(FALSE, up[n], down[n], rs[n])
    BY <2>1, EmptyChannel DEF Requesting
  <2> QED  BY <2>1, <2>2 DEF Order, Phase, Confirms
<1> QED  BY <1>1, <1>2 DEF OrderInv

\* The third invariant is preserved by every step.
LEMMA NextOrder == InOrder /\ IInv /\ OriginInv /\ OrderInv /\ [Next]_vars => OrderInv'
<1> SUFFICES ASSUME InOrder, IInv, OriginInv, OrderInv, [Next]_vars PROVE OrderInv'
  OBVIOUS
<1>1. CASE \E n \in Node : NodeStep(n)
  BY <1>1, NodeStepOrder
<1>2. CASE \E n \in Node : RootStep(n)
  BY <1>2, RootStepOrder
<1>3. CASE RootTx \/ (\E i \in 1 .. RxSlots : RootRxTimeout(i)) \/ RootReboot
  BY <1>3, RootWideOrder
<1>4. CASE UNCHANGED vars
  BY <1>4 DEF vars, nodeVars, rootVars, netVars, OrderInv, Calm, Order
<1> QED  BY <1>1, <1>2, <1>3, <1>4 DEF Next

\* While the network keeps the order and no timer or node breaks it, the phases of
\* every handshake follow each other as OrderInv says.
THEOREM PhasesInOrder ==
  ASSUME InOrder
  PROVE  Spec => []OrderInv
<1>1. Init => OrderInv
  BY InitOrder
<1>2. IInv /\ OriginInv /\ OrderInv /\ [Next]_vars => OrderInv'
  BY NextOrder
<1>3. Spec => []IInv /\ []OriginInv
  BY Invariant, Origins
<1> QED  BY <1>1, <1>2, <1>3, PTL DEF Spec

\* Two established sides hold the same secret, whatever is lost or duplicated and
\* however often the root restarts: the ciphertext the root decapsulated is the one
\* the node is waiting for, or confirmed for, and never one of an earlier handshake.
THEOREM KeysAgreeInOrder ==
  ASSUME InOrder
  PROVE  Spec => []KeyAgreement
<1>1. OrderInv => KeyAgreement
  BY DEF OrderInv, Order, Phase, Confirms, Confirming, KeyAgreement, session_is_established
<1> QED  BY <1>1, PhasesInOrder, PTL

\* As long as the root keeps its memory too, a node that took an ACK as the proof is
\* right: the root is established with the same secret and stays so until the next
\* handshake of the node.
THEOREM EstablishedTogetherInOrder ==
  ASSUME InOrder, MaxRootReboots = 0
  PROVE  Spec => []EstablishedTogether
<1>1. IInv /\ OrderInv => EstablishedTogether
  <2> SUFFICES ASSUME IInv, OrderInv, NEW n \in Node, ns[n].state = "ESTABLISHED"
               PROVE  session_is_established(rs[n]) /\ rs[n].ss = ns[n].ss
    BY DEF EstablishedTogether, session_is_established
  <2>1. Confirming(ns[n], Asks(nq[n]), up[n], down[n], rs[n])
    BY DEF OrderInv, Order, Phase, Confirms
  <2>2. rs[n].state = "ESTABLISHED" /\ rs[n].ss = ns[n].ss
    BY <2>1 DEF Confirming
  <2>3. root_armed(rs[n])
    BY DEF IInv, RootSafe
  <2> QED  BY <2>2, <2>3 DEF session_is_established, root_armed, armed
<1>2. Spec => []IInv
  BY Invariant
<1> QED  BY <1>1, <1>2, PhasesInOrder, PTL
=============================================================================
