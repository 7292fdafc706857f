-------------------------------- MODULE TxBag --------------------------------
(***************************************************************************)
(* What the transmit queue promises its callers, without the array: a bag  *)
(* of packets that holds at most PQC_TX_QUEUE_SIZE of them.  A message is  *)
(* taken whole or not at all, a packet leaves the bag once, the most       *)
(* urgent ones first, and among those one of a node that was not served    *)
(* last.  Nothing is said about the order of the packets of one message.   *)
(***************************************************************************)
EXTENDS Integers, Sequences, FiniteSets, Bags

CONSTANTS
  PQC_TX_QUEUE_SIZE,  \* most packets at a time
  Nodes,              \* nodes packets go to or come from
  Messages,           \* the messages, as sequences of packets
  Priority(_),        \* of a packet kind, 0 is the most urgent
  NoNode              \* last before anything was sent

VARIABLES bag, last

vars == <<bag, last>>

Init == bag = EmptyBag /\ last = NoNode

\* The packets of a bag with their copies numbered: as many as the bag holds.
Copies(b) == UNION {{p} \X (1 .. b[p]) : p \in BagToSet(b)}

\* The packets of a message, as a bag.
PacketsOf(ps) == [p \in {ps[i] : i \in DOMAIN ps} |-> Cardinality({i \in DOMAIN ps : ps[i] = p})]

Add(ps) ==
  /\ Cardinality(Copies(bag)) + Len(ps) <= PQC_TX_QUEUE_SIZE
  /\ bag' = bag (+) PacketsOf(ps)
  /\ UNCHANGED last

Take(p) ==
  LET urgent == {r \in BagToSet(bag) : \A o \in BagToSet(bag) : Priority(r.kind) <= Priority(o.kind)}
  IN
  /\ p \in urgent
  /\ p.node = last => \A r \in urgent : r.node = last
  /\ bag' = bag (-) SetToBag({p})
  /\ last' = p.node

\* Every packet in S goes, each with all its copies.
Remove(S) ==
  /\ bag' = [p \in BagToSet(bag) \ S |-> bag[p]]
  /\ UNCHANGED last

Next ==
  \/ \E ps \in Messages : Add(ps)
  \/ \E p \in BagToSet(bag) : Take(p)
  \/ \E n \in Nodes : Remove({p \in BagToSet(bag) : p.node = n})
  \/ \E r \in BagToSet(bag) :
       Remove({p \in BagToSet(bag) : p.node = r.node /\ p.kind = r.kind /\ p.msg_id = r.msg_id})

Spec == Init /\ [][Next]_vars
=============================================================================
