---------------------------- MODULE Fragmentation ----------------------------
(***************************************************************************)
(* Reassembly of one fragmented message (src/src/PQC/fragmentation.c), the *)
(* receive slot around it (src/src/PQC/handshake_fsm.c) and the list of    *)
(* missing fragments of a NACK (src/src/common/nack.c).  The payload       *)
(* buffer is the set of the fragments received so far, each paired with    *)
(* what it carried.                                                        *)
(***************************************************************************)
EXTENDS Naturals, FiniteSets

CONSTANTS
  PkFrags,    \* fragment_tx_count(CW_HQC_PUBLIC_KEY_LEN), 36
  CtFrags,    \* fragment_tx_count(CW_HQC_CIPHERTEXT_LEN), 71
  NackMax     \* PQC_NACK_MAX_MISSING, 16

ASSUME FragsAssumption == PkFrags \in Nat \ {0} /\ CtFrags \in Nat \ {0}
ASSUME NackAssumption  == NackMax \in Nat \ {0}

\* fragment_tx_count of the message types a receiver reassembles.
total_frags(type) == CASE type = "PK" -> PkFrags [] type = "CT" -> CtFrags [] OTHER -> 1

FragIdx(type) == 0 .. total_frags(type) - 1
Frags         == 0 .. PkFrags + CtFrags     \* of any message

\* fragment_rx_init and fragment_rx_reset: memset to zero.
fragment_rx_init ==
  [active |-> FALSE, msg_type |-> "NONE", msg_id |-> 0,
   received_frags |-> 0, buffer |-> {}]

bitmap(rx)   == {b[1] : b \in rx.buffer}
contents(rx) == {b[2] : b \in rx.buffer}

\* fragment_rx_add returns 1: a fresh context takes any message, an active one
\* only further fragments of the message it started with.  total_frags is a
\* function of the message type.
fragment_rx_accepts(rx, type, id, frag) ==
  /\ frag < total_frags(type)
  /\ rx.active => rx.msg_type = type /\ rx.msg_id = id

\* The context after fragment_rx_add: the first copy of a fragment is kept.
fragment_rx_add(rx, type, id, frag, payload) ==
  IF ~fragment_rx_accepts(rx, type, id, frag) THEN rx
  ELSE [active |-> TRUE, msg_type |-> type, msg_id |-> id,
        received_frags |-> rx.received_frags + (IF frag \in bitmap(rx) THEN 0 ELSE 1),
        buffer |-> rx.buffer \cup (IF frag \in bitmap(rx) THEN {} ELSE {<<frag, payload>>})]

\* The fragments received all carry parts of one message, and which one.
unmixed(rx) == \E c \in contents(rx) : contents(rx) = {c}
content(rx) == CHOOSE c \in contents(rx) : TRUE

fragment_rx_complete(rx) == rx.active /\ rx.received_frags = total_frags(rx.msg_type)

-----------------------------------------------------------------------------
\* The NackMax lowest missing fragments (pqc_nack_build_from_rx).
missing(rx) ==
  LET gaps == FragIdx(rx.msg_type) \ bitmap(rx)
  IN  {f \in gaps : Cardinality({g \in gaps : g < f}) < NackMax}

-----------------------------------------------------------------------------
\* The k-th smallest of the fragments fs: as many indices lie before it as see
\* fewer than k members of fs at or below them.
nth(fs, k) == Cardinality({x \in Frags : Cardinality({f \in fs : f <= x}) < k})

\* A receive slot: hs_rx_slot_t without its clock readings.
FreeSlot(nobody) ==
  [owner |-> nobody, last_nack_received_frags |-> 0, last_nack_missing_count |-> 0,
   ctx |-> fragment_rx_init]

\* Slots with the given owners for messages of one type.
RxContext(ids, type, payload) ==
  [active: BOOLEAN, msg_type: {"NONE", type}, msg_id: ids, received_frags: Nat,
   buffer: SUBSET (FragIdx(type) \X payload)]
RxSlot(owners, ids, type, payload) ==
  [owner: owners, last_nack_received_frags: Nat, last_nack_missing_count: Nat,
   ctx: RxContext(ids, type, payload)]

\* rx_slot_get on a free slot.
NewSlot(owner) == FreeSlot(owner)

\* rx_slot_nack_due; late says whether HS_NACK_REPEAT_DELAY has passed since the
\* last NACK of this slot.
rx_slot_nack_due(slot, frag, late) ==
  LET rx == slot.ctx IN
  /\ total_frags(rx.msg_type) - 1 \in bitmap(rx)
  /\ IF slot.last_nack_missing_count = 0
     THEN frag + 1 = total_frags(rx.msg_type)
     ELSE \/ rx.received_frags >= slot.last_nack_received_frags + slot.last_nack_missing_count
          \/ late

\* The slot after rx_slot_note_nack with a missing count other than zero.
rx_slot_note_nack(slot) ==
  [slot EXCEPT !.last_nack_received_frags = slot.ctx.received_frags,
               !.last_nack_missing_count = Cardinality(missing(slot.ctx))]
=============================================================================
