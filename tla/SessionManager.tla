--------------------------- MODULE SessionManager ---------------------------
(***************************************************************************)
(* The session record both roles keep (src/src/PQC/session_manager.c).     *)
(* Every operator takes a session and returns the session the function of  *)
(* the same name leaves behind.  The clock is abstracted: retry_deadline   *)
(* is either                                                               *)
(*   "long"   SESSION_RETRY_TIMEOUT (120 s) or more away when it is set,   *)
(*   "short"  at most HS_NACK_REPEAT_DELAY (4 s) away when it is set.      *)
(* last_activity, peer_addr and the telemetry snapshot guide no decision   *)
(* of the handshake and are left out; ss also stands for aes_key, which is *)
(* a hash of it.                                                           *)
(***************************************************************************)
EXTENDS Naturals

CONSTANTS
  Node,                 \* the nodes that talk to the root
  Nobody,               \* no node: owner of a free slot
  SESSION_MAX_RETRIES,  \* retries of one pending message
  MsgIdMod              \* next_msg_id is a uint8_t: it counts modulo 2^8

ASSUME NodeAssumption    == Nobody \notin Node
ASSUME RetriesAssumption == SESSION_MAX_RETRIES \in Nat
ASSUME MsgIdAssumption   == MsgIdMod \in Nat \ {0}

States    == {"UNUSED", "IDLE", "WAIT_PK", "WAIT_CT", "WAIT_ACK", "ESTABLISHED", "FAILED"}
Pending   == {"NONE", "GETPK", "PK", "CT"}
Deadlines == {"long", "short"}
MsgId     == 0 .. MsgIdMod - 1

\* The generator behind crypto_kem_enc is a static that nothing seeds: it starts
\* from zero at every start of every device.  The k-th encapsulation since the
\* start draws the same secret each time and on each node, so a secret is its
\* position k; a ciphertext is named by the secret it encapsulates.  NoSecret is
\* the zeroed buffer.
Secret   == Nat
NoSecret == 0

Session ==
  [state: States, established: BOOLEAN, next_msg_id: MsgId, ss: Secret,
   retry_count: 0 .. SESSION_MAX_RETRIES, pending_msg_type: Pending, pending_msg_id: MsgId,
   waiting_response: BOOLEAN, retry_deadline: Deadlines,
   node_metrics_mask: SUBSET Nat, session_summary_emitted: BOOLEAN]

UnusedSession ==
  [state |-> "UNUSED", established |-> FALSE, next_msg_id |-> 0, ss |-> NoSecret,
   retry_count |-> 0, pending_msg_type |-> "NONE", pending_msg_id |-> 0,
   waiting_response |-> FALSE, retry_deadline |-> "long",
   node_metrics_mask |-> {}, session_summary_emitted |-> FALSE]

\* session_init; session_reset leaves the same record (it keeps only the role,
\* the node id, the peer address and the telemetry).
session_init  == [UnusedSession EXCEPT !.state = "IDLE"]
session_reset == session_init

session_is_established(s) == s.state = "ESTABLISHED" /\ s.established
session_is_failed(s)      == s.state = "FAILED"

\* Mutants: the timer is not armed; waiting_response survives; one retry more.
set_pending_unarmed(s, type, id) ==
  [s EXCEPT !.pending_msg_type = type, !.pending_msg_id = id, !.retry_deadline = "long"]
clear_pending_keeps_waiting(s) ==
  [s EXCEPT !.pending_msg_type = "NONE", !.pending_msg_id = 0, !.retry_count = 0]
can_retry_once_more(s) == s.retry_count <= SESSION_MAX_RETRIES

session_set_pending(s, type, id) ==
  [s EXCEPT !.pending_msg_type = type, !.pending_msg_id = id,
            !.waiting_response = TRUE, !.retry_deadline = "long"]

session_clear_pending(s) ==
  [s EXCEPT !.pending_msg_type = "NONE", !.pending_msg_id = 0,
            !.waiting_response = FALSE, !.retry_count = 0]

session_can_retry(s) == s.retry_count < SESSION_MAX_RETRIES

\* hs_mark_retry_for_transfer and hs_mark_rx_retry.
hs_mark_retry(s) == [s EXCEPT !.retry_count = @ + 1, !.retry_deadline = "long"]

\* The timer is set again, and nothing else: after a NACK, or to let the queue
\* drain.
retry_in(s, deadline) == [s EXCEPT !.retry_deadline = deadline]

session_set_state(s, state) == [s EXCEPT !.state = state]

session_set_established(s) ==
  session_clear_pending([s EXCEPT !.state = "ESTABLISHED", !.established = TRUE])

session_set_failed(s) ==
  session_clear_pending([s EXCEPT !.state = "FAILED", !.established = FALSE])

\* session_next_msg_id called k times: the first call returns s.next_msg_id.
session_next_msg_ids(s, k) == [s EXCEPT !.next_msg_id = (@ + k) % MsgIdMod]
session_next_msg_id(s)     == session_next_msg_ids(s, 1)
=============================================================================
