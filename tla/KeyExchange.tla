----------------------------- MODULE KeyExchange -----------------------------
(***************************************************************************)
(* What the key establishment promises to the code that uses its keys:     *)
(* which secret either side holds for the other and when it changes.       *)
(* Handshake implements this specification; TempChannel builds on it       *)
(* instead of on fragments, retries and queues.                            *)
(*                                                                         *)
(* A secret is the position at which it was drawn since the start of its   *)
(* node; 0 is the zeroed buffer.  The generator is never seeded, so after  *)
(* a restart the same secrets come again, in the same order.               *)
(***************************************************************************)
EXTENDS Naturals

CONSTANT Node

VARIABLES
  attempts,     \* attempts[n]: handshakes node n has begun
  prng,         \* prng[n]: secrets n has drawn since its last start
  asked,        \* asked[n]: n waits for the public key
  node_ss,      \* node_ss[n]: the secret n holds
  node_up,      \* node_up[n]: n considers its session established
  root_state,   \* root_state[n]: the root's session for n
  root_ss       \* root_ss[n]: the secret the root holds for n

nodeKeys == <<attempts, prng, asked, node_ss, node_up>>
rootKeys == <<root_state, root_ss>>
keyVars  == <<attempts, prng, asked, node_ss, node_up, root_state, root_ss>>

RootStates == {"IDLE", "WAIT_CT", "ESTABLISHED"}

KeyTypeOK ==
  /\ attempts \in [Node -> Nat] /\ prng \in [Node -> Nat] /\ asked \in [Node -> BOOLEAN]
  /\ node_ss \in [Node -> Nat] /\ node_up \in [Node -> BOOLEAN]
  /\ root_state \in [Node -> RootStates] /\ root_ss \in [Node -> Nat]

KeyInit ==
  /\ attempts = [n \in Node |-> 0] /\ prng = [n \in Node |-> 0]
  /\ asked = [n \in Node |-> FALSE] /\ node_ss = [n \in Node |-> 0]
  /\ node_up = [n \in Node |-> FALSE]
  /\ root_state = [n \in Node |-> "IDLE"] /\ root_ss = [n \in Node |-> 0]

-----------------------------------------------------------------------------
(* Node.                                                                   *)

\* An idle node asks for the public key.
NodeBegin(n) ==
  /\ ~asked[n] /\ ~node_up[n] /\ node_ss[n] = 0
  /\ asked' = [asked EXCEPT ![n] = TRUE]
  /\ attempts' = [attempts EXCEPT ![n] = @ + 1]
  /\ UNCHANGED <<prng, node_ss, node_up, rootKeys>>

\* The key is there: one encapsulation per handshake.
NodeEncapsulate(n) ==
  /\ asked[n]
  /\ asked' = [asked EXCEPT ![n] = FALSE]
  /\ prng' = [prng EXCEPT ![n] = @ + 1]
  /\ node_ss' = [node_ss EXCEPT ![n] = prng[n] + 1]
  /\ UNCHANGED <<attempts, node_up, rootKeys>>

\* The root confirmed the ciphertext.
NodeConfirm(n) ==
  /\ node_ss[n] # 0 /\ ~node_up[n]
  /\ node_up' = [node_up EXCEPT ![n] = TRUE]
  /\ UNCHANGED <<attempts, prng, asked, node_ss, rootKeys>>

\* The session is wiped; the generator goes on, or starts again.
wiped(n) ==
  /\ asked' = [asked EXCEPT ![n] = FALSE]
  /\ node_ss' = [node_ss EXCEPT ![n] = 0]
  /\ node_up' = [node_up EXCEPT ![n] = FALSE]
  /\ UNCHANGED <<attempts, rootKeys>>

\* session_reset after a failure.
NodeReset(n) == ~node_up[n] /\ wiped(n) /\ UNCHANGED prng

\* A restart of the node.
NodeReboot(n) == wiped(n) /\ prng' = [prng EXCEPT ![n] = 0]

-----------------------------------------------------------------------------
(* Root.                                                                   *)

\* GETPK, whatever the session was doing; it waits for the CT, or stays idle
\* when the PK does not fit into the queue.
RootRestart(n, state) ==
  /\ attempts[n] > 0
  /\ root_state' = [root_state EXCEPT ![n] = state]
  /\ root_ss' = [root_ss EXCEPT ![n] = 0]
  /\ UNCHANGED nodeKeys

\* A complete ciphertext of node n, perhaps of an earlier handshake of n: n never
\* drew more secrets than it began handshakes.
RootEstablish(n, ss) ==
  /\ root_state[n] = "WAIT_CT" /\ ss \in 1 .. attempts[n]
  /\ root_state' = [root_state EXCEPT ![n] = "ESTABLISHED"]
  /\ root_ss' = [root_ss EXCEPT ![n] = ss]
  /\ UNCHANGED nodeKeys

\* The handshake is given up.
RootGiveUp(n) ==
  /\ root_state[n] = "WAIT_CT"
  /\ root_state' = [root_state EXCEPT ![n] = "IDLE"]
  /\ UNCHANGED <<nodeKeys, root_ss>>

\* The root restarts.
RootForget ==
  /\ root_state' = [n \in Node |-> "IDLE"]
  /\ root_ss' = [n \in Node |-> 0]
  /\ UNCHANGED nodeKeys

-----------------------------------------------------------------------------
NodeKeyStep(n) == NodeBegin(n) \/ NodeEncapsulate(n) \/ NodeConfirm(n)
                    \/ NodeReset(n) \/ NodeReboot(n)

RootKeyStep(n) ==
  \/ \E state \in {"IDLE", "WAIT_CT"} : RootRestart(n, state)
  \/ \E ss \in 1 .. attempts[n] : RootEstablish(n, ss)
  \/ RootGiveUp(n)

KeyNext == (\E n \in Node : NodeKeyStep(n) \/ RootKeyStep(n)) \/ RootForget

KeySpec == KeyInit /\ [][KeyNext]_keyVars
=============================================================================
