----------------------------- MODULE TempChannel -----------------------------
(***************************************************************************)
(* The encrypted measurements (src/src/PQC/PQC.c, pqc_send_encrypted_temp  *)
(* and pqc_handle_encrypted_temp, with their callers in src/node_main.c    *)
(* and src/server_main.c), and the impact window in which the root         *)
(* measures how a handshake disturbs the measurements of other nodes.      *)
(*                                                                         *)
(* A node encrypts its k-th measurement under a key stream derived from    *)
(* the shared secret and the counter k.  The counter travels only inside   *)
(* the ciphertext, so the root has to guess it: it tries a window of       *)
(* counters from the one it expects.  Keys change as KeyExchange says; the *)
(* network reorders packets at will.  Some packets are lost, and some      *)
(* arrive again: the network repeats them or their sender does.            *)
(***************************************************************************)
EXTENDS KeyExchange, FiniteSets

CONSTANTS
  Nobody,
  PQC_TEMP_RX_COUNTER_WINDOW,  \* counters the root tries
  CounterMod,                  \* counters are uint32_t: they count modulo 2^32
  AirCap,                      \* measurements of one node queued or in flight
  MaxTemp,                     \* measurements under one secret that are explored
  MaxMeasured,                 \* measurements of one node that are explored
  MaxAttempts,                 \* handshakes of one node that are explored
  MsgIds, NoId,                \* message ids of a CT; none
  MaxLoss,                     \* measurements that are lost
  MaxDup,                      \* packets that arrive once more
  MaxFails,                    \* handshakes that a node or the root gives up
  MaxNodeReboots, MaxRootReboots,
  MaxFaults                    \* of all these together in one behaviour

ASSUME WindowAssumption ==
  /\ PQC_TEMP_RX_COUNTER_WINDOW \in Nat \ {0} /\ CounterMod \in Nat \ {0}
  /\ Nobody \notin Node /\ NoId \notin MsgIds
ASSUME TempBounds ==
  /\ MaxTemp \in Nat /\ MaxTemp + PQC_TEMP_RX_COUNTER_WINDOW < CounterMod  \* no wrap
  /\ AirCap \in Nat /\ MaxAttempts \in Nat /\ MaxMeasured \in Nat
  /\ MaxLoss \in Nat /\ MaxDup \in Nat /\ MaxFails \in Nat
  /\ MaxNodeReboots \in Nat /\ MaxRootReboots \in Nat /\ MaxFaults \in Nat

VARIABLES
  pending,      \* pending[n]: pending_msg_id of node n while it waits for the ACK
  tx_counter,   \* tx_counter[n]: of the session at node n
  rx_counter,   \* rx_counter[n]: of the root's session for n
  temp_rx_ok,   \* temp_rx_ok[n]: measurements of n the root accepted since its start
  impact,       \* impact_window: the node it is open for and the snapshots
  up, down,     \* up[n], down[n]: packets in flight to the root, to node n
  faults,       \* faults that are left
  measured,     \* history: measured[n], how many measurements n ever sent
  sent,         \* history: sent[n], those n encrypted since its last start
  got,          \* history: got[n], those accepted in the root's present session
  late,         \* history: late[n], n was established before that session was
  resets,       \* history: resets[n], how often the root reset the session of n
  impact_temp   \* history: the IMPACT_TEMP lines of the last window

chanVars == <<pending, tx_counter, rx_counter, temp_rx_ok, impact, up, down, faults,
              measured, sent, got, late, resets, impact_temp>>
tempVars == <<keyVars, chanVars>>

-----------------------------------------------------------------------------
(* Packets.  GETPK, PK, CT and ACK stand for the whole messages, each      *)
(* repeated by its sender until it is answered.  A repetition of what was  *)
(* lost is a packet that took longer, any other is one that arrives twice, *)
(* and a packet that its receiver ignores is one that does not arrive.     *)

GETPK             == [kind |-> "GETPK"]
PK                == [kind |-> "PK"]
CT(ss, id)        == [kind |-> "CT", ss |-> ss, msg_id |-> id]
ACK(id)           == [kind |-> "ACK", confirms |-> id]
TEMP(ss, ctr, v)  == [kind |-> "TEMP", ss |-> ss, ctr |-> ctr, value |-> v]

TempPacket == [kind: {"TEMP"}, ss: Nat, ctr: Nat, value: Nat]
UpPacket   == [kind: {"GETPK"}] \cup [kind: {"CT"}, ss: Nat, msg_id: MsgIds]
                \cup TempPacket
DownPacket == [kind: {"PK"}] \cup [kind: {"ACK"}, confirms: MsgIds]

temps(n) == {p \in up[n] : p.kind = "TEMP"}

\* One of the faults that are left is used.
fault(kind) ==
  /\ faults[kind] > 0 /\ faults.all > 0
  /\ faults' = [faults EXCEPT ![kind] = @ - 1, !.all = @ - 1]

\* Packet p of node n arrives; a copy of it may stay in flight.
receive(chan, n, p) ==
  /\ p \in chan[n]
  /\ \/ chan' = [chan EXCEPT ![n] = @ \ {p}] /\ UNCHANGED faults
     \/ fault("dup") /\ UNCHANGED chan

send(chan, n, p) == chan' = [chan EXCEPT ![n] = @ \cup {p}]

-----------------------------------------------------------------------------
TempInit ==
  /\ KeyInit
  /\ pending = [n \in Node |-> NoId]
  /\ tx_counter = [n \in Node |-> 0] /\ rx_counter = [n \in Node |-> 0]
  /\ temp_rx_ok = [n \in Node |-> 0]
  /\ impact = [target |-> Nobody, snapshots |-> {}]
  /\ up = [n \in Node |-> {}] /\ down = [n \in Node |-> {}]
  /\ faults = [loss |-> MaxLoss, dup |-> MaxDup, fail |-> MaxFails,
               node |-> MaxNodeReboots, root |-> MaxRootReboots, all |-> MaxFaults]
  /\ measured = [n \in Node |-> 0] /\ sent = [n \in Node |-> {}] /\ got = [n \in Node |-> {}]
  /\ late = [n \in Node |-> FALSE] /\ resets = [n \in Node |-> 0] /\ impact_temp = {}

-----------------------------------------------------------------------------
(* Node.                                                                   *)

\* What no step of a node touches.
rootSide == <<rx_counter, temp_rx_ok, impact, got, late, resets, impact_temp>>

NodeAsk(n) ==
  /\ attempts[n] < MaxAttempts
  /\ NodeBegin(n)
  /\ send(up, n, GETPK)
  /\ UNCHANGED <<rootSide, pending, tx_counter, down, faults, measured, sent>>

\* The PK is complete: the CT goes out under the next message id, which depends
\* on the NACKs sent before, or there is no room for it and the handshake fails.
NodeRecvPk(n) ==
  /\ NodeEncapsulate(n)
  /\ receive(down, n, PK)
  /\ \/ \E id \in MsgIds :
          send(up, n, CT(prng[n] + 1, id)) /\ pending' = [pending EXCEPT ![n] = id]
     \/ UNCHANGED <<up, pending>>
  /\ UNCHANGED <<rootSide, tx_counter, measured, sent>>

\* An ACK for the id of the pending CT, whichever CT it was sent for.
NodeRecvAck(n) ==
  /\ pending[n] # NoId /\ NodeConfirm(n)
  /\ receive(down, n, ACK(pending[n]))
  /\ pending' = [pending EXCEPT ![n] = NoId]
  /\ UNCHANGED <<rootSide, tx_counter, up, measured, sent>>

\* Mutant: the counter does not advance.
next_counter_same(c) == c

\* tx_counter++ of a uint32_t.
next_counter(c) == (c + 1) % CounterMod

\* Temp_measurement_process and pqc_send_encrypted_temp.  Without room in the
\* queue nothing is sent and the counter stays.
NodeTemp(n) ==
  LET p == TEMP(node_ss[n], tx_counter[n], measured[n] + 1) IN
  /\ node_up[n] /\ Cardinality(temps(n)) < AirCap
  /\ tx_counter[n] < MaxTemp /\ measured[n] < MaxMeasured
  /\ send(up, n, p)
  /\ tx_counter' = [tx_counter EXCEPT ![n] = next_counter(@)]
  /\ measured' = [measured EXCEPT ![n] = @ + 1]
  /\ sent' = [sent EXCEPT ![n] = @ \cup {p}]
  /\ UNCHANGED <<keyVars, rootSide, pending, down, faults>>

\* A handshake the node gives up: session_reset.
NodeGiveUp(n) ==
  /\ asked[n] \/ node_ss[n] # 0
  /\ fault("fail")
  /\ NodeReset(n)
  /\ pending' = [pending EXCEPT ![n] = NoId]
  /\ tx_counter' = [tx_counter EXCEPT ![n] = 0]
  /\ UNCHANGED <<rootSide, up, down, measured, sent>>

\* A restart of the node: the counter starts again, and with it the secrets.
NodeRestart(n) ==
  /\ fault("node")
  /\ NodeReboot(n)
  /\ pending' = [pending EXCEPT ![n] = NoId]
  /\ tx_counter' = [tx_counter EXCEPT ![n] = 0]
  /\ sent' = [sent EXCEPT ![n] = {}]
  /\ late' = [late EXCEPT ![n] = FALSE]
  /\ UNCHANGED <<rx_counter, temp_rx_ok, impact, up, down, measured, got, resets, impact_temp>>

-----------------------------------------------------------------------------
(* The impact window.                                                      *)

snapshot(n) ==
  [node |-> n, ok |-> temp_rx_ok[n], rx |-> rx_counter[n], resets |-> resets[n]]

\* GETPK of n opens the window unless it is open for another node.
impact_start(n, w) ==
  IF w.target # Nobody THEN w
  ELSE [target |-> n,
        snapshots |-> {snapshot(m) : m \in {m \in Node \ {n} : root_state[m] = "ESTABLISHED"}}]

\* Differences of uint32_t.
delta(new, old) == (new + CounterMod - old) % CounterMod

\* Mutants: the gap ignores what was accepted in the window; it is not bounded
\* below by zero.
counter_gap_raw(s) == delta(rx_counter[s.node], s.rx)
counter_gap_signed(s) == delta(rx_counter[s.node], s.rx) - delta(temp_rx_ok[s.node], s.ok)

counter_gap(s) ==
  LET rx == delta(rx_counter[s.node], s.rx)
      ok == delta(temp_rx_ok[s.node], s.ok)
  IN  IF rx > ok THEN rx - ok ELSE 0

\* History: the counters the root really passed over since the snapshot.
skipped(s) ==
  {c \in s.rx .. rx_counter[s.node] - 1 : \A p \in got[s.node] : p.ctr # c}

lines(w) ==
  {[node |-> s.node, gap |-> counter_gap(s), skipped |-> Cardinality(skipped(s)),
    reset |-> s.resets # resets[s.node]] : s \in w.snapshots}

\* impact_end: only the target closes the window; the lines go to the CSV.
impact_end(n, w) ==
  IF w.target # n THEN impact' = w /\ UNCHANGED impact_temp
  ELSE /\ impact' = [target |-> Nobody, snapshots |-> {}]
       /\ impact_temp' = lines(w)

-----------------------------------------------------------------------------
(* Root.                                                                   *)

\* What no step of the root touches.
nodeSide == <<pending, tx_counter, measured, sent>>

\* udp_rx_callback, GETPK: the session is reset and the window opened, and
\* closed again when the PK does not fit into the queue.
RootRecvGetpk(n) ==
  /\ receive(up, n, GETPK)
  /\ rx_counter' = [rx_counter EXCEPT ![n] = 0]
  /\ got' = [got EXCEPT ![n] = {}]
  /\ resets' = [resets EXCEPT ![n] = @ + 1]
  /\ \/ /\ RootRestart(n, "WAIT_CT")
        /\ send(down, n, PK)
        /\ impact' = impact_start(n, impact)
        /\ UNCHANGED impact_temp
     \/ /\ RootRestart(n, "IDLE")
        /\ impact_end(n, impact_start(n, impact))
        /\ UNCHANGED down
  /\ UNCHANGED <<nodeSide, temp_rx_ok, late>>

\* A complete CT: established, confirmed, the window closed.  An established
\* session confirms any CT again.
RootRecvCt(n) ==
  \E p \in up[n] :
    /\ p.kind = "CT"
    /\ receive(up, n, p)
    /\ \/ /\ RootEstablish(n, p.ss)
          /\ impact_end(n, impact)
          /\ late' = [late EXCEPT ![n] = node_up[n]]
          /\ send(down, n, ACK(p.msg_id))
       \/ /\ root_state[n] = "ESTABLISHED"
          /\ send(down, n, ACK(p.msg_id))
          /\ UNCHANGED <<keyVars, impact, impact_temp, late>>
    /\ UNCHANGED <<nodeSide, rx_counter, temp_rx_ok, got, resets>>

\* The handshake fails or times out: root_fail_reset.
RootHandshakeFails(n) ==
  /\ fault("fail")
  /\ RootGiveUp(n)
  /\ impact_end(n, impact)
  /\ UNCHANGED <<nodeSide, rx_counter, temp_rx_ok, up, down, got, late, resets>>

\* crypto_worker_derive_aes_iv and crypto_worker_aes_ctr_xcrypt: the counter
\* field that decryption under a secret and a trial counter yields.  Another
\* secret or another counter yields noise, taken to be no counter at all.
noise == CounterMod
decrypted_counter(ss, trial, p) ==
  IF p.ss = ss /\ p.ctr = trial THEN p.ctr ELSE noise

trial(n, offset) == (rx_counter[n] + offset) % CounterMod

\* Mutants: the window looks back; there is no window.
matching_back(n, p) ==
  {offset \in 0 .. PQC_TEMP_RX_COUNTER_WINDOW - 1 :
     decrypted_counter(root_ss[n], p.ctr, p) = p.ctr /\ root_state[n] = "ESTABLISHED"}
matching_next_only(n, p) ==
  {offset \in {0} :
     /\ root_state[n] = "ESTABLISHED"
     /\ decrypted_counter(root_ss[n], trial(n, offset), p) = trial(n, offset)}

\* The offsets of the window at which the embedded counter matches.
matching(n, p) ==
  {offset \in 0 .. PQC_TEMP_RX_COUNTER_WINDOW - 1 :
     /\ root_state[n] = "ESTABLISHED"
     /\ decrypted_counter(root_ss[n], trial(n, offset), p) = trial(n, offset)}

committed(n, offset) == (trial(n, offset) + 1) % CounterMod

\* pqc_handle_encrypted_temp: the first match is taken and the counter moves
\* behind it, or the packet is dropped.
RootRecvTemp(n) ==
  \E p \in temps(n) :
    /\ receive(up, n, p)
    /\ \/ \E offset \in matching(n, p) :
            /\ \A earlier \in matching(n, p) : offset <= earlier
            /\ rx_counter' = [rx_counter EXCEPT ![n] = committed(n, offset)]
            /\ temp_rx_ok' = [temp_rx_ok EXCEPT ![n] = @ + 1]
            /\ got' = [got EXCEPT ![n] = @ \cup {p}]
       \/ matching(n, p) = {} /\ UNCHANGED <<rx_counter, temp_rx_ok, got>>
    /\ UNCHANGED <<keyVars, nodeSide, impact, down, late, resets, impact_temp>>

\* The root restarts: every session and counter is gone, and the window.  Its key
\* pair is the one it had before.
RootReboot ==
  /\ fault("root")
  /\ RootForget
  /\ rx_counter' = [n \in Node |-> 0]
  /\ temp_rx_ok' = [n \in Node |-> 0]
  /\ impact' = [target |-> Nobody, snapshots |-> {}]
  /\ got' = [n \in Node |-> {}]
  /\ resets' = [n \in Node |-> resets[n] + 1]
  /\ UNCHANGED <<nodeSide, up, down, late, impact_temp>>

\* A measurement is lost.
Lose(n) ==
  /\ fault("loss")
  /\ \E p \in temps(n) : up' = [up EXCEPT ![n] = @ \ {p}]
  /\ UNCHANGED <<keyVars, nodeSide, rootSide, down>>

-----------------------------------------------------------------------------
TempNext ==
  \/ \E n \in Node :
       \/ NodeAsk(n) \/ NodeRecvPk(n) \/ NodeRecvAck(n)
       \/ NodeTemp(n) \/ NodeGiveUp(n) \/ NodeRestart(n)
       \/ RootRecvGetpk(n) \/ RootRecvCt(n) \/ RootHandshakeFails(n) \/ RootRecvTemp(n)
       \/ Lose(n)
  \/ RootReboot

TempSpec == TempInit /\ [][TempNext]_tempVars

-----------------------------------------------------------------------------
(* Properties.                                                             *)

Snapshot == [node: Node, ok: Nat, rx: Nat, resets: Nat]
Line     == [node: Node, gap: Nat, skipped: Nat, reset: BOOLEAN]

\* What every variable ranges over: counters stay below 2^32, sessions and
\* packets are of the shapes the handlers expect.
TempTypeOK ==
  /\ KeyTypeOK /\ pending \in [Node -> MsgIds \cup {NoId}]
  /\ tx_counter \in [Node -> 0 .. CounterMod - 1] /\ rx_counter \in [Node -> 0 .. CounterMod - 1]
  /\ temp_rx_ok \in [Node -> Nat]
  /\ impact \in [target: Node \cup {Nobody}, snapshots: SUBSET Snapshot]
  /\ up \in [Node -> SUBSET UpPacket] /\ down \in [Node -> SUBSET DownPacket]
  /\ faults \in [loss: Nat, dup: Nat, fail: Nat, node: Nat, root: Nat, all: Nat]
  /\ measured \in [Node -> Nat] /\ late \in [Node -> BOOLEAN]
  /\ sent \in [Node -> SUBSET TempPacket] /\ got \in [Node -> SUBSET TempPacket]
  /\ resets \in [Node -> Nat] /\ impact_temp \in SUBSET Line

\* Between two restarts a node never encrypts two measurements under the same
\* secret and counter, handshakes given up and stale confirmations included: the
\* key stream of pqc_send_encrypted_temp depends on nothing else.  Over a restart
\* this is not so: secrets and counters come again.
NoCounterReuse ==
  \A n \in Node : \A p, q \in sent[n] : p.ss = q.ss /\ p.ctr = q.ctr => p = q

\* Within a session of the root every measurement is accepted at most once and
\* only if its counter lies above those of all that were accepted before it
\* (pqc_handle_encrypted_temp), however packets are repeated and reordered.
AcceptsInOrder(n) ==
  temp_rx_ok'[n] > temp_rx_ok[n] =>
    \E p \in got'[n] \ got[n] : \A q \in got[n] : q.ctr < p.ctr
AcceptedOnceInOrder == [][\A n \in Node : AcceptsInOrder(n)]_tempVars

\* While both sides hold the same secret and nothing is in flight, the next
\* measurement is understood: its counter lies in the window the root tries.
\* Counters move on two devices and are reset by five handlers.  Two things
\* spoil it and are excluded: a root that is established after the node is (a
\* late CT), and one that has accepted measurements from before a restart of the
\* node, which the repeated secret makes possible.
InStep(n) ==
  /\ node_up[n] /\ root_state[n] = "ESTABLISHED" /\ root_ss[n] = node_ss[n]
  /\ ~late[n] /\ got[n] \subseteq sent[n]
TempUnderstood ==
  \A n \in Node : InStep(n) /\ temps(n) = {} =>
    tx_counter[n] - rx_counter[n] \in 0 .. PQC_TEMP_RX_COUNTER_WINDOW - 1

\* counter_gap of an IMPACT_TEMP line is the number of counters the root passed
\* over while the window was open, provided that the session of that node was
\* not reset meanwhile.
GapCountsSkipped == \A l \in impact_temp : ~l.reset => l.gap = l.skipped

\* "counter_gap estimates skipped TEMP counters during the HS window"
\* (src/src/metrics/README.md): it is never more than the node has sent.
GapIsPlausible == \A l \in impact_temp : l.gap <= measured[l.node]
=============================================================================
