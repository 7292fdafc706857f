# Verification of the HQC session layer

The repository is the firmware of a small sensor network: nodes read a sensor and
send the values, AES-encrypted, to a root over UDP/6LoWPAN (Contiki-NG on EFR32).
The key comes from an HQC key encapsulation. Public key and ciphertext are far
larger than a packet, so the firmware has its own fragmentation, retransmission,
session table and transmit queue. This directory models that layer in TLA+, the
encrypted measurements that use its keys, and the radio driver below it.

## 1. The system and its parts

| part | source | state | operations |
|---|---|---|---|
| session manager | `src/src/PQC/session_manager.c` | one `session_t` at a node, `SESSION_MAX_NODES` at the root: state, pending message and its id, retry count and deadline, secret, next message id | `session_init/reset`, `set_pending`, `clear_pending`, `set_established`, `set_failed`, `next_msg_id`, `get_or_create` |
| transmit queue | `src/src/PQC/PQC.c` | array of entries, tail, count, node served last | send, `pqc_tx_process` (one packet per 250 ms), drop by node or by message |
| fragmentation | `src/src/PQC/fragmentation.c` | receive context: message it belongs to, bitmap, buffer | `fragment_rx_add`, `fragment_tx` |
| NACK | `src/src/common/nack.c` | none | which fragments are missing, at most 16 |
| handshake FSM | `src/src/PQC/handshake_fsm.c` | receive slots, the root's key pair, the node's ciphertext | `hs_fsm_start`, `hs_fsm_handle_fragment`, `hs_fsm_retry` |
| node firmware | `src/node_main.c` | `getpk_in_flight`, `metrics_pending` | request the key, receive, retry, report metrics |
| root firmware | `src/server_main.c` | impact window | receive, retry, session summary |
| crypto worker | `src/src/PQC/crypto_worker.c` | none | HQC and AES calls |
| temperature channel | `PQC.c`, both mains | send and receive counters, snapshots of the impact window | encrypt, decrypt with a window of 16 counters, report the gap |
| metrics | `src/src/metrics/` | counters | build and encode reports |
| radio driver | `src/radio_diver/` | receive ring, `tx_status` | interrupt handler, `read`, `prepare`, `transmit`, `on`, `off`, `radio_proc` |
| vendored | `src/extern/` | | HQC reference code, tiny AES |

A node sends GETPK; the root answers with its public key PK in fragments; the node
encapsulates and sends the ciphertext CT in fragments; the root decapsulates and
confirms with ACK; the node then reports its metrics. Either side asks for missing
fragments with NACK. Both run the same FSM from cooperative Contiki processes: a
handler is never interrupted by another one of the same device, so all
concurrency is between the devices, the network and the timers. The radio driver is
the exception: RAIL's interrupt may fall between any two of its steps.

What is hard here, each at its line under "hazards" in `PROJECT.json`:

* message ids restart with every session, so an answer to an earlier handshake can
  be taken for an answer to this one;
* a GETPK that comes late or twice resets the root's session under the node's feet;
* state that belongs together lives in different files (session, `getpk_in_flight`,
  `node_ct`, receive slots, queued fragments, the impact window) and every way out
  of a handshake has to clean all of it;
* few slots: two receive slots, one impact window, 96 queue entries, ten sessions;
* retry timers race the answers they wait for;
* the counter of a measurement travels only inside its ciphertext: the root guesses
  it, and the two counters are reset by five handlers on two devices;
* nothing seeds the generator behind the encapsulation: a node that restarts draws the
  same secrets again, with its counter back at 0;
* snapshots of an impact window are compared with sessions that may have been reset;
* the interrupt shares the receive ring and `tx_status` with the processes, and
  events of a transmission may come after `transmit()` has given it up.

## 2. Modules

| module | models |
|---|---|
| `SessionManager` | the session record; each operator is the function of the same name, from a session to the session it leaves |
| `Fragmentation` | receive context, receive slot, missing fragments |
| `TxQueue` | the transmit queue, operator by function |
| `TxBag` | abstract specification: what the queue promises its callers, a bounded bag with priorities and a rotation between nodes |
| `TxQueueSystem` | the queue driven by arbitrary callers; shown to implement `TxBag` |
| `Handshake` | nodes, root and network: the composition of the first three, one action per handler or branch of a handler |
| `KeyExchange` | abstract specification: which secret either side holds and when it changes; `Handshake` implements it, `TempChannel` builds on it |
| `TempChannel` | measurements, counters, the root's window and the impact window with its snapshots, over the keys of `KeyExchange` |
| `FrameQueue` | abstract specification of the receive side of the radio driver: a bounded queue |
| `RadioDriver` | the radio driver: interrupt, receive ring, `radio_proc`, `transmit()`; shown to implement `FrameQueue` |
| `MCHandshake`, `MCTempChannel` | the symmetry sets for TLC |
| `TxQueueProofs` | lemmas: what the operators of `TxQueue` return and preserve |
| `TxQueueSystemProofs` | theorems about the queue under arbitrary callers: `tx_count`, one message at once or packet by packet, the step simulation of `TxBag` |
| `NodeProofs`, `RootProofs`, `HandshakeProofs` | what the operators of `SessionManager` and `Fragmentation` return, every action of a node, every action of the root, and the theorems about `Handshake` under any faults |
| `OrderProofs` | the theorems about `Handshake` that need packets in order: both sides agree |
| `TempProofs`, `RadioProofs` | the theorems about `TempChannel` and `RadioDriver` |

### State of `Handshake`

`ns`, `getpk`, `node_ct`, `nrx`, `nq`, `metrics_pending` are a node's session,
`getpk_in_flight`, `node_ct`, receive slot, queue and `metrics_pending`. `rs`,
`rx_slots`, `rq`, `impact` are the root's session table, receive slots, queue and
impact window. `prng` is the state of a node's generator: the number of secrets it has
drawn since its start. `up[n]` and `down[n]` are the packets in flight, `faults` what
the network may still do. `attempts` counts the handshakes a node began and bounds the
exploration.

### State of `TempChannel`

`tx_counter`, `rx_counter`, `temp_rx_ok` are the counters of the two sessions and the
measurements the root accepted; `impact` is the impact window with one snapshot per node
that was established when it opened; `pending` is the id of the CT a node waits to have
confirmed, which is all an ACK is compared with. The variables of `KeyExchange` say who
holds which secret. GETPK, PK, CT and ACK are whole messages here: `handshake_restart`
checks and `HandshakeImplementsKeyExchange` proves that what the handshake does to
secrets and sessions, fragments and retries included, is what `KeyExchange` allows.
`measured`, `sent`, `got`, `late`, `resets` and `impact_temp` record the past for the
properties. Decryption under another secret or counter is taken never to yield the
counter that was tried (the code's own check fails with probability 16 in 2^32).

### State of `RadioDriver`

`rx_buf`, `next_read`, `next_write`, `tx_status` are the driver's variables. A buffer is
the number of the frame in it, 0 if its length is 0. `reader` and `tx` say where
`read()`/`radio_proc` and `transmit()` stand: a step ends wherever the interrupt can be
seen, that is, outside the critical sections and between two accesses to `tx_status`.
Before `process_start`, the last line of `init`, `reader` is at `"start"`: RAIL receives
already, but a poll has no effect. `rail` is the little of RAIL that matters (external):
receiving, transmitting or idle, and which late events it still owes. RAIL reports any
combination of events it may, in any order with the processes.

### What is abstracted

* **Cryptography.** `crypto_kem_enc` takes all its randomness from `shake_prng_state`
  (`src/extern/HQC-Round4/Additional_Implementation/hqc-128/src/shake_prng.c:9`), a
  static that no file of the firmware seeds (`shake_prng_init` is called only by a test
  program the Makefile leaves out). The k-th encapsulation since the start of a device is
  therefore the same at every start and on every node, and a secret is the number k, as
  is the ciphertext that encapsulates it; 0 is the zeroed buffer. The root's key pair is
  the same at every start, too (`root_pk`): a CT from before a restart of the root
  decapsulates after it. Decapsulation accepts exactly a ciphertext whose fragments all
  stem from one encapsulation (HQC re-encrypts and compares).
* **Payload.** A fragment carries the name of the whole message; the receive buffer
  is the set of pairs of index and what came with it, so a mix of two messages is
  visible. Lengths follow from the message type.
* **Time.** A deadline is `"short"` (4 s or less: after a NACK, or to let the queue
  drain) and may pass at any moment, or `"long"` (120 s plus the time of the
  transfer). The comment at `SESSION_RETRY_TIMEOUT` says it covers the transfer, so
  a long one passes when nothing of that session is queued or in flight, and
  `MaxEarly` times although something is. The receive-slot timeout is treated alike.
* **Queueing a message** is one step: `fragment_tx` runs to its end in one handler.
  `BatchIsOneByOne` says that this equals queueing fragment by fragment, and is proved.
* **Retry loop of the root.** The code visits all sessions in one timer tick; the
  model visits them in separate steps, which allows more interleavings.
* **Network of `TempChannel`.** A set: packets arrive in any order, and any of them may
  arrive again. Lost measurements, repetitions, handshakes given up and restarts are
  bounded by `MaxFaults` together. Nothing has to arrive, so a lost packet of the
  handshake needs no fault of its own; one that its sender repeats although it arrived is
  a repetition. The message id of a CT is any of `MsgIds`: which one it is depends on
  the NACKs before it.
* **Routing.** The node is taken to have joined; packets are lost, duplicated and
  overtake each other within the bounds.

## 3. Runs

All bounds are named constants of the configurations. Messages have two or three
fragments: enough for a first, a last and a gap. Four queue entries hold a message
and its neighbours and wrap around. `ChannelCap`, `MaxLoss`, `MaxDup`, `MaxEarly`,
`MaxNodeReboots`, `MaxRootReboots`, `MaxAttempts` bound the faults; one or two of
each are what the scenarios of section 1 need, and the runs differ in which faults
they combine. `CHECK_DEADLOCK FALSE`: when every node is established, or its
attempts are used up, nothing is left to do; likewise in `temp`.

| run | faults | shows |
|---|---|---|
| `txqueue` | | `CountExact`, `BatchIsOneByOne`, `ImplementsBag`: the array keeps the promises of the bag wherever the tail has wandered |
| `handshake_loss` | a loss, a duplicate, an early timer, one retry | `TypeOK`, `WaitsAreArmed`, `TxCountExact`, `EstablishedTogether` through failed and restarted handshakes |
| `handshake_reorder` | a loss, overtaking, NACKs of one fragment | `SlotsConsistent`, `KeyAgreement` |
| `handshake_restart` | a restart of the node and one of the root, a loss, an early timer | `GetpkInFlightMatches`, `CtMatchesSecret`, `ImpactWindowIsOpen`, `RootQueueMatchesSession`, `NodeQueueMatchesSession`: no leftovers of an old handshake; `ImplementsKeyExchange` |
| `handshake_two_nodes` | two nodes, one receive slot, a queue for one message | `SlotsConsistent`, `ImpactWindowIsOpen`, `EstablishedTogether` |
| `handshake_table_full` | two nodes, one session | `TableFullServesTheRest` |
| `handshake_live` | two losses, three retries | `EventuallyEstablished`, `NobodyWaitsForever` |
| `temp` | two nodes, any order, two of: a lost measurement, a packet that arrives twice, a handshake given up, a restart of a node, one of the root | `TempTypeOK`, `NoCounterReuse`, `AcceptedOnceInOrder`, `TempUnderstood`, `GapCountsSkipped` |
| `radio` | interrupts anywhere, from `RAIL_StartRx` on, late events, time-outs | `RadioTypeOK`, `NoTornRead`, `NoLostWakeup`, `NeverStuckSending`, `OkIsBacked`, `ImplementsFrameQueue`, `StoredIsRead`, `TransmitReturns` |
| `finding_key_agreement` | three losses, one retry, a duplicate, node restart, packets in order | violation, below |
| `finding_metrics_lost` | a loss, two metrics groups | violation, below |
| `finding_impact_gap` | node restart | violation, below |

In `temp` a window of three counters stands for sixteen, with two measurements in
flight and one lost: `TempUnderstood` holds exactly because these stay within the
window. A node sends up to three measurements under one secret and four in all
(`MaxTemp`, `MaxMeasured`), so that some fall before a restart and some after it. One
message id is enough, and the worst case: every CT has the id of every other.
With as many losses as the window has counters it fails, which is the limit
of the resynchronisation in `pqc_handle_encrypted_temp`. `CounterMod` = 256 stands
for 2^32; what counts is that it is far above the counters reached.

In `radio` three buffers and four frames fill the ring, wrap it around and overflow
it; two transmissions are what it takes for an event of one to meet the other. This
run does check for deadlock: `radio_proc` can always be resumed.

`KeyAgreement` and `EstablishedTogether` are checked under the faults they survive.
They need that a packet of an earlier handshake does not outlive it, which order
and timers give and message ids do not; the finding shows where it ends. Section 4
proves them from a condition on order, timers and restarts.

### Fairness

`FairSpec` asks weak fairness of every process of every device and of delivery:
Contiki's periodic timers (250 ms send, 1 s retry, 4 s routing) run for ever, and a
packet that is not lost arrives. Restarts, losses, duplicates and slot timeouts are
never required. The losses are finite: with infinitely many nothing can be promised.

`FairRadioSpec` asks weak fairness of the steps of `read()`, `radio_proc` and
`transmit()`, which run to their end, and of the resumption of a polled process.
While `transmit()` waits, its time-out is one of these steps, because `clock_time()`
advances. Nothing is asked of RAIL, nor of the one-second timer of `radio_proc`:
`StoredIsRead` says that the polls alone are enough.

### Findings

* `finding_key_agreement`. The thesis says that the root obtains the secret that the
  client generated and that the session is established from then on
  (`src/memoria/Cuerpo/chapter3.tex:75`). A first handshake of a node fails (with one
  retry three losses do it; with the three of the code it takes more). The CT of the
  second one, with the second secret since the start, is in flight behind a duplicate of
  its GETPK when the node restarts and asks again. The root answers the duplicate; the
  node encapsulates anew, which gives the *first* secret since its start, under the same
  message id. The root completes the old CT, and its ACK confirms the new one: both are
  established, the node with secret 1 and the root with secret 2. In that state a GETPK
  and the new CT of the node are still queued, so the trace says nothing of what comes
  later. Had the old CT been the first since the start as well, the two secrets would be
  the same: the generator repeats itself.
* `finding_metrics_lost`. "Root emits one summary row for each handshake success/failure"
  (`src/src/metrics/README.md:30`). Each group is reported once; when one is lost the
  summary of that session is never emitted.
* `finding_impact_gap`. "`counter_gap` estimates skipped TEMP counters during the HS
  window" (`src/src/metrics/README.md:129`). When a node asks for a new key while the
  window of another one is open, its `rx_counter` goes back to 0 and the unsigned
  difference wraps around: the line reports a gap close to 2^32 and nothing was
  skipped. `GapCountsSkipped` shows that the number is exact otherwise.

## 4. Proofs

TLAPS checks all of the following for every value of the constants that satisfies
the named assumptions: sizes are natural numbers (positive where the code needs it),
`Nobody` is no node, and a PK and a CT fit into an empty queue (`SizeAssumption`;
36 and 71 fragments, 96 entries in the firmware), and a session sends fewer than
2^32 measurements less the window (`TempBounds`). Nodes may be any set, finite or not.

| theorem | property |
|---|---|
| `TxQueueSystemProofs!CountIsCorrect` | `CountExact`, any callers |
| `TxQueueSystemProofs!MessagesGoOneByOne` | `BatchIsOneByOne` |
| `TxQueueSystemProofs!QueueImplementsBag` | `ImplementsBag` |
| `HandshakeProofs!TypeCorrectness` | `TypeOK` |
| `HandshakeProofs!WaitsStayArmed` | `WaitsAreArmed` |
| `HandshakeProofs!FlagMatchesSession` | `GetpkInFlightMatches` |
| `HandshakeProofs!CiphertextIsKeptAndWiped` | `CtMatchesSecret` |
| `HandshakeProofs!QueueCountsExact` | `TxCountExact` |
| `HandshakeProofs!NodeQueueIsCurrent` | `NodeQueueMatchesSession` |
| `HandshakeProofs!RootQueueIsCurrent` | `RootQueueMatchesSession` |
| `HandshakeProofs!ImpactWindowCloses` | `ImpactWindowIsOpen` |
| `HandshakeProofs!SlotsStayConsistent` | `SlotsConsistent` |
| `HandshakeProofs!HandshakeImplementsKeyExchange` | `ImplementsKeyExchange` |
| `OrderProofs!PhasesInOrder` | `OrderInv`, from `InOrder` |
| `OrderProofs!KeysAgreeInOrder` | `KeyAgreement`, from `InOrder` |
| `OrderProofs!EstablishedTogetherInOrder` | `EstablishedTogether`, from `InOrder` and a root that does not restart |
| `TempProofs!ChannelTypes` | `TempTypeOK` |
| `TempProofs!CountersUsedOnce` | `NoCounterReuse`, from one start of a node to the next |
| `TempProofs!AcceptedInOrder` | `AcceptedOnceInOrder` |
| `TempProofs!GapsExact` | `GapCountsSkipped` |
| `TempProofs!MeasurementsUnderstood` | `TempUnderstood`, from `WindowSuffices` |
| `RadioProofs!ReceiveSafe`, `RadioTypes`, `WakeupKept` | `NoTornRead`, `RadioTypeOK`, `NoLostWakeup` |
| `RadioProofs!ReceiveRingIsQueue` | `ImplementsFrameQueue` |
| `RadioProofs!TransmitterFree` | `NeverStuckSending` |
| `RadioProofs!SuccessIsBacked` | `OkIsBacked` |

**`tx_count`.** The counter is exact because a message of k packets takes exactly k
entries. `FreeRank` numbers the free entries in the order in which the search from
the tail meets them and shows that this is a bijection onto 0 .. m - 1, m being the
number of free entries; a message takes those numbered below k (`SendAllCounts`).

**One by one.** `pqc_udp_send_all` queues a message in one formula; the code searches
for each fragment anew. `NextFree` shows that after k fragments the tail lies right
behind the entry numbered k - 1 and that the search from there passes only entries in
use until it meets the one numbered k. `OneMore` then compares array, tail and counter.

**The bag.** The refinement mapping counts, for every packet, the entries that hold it
(`BagOf`). `BagAdds`, `BagTakes` and `BagDrops` say how the operations change these
counts; `CopiesCounted` says that the bag holds as many packets as the array has
entries in use, so that a message which fits into the array fits into the bag.

**The inductive invariant** of `Handshake` is
`IInv == TypeOK /\ NodeSafe /\ RootSafe`. `NodeSafe` says of every node that its
session is armed, its flag and its ciphertext buffer fit the session, its counter is
exact and every CT it has queued is that of the session's secret. `RootSafe` says
the like of the root's sessions, counter, queue and impact window. The conjuncts
need each other:

* a node that gives up wipes its ciphertext but not its queue. No stale fragment
  stays behind because `hs_fsm_retry` postpones while `tx_count` is not zero, and
  that means an empty queue only if the counter is exact;
* a counter stays exact only if a message fits. A retry does not look for room; it
  has it because the queue is empty and `SizeAssumption` holds;
* a new CT is the only one in the queue because in WAIT_PK none is queued, and the
  answer to a NACK is the right ciphertext because a pending CT means WAIT_ACK;
* at the root the PK fragments that the first CT fragment drops are all of them,
  because each of them carries the id that is pending.

None of this uses the order of packets: an action is shown to preserve the
invariant for *any* packet of the right type, so the theorems hold for every loss,
duplication and reordering. `EstablishedTogether` and `KeyAgreement` do depend on the
order and are the subject of `OrderProofs`, below.

**How far secrets can have come.** `OriginInv` follows a secret from the node's session
into its ciphertext, its queue, the network, and fragment by fragment into one of the
slots that all nodes share: what is kept or sent for node n lies within the secrets n can
have drawn in the handshakes it has begun (`Drawn`, `Own`); a generator never runs ahead
of the handshakes, and a node that asks for a key has drawn one less (`SecretMatches`);
a slot has one owner and holds an incomplete message of that owner (`SlotGood`); only an
established session of the root has a secret. It is inductive together with `IInv`, which
supplies that a pending CT means WAIT_ACK and that the buffer is the ciphertext of the
session's secret. `SlotsConsistent` follows from the same invariant. That secrets of
different nodes or boots differ is not stated: they do not.

**The handshake implements `KeyExchange`.** `NodeStepEffect` and `RootStepEffect`
classify every action by what it does to session and secret (`NodeBegins`,
`NodeEncapsulates`, `NodeConfirmed`, `NodeResets`; `RootRestarts`, `RootEstablishes`,
`RootGivesUp`; or nothing), and `NodeStepKeys`, `RootStepKeys` and `RootWideKeys` map
each class to an action of `KeyExchange` or a stutter. `OriginInv` is what keeps the
secret of `RootEstablishes` within those the node can have drawn. So `TempChannel` rests
on a proved interface, not on a small instance.

**Agreement.** `KeyAgreement` and `EstablishedTogether` are no theorems of `Spec`: under
the faults of `finding_key_agreement` they are false. `OrderProofs` proves them from

    InOrder == ReorderWindow = 1 /\ MaxEarly = 0 /\ MaxNodeReboots = 0

that is: packets between two devices do not overtake each other, a long timer runs out
only when nothing it could wait for is under way, and no node loses its memory. Losses,
duplicates, retries, attempts and nodes are unbounded, the root may restart
(`KeysAgreeInOrder`) or not (`EstablishedTogetherInOrder`). The configurations of
`handshake_two_nodes` and `handshake_live` satisfy these conditions. TLC shows what lies
beyond them:

* with a failed handshake, a duplicate and a restart of the node `KeyAgreement` fails
  although packets keep their order (`finding_key_agreement`);
* with three early timers in place of the one of `handshake_loss`,
  `EstablishedTogether` fails: two of them make the node give up while its CT is still
  on the way, the third makes the root repeat the PK meanwhile; the node encapsulates
  anew under the same ids, and the ACK for the old CT confirms the new one;
* with a restart of the root `EstablishedTogether` fails at once: an established node
  is left alone;
* overtaking alone is not fatal on the small instance of `handshake_reorder`; the proof
  does not cover it, since its phases are told apart by the order of the packets.

The difficulty is that nothing in a packet says which handshake it belongs to. The
proof shows that what is in flight fits the phase of the node (`Order`). While the node
asks for a key (`Requesting`) no CT follows a GETPK and no ACK or NACK follows a PK, and
once a fragment of the PK has arrived nothing of the old handshake is left. While it
waits for the ACK or is established (`Confirming`) every CT in flight carries the secret
of the session (`Current`), and as soon as the root has answered that CT no GETPK is
left that could reset the session (`Heard => Past`). Then a root that is established
has the node's secret, and an ACK in flight means an established root. `OrderInv` is
inductive together with `IInv` and `OriginInv`: they supply that whatever the queues
hold fits the sessions and that a complete slot holds what its node sent. That a GETPK
leaves the queue before a CT is due to `pqc_tx_priority_for_msg`.

`NodeProofs` and `RootProofs` have one lemma per action. Those of a node go through
`RxPreserves` (the tail of `udp_rx_callback`) or `NodeAssigned`; those of the root
through `RootAssigned`, which reduces a step to the session, the queued packets and
the window of the node it is for.

**Measurements.** `NoCounterReuse` speaks of one start of a node; over a restart it is
false, since secrets and counters both come again. It is not inductive: giving a
handshake up sets the counter back and changes the secret. `SenderInv` adds that
everything sent since the start lies under the present secret and behind the counter
(`SentSoFar`), and that a node which is not established has sent nothing since its start
(`KeyState`): counter and secret change only while there is nothing to collide with. `ReceiverInv` says that the root's counter lies behind all it has
accepted (`Passed`) and that every measurement in flight was numbered (`InFlight`);
`MatchIsOwnCounter` shows that before the counters wrap a match is the packet's own
counter. Neither uses any order of packets or any bound on faults.

`GapCountsSkipped` needs of every open snapshot that since it was taken the accepted
measurements are those the metrics have counted (`WindowInv`). `TempUnderstood` cannot
hold under arbitrary faults: with as many losses as the window has counters the root
is lost for good. `MeasurementsUnderstood` states the condition, `WindowSuffices`:
what fits into the air plus what may be lost is at most the window. Repetitions of every
kind of packet, handshakes given up and restarts are not restricted. Two situations are
excluded by `InStep`, in the property itself, because in them it is false: the root was
established after the node was, by a late GETPK and a late CT, so that its counter
starts over; or it has accepted measurements from before the last start of the node, which
decrypt because the secret is the same again. The invariant says that in step every
counter the root still waits for is on its way or was lost (`Accountable`, `Missing`).
The configuration of `temp` satisfies the condition.

**Radio.** Two of the invariants are not inductive. `Watched` strengthens
`NoLostWakeup`: a frame at the head of the ring has polled `radio_proc`, or `radio_proc`
itself is reading and will poll before it sleeps (a caller of `read()` other than
`radio_proc` will not). Both speak of the time after the first frame that finds
`radio_proc` started (`awaited`): one that comes between `RAIL_StartRx` and
`process_start` polls nobody and waits for the next one or the timer. `Accounted`
strengthens `OkIsBacked`: a status `TX_SENT` that `transmit()` has still to report
stands for a `TX_PACKET_SENT` that no success was reported for. That the frame being
copied is safe follows from its length alone: the interrupt takes only an empty buffer,
so neither the ring size nor the distance of the indices matters. They matter for the
refinement: `RingInv` says that the buffers in use are consecutive, from the oldest one
to `next_write`, so a full ring and an empty one, whose indices agree, differ in the
lengths; `RingSimulates` maps every step of interrupt and reader to one of `FrameQueue`.

Only model-checked: the liveness properties `EventuallyEstablished`,
`NobodyWaitsForever`, `TableFullServesTheRest`, `StoredIsRead` and `TransmitReturns`,
because fairness and ENABLED are outside the prover. Every safety invariant and action
property of a passing run has a theorem.

## 5. Not modelled

The telemetry counters and time stamps (assignments without control flow) and the
byte layout of packets, NACKs and reports; the errors of the HQC library; PAN id,
RSSI and CCA in the radio driver, and RAIL beyond the events it reports; the Si7021
sensor, reset diagnostics and CSV text (I/O); the arithmetic of the vendored HQC and AES
code.

What the models reach and no property forbids: after a restart of the root an
established node is never understood again until it restarts too; a node that restarts
uses the same secrets and counters again, and all nodes use the same sequence; a late
GETPK and a late CT leave the root counting from 0 behind an established node; a frame
received before `radio_proc` is started may wait for the timer; a radio that timed
out stays deaf until the next transmission or `on()`; a late event can make one
`transmit()` fail for no reason. They are listed with their lines under "hazards".

## 6. Plan

1. (done) Session manager, fragmentation, transmit queue, handshake, their runs.
2. (done) The transmit counter and eight invariants of the handshake proved.
3. (done) `TempChannel` over `KeyExchange`, with the impact window; both theorems.
4. (done) `RadioDriver` over `FrameQueue`; its safety invariants proved.
5. (done) `SlotsConsistent`, the three refinements
   (`ImplementsBag`, `ImplementsKeyExchange`, `ImplementsFrameQueue`), the rest of
   the measurement channel.
6. (done) `EstablishedTogether` and `KeyAgreement` under a stated condition on order,
   timers and restarts.
7. NACK and packet encoding as operators checked against their decoders.
