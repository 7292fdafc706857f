------------------------------ MODULE TempProofs ------------------------------
(***************************************************************************)
(* The promises of the measurement channel for any number of nodes,        *)
(* packets and faults: between two restarts a node never uses a counter    *)
(* twice under one secret, the root accepts each measurement once and in   *)
(* order, a reported gap is what was skipped, and, within the faults the   *)
(* window is made for, sender and receiver stay in step.  The counters     *)
(* themselves are too little to show the first: what counts is that a node *)
(* changes its secret only while it has sent nothing.                      *)
(***************************************************************************)
EXTENDS TempChannel, FiniteSetTheorems, TLAPS

\* The parts of the state the sender's argument looks at.
SenderTypes ==
  /\ attempts \in [Node -> Nat] /\ prng \in [Node -> Nat] /\ node_ss \in [Node -> Nat]
  /\ tx_counter \in [Node -> Nat] /\ measured \in [Node -> Nat]
  /\ sent \in [Node -> SUBSET TempPacket]
  /\ asked \in [Node -> BOOLEAN] /\ node_up \in [Node -> BOOLEAN]

\* A node that waits for a key has no secret, one that sends has one, and one
\* that is not established has sent nothing since its start.
KeyState ==
  \A n \in Node :
    /\ asked[n] => node_ss[n] = 0 /\ ~node_up[n]
    /\ node_up[n] => node_ss[n] # 0
    /\ ~node_up[n] => tx_counter[n] = 0 /\ sent[n] = {}

\* What was sent since the start: under the present secret, with a counter that
\* has been passed.
SentSoFar ==
  \A n \in Node : \A p \in sent[n] :
    /\ p.ss = node_ss[n] /\ p.ctr < tx_counter[n] /\ p.ctr < MaxTemp
    /\ p.value <= measured[n]

SenderInv == SenderTypes /\ KeyState /\ SentSoFar /\ NoCounterReuse

-----------------------------------------------------------------------------
\* The counter of the session moves by one (tx_counter++).
LEMMA NextCounter ==
  \A c \in Nat : c < MaxTemp => next_counter(c) = c + 1
BY WindowAssumption, TempBounds DEF next_counter

\* What a handler of the root or a loss leaves to the sender.
LEMMA SenderUntouched ==
  ASSUME SenderInv,
         UNCHANGED <<attempts, prng, asked, node_ss, node_up, tx_counter, measured, sent>>
  PROVE  SenderInv'
<1>1. SenderTypes'
  BY DEF SenderInv, SenderTypes
<1>2. KeyState'
  BY DEF SenderInv, KeyState
<1>3. SentSoFar' /\ NoCounterReuse'
  BY DEF SenderInv, SentSoFar, NoCounterReuse
<1> QED  BY <1>1, <1>2, <1>3 DEF SenderInv

\* Keys change at a node that has sent nothing, or that forgets what it sent.
LEMMA NothingSent ==
  ASSUME SenderInv, NEW n \in Node, SenderTypes', measured' = measured,
         \A m \in Node : m # n =>
           /\ (asked'[m] <=> asked[m]) /\ (node_up'[m] <=> node_up[m])
           /\ node_ss'[m] = node_ss[m] /\ tx_counter'[m] = tx_counter[m] /\ sent'[m] = sent[m],
         asked'[n] => node_ss'[n] = 0 /\ ~node_up'[n],
         node_up'[n] => node_ss'[n] # 0,
         tx_counter'[n] = 0, sent'[n] = {}
  PROVE  SenderInv'
<1>1. KeyState'
  BY DEF SenderInv, KeyState
<1>2. SentSoFar'
  BY DEF SenderInv, SentSoFar
<1>3. NoCounterReuse'
  BY DEF SenderInv, NoCounterReuse
<1> QED  BY <1>1, <1>2, <1>3 DEF SenderInv

\* The node asks for a key.
LEMMA AskKeeps ==
  ASSUME SenderInv, NEW n \in Node, NodeAsk(n)
  PROVE  SenderInv'
<1>1. /\ ~asked[n] /\ ~node_up[n] /\ node_ss[n] = 0
      /\ asked' = [asked EXCEPT ![n] = TRUE]
      /\ attempts' = [attempts EXCEPT ![n] = @ + 1]
      /\ UNCHANGED <<prng, node_ss, node_up, tx_counter, measured, sent>>
  BY DEF NodeAsk, NodeBegin
<1>2. attempts' \in [Node -> Nat]
  BY <1>1 DEF SenderInv, SenderTypes
<1>3. asked' \in [Node -> BOOLEAN] /\ \A m \in Node : m # n => (asked'[m] <=> asked[m])
  BY <1>1, Zenon DEF SenderInv, SenderTypes
<1>4. SenderTypes'
  BY <1>1, <1>2, <1>3 DEF SenderInv, SenderTypes
<1>5. tx_counter[n] = 0 /\ sent[n] = {}
  BY <1>1 DEF SenderInv, KeyState
<1> QED  BY <1>1, <1>3, <1>4, <1>5, NothingSent

\* Encapsulation: nothing was sent under the secret that is replaced.
LEMMA EncapsulateKeeps ==
  ASSUME SenderInv, NEW n \in Node, NodeRecvPk(n)
  PROVE  SenderInv'
<1>1. /\ asked[n] /\ asked' = [asked EXCEPT ![n] = FALSE]
      /\ prng' = [prng EXCEPT ![n] = @ + 1]
      /\ node_ss' = [node_ss EXCEPT ![n] = prng[n] + 1]
      /\ UNCHANGED <<attempts, node_up, tx_counter, measured, sent>>
  BY DEF NodeRecvPk, NodeEncapsulate
<1>2. /\ asked' \in [Node -> BOOLEAN] /\ ~asked'[n]
      /\ \A m \in Node : m # n => (asked'[m] <=> asked[m])
  BY <1>1, Zenon DEF SenderInv, SenderTypes
<1>3. prng' \in [Node -> Nat] /\ node_ss' \in [Node -> Nat]
      /\ \A m \in Node : m # n => node_ss'[m] = node_ss[m]
  BY <1>1 DEF SenderInv, SenderTypes
<1>4. SenderTypes'
  BY <1>1, <1>2, <1>3 DEF SenderInv, SenderTypes
<1>5. ~node_up[n] /\ tx_counter[n] = 0 /\ sent[n] = {}
  BY <1>1 DEF SenderInv, KeyState
<1> QED  BY <1>1, <1>2, <1>3, <1>4, <1>5, NothingSent

\* The confirmation makes a node with a secret send.
LEMMA ConfirmKeeps ==
  ASSUME SenderInv, NEW n \in Node, NodeRecvAck(n)
  PROVE  SenderInv'
<1>1. /\ node_ss[n] # 0 /\ ~node_up[n] /\ node_up' = [node_up EXCEPT ![n] = TRUE]
      /\ UNCHANGED <<attempts, prng, asked, node_ss, tx_counter, measured, sent>>
  BY DEF NodeRecvAck, NodeConfirm
<1>2. /\ node_up' \in [Node -> BOOLEAN]
      /\ \A m \in Node : m # n => (node_up'[m] <=> node_up[m])
  BY <1>1, Zenon DEF SenderInv, SenderTypes
<1>3. SenderTypes'
  BY <1>1, <1>2 DEF SenderInv, SenderTypes
<1>4. ~asked[n] /\ tx_counter[n] = 0 /\ sent[n] = {}
  BY <1>1 DEF SenderInv, KeyState
<1> QED  BY <1>1, <1>2, <1>3, <1>4, NothingSent

\* A handshake is given up, or the node restarts: secret and counter go together.
LEMMA WipeKeeps ==
  ASSUME SenderInv, NEW n \in Node, NodeGiveUp(n) \/ NodeRestart(n)
  PROVE  SenderInv'
<1>1. /\ asked' = [asked EXCEPT ![n] = FALSE] /\ node_up' = [node_up EXCEPT ![n] = FALSE]
      /\ node_ss' = [node_ss EXCEPT ![n] = 0] /\ tx_counter' = [tx_counter EXCEPT ![n] = 0]
      /\ UNCHANGED <<attempts, measured>>
  BY DEF NodeGiveUp, NodeRestart, NodeReset, NodeReboot, wiped
<1>2. prng' = prng \/ prng' = [prng EXCEPT ![n] = 0]
  BY DEF NodeGiveUp, NodeRestart, NodeReset, NodeReboot
<1>3. (~node_up[n] /\ sent' = sent) \/ sent' = [sent EXCEPT ![n] = {}]
  BY DEF NodeGiveUp, NodeRestart, NodeReset
<1>4. /\ asked' \in [Node -> BOOLEAN] /\ node_up' \in [Node -> BOOLEAN]
      /\ ~asked'[n] /\ ~node_up'[n]
      /\ \A m \in Node : m # n => (asked'[m] <=> asked[m]) /\ (node_up'[m] <=> node_up[m])
  BY <1>1, Zenon DEF SenderInv, SenderTypes
<1>5. /\ node_ss' \in [Node -> Nat] /\ tx_counter' \in [Node -> Nat] /\ tx_counter'[n] = 0
      /\ \A m \in Node : m # n => node_ss'[m] = node_ss[m] /\ tx_counter'[m] = tx_counter[m]
  BY <1>1 DEF SenderInv, SenderTypes
<1>6. /\ sent' \in [Node -> SUBSET TempPacket] /\ sent'[n] = {}
      /\ \A m \in Node : m # n => sent'[m] = sent[m]
  BY <1>3 DEF SenderInv, SenderTypes, KeyState
<1>7. prng' \in [Node -> Nat]
  BY <1>2 DEF SenderInv, SenderTypes
<1>8. SenderTypes'
  BY <1>1, <1>4, <1>5, <1>6, <1>7 DEF SenderInv, SenderTypes
<1> QED  BY <1>1, <1>4, <1>5, <1>6, <1>8, NothingSent

\* pqc_send_encrypted_temp: the counter it uses is new, and is passed at once.
LEMMA TempKeeps ==
  ASSUME SenderInv, NEW n \in Node, NodeTemp(n)
  PROVE  SenderInv'
<1> DEFINE t == TEMP(node_ss[n], tx_counter[n], measured[n] + 1)
<1>1. /\ node_up[n] /\ tx_counter[n] < MaxTemp
      /\ tx_counter' = [tx_counter EXCEPT ![n] = next_counter(tx_counter[n])]
      /\ sent' = [sent EXCEPT ![n] = sent[n] \cup {t}]
      /\ measured' = [measured EXCEPT ![n] = measured[n] + 1]
      /\ UNCHANGED <<attempts, prng, asked, node_ss, node_up>>
  BY DEF NodeTemp, keyVars
<1>2. /\ node_ss[n] \in Nat /\ tx_counter[n] \in Nat /\ measured[n] \in Nat
      /\ sent[n] \in SUBSET TempPacket
  BY DEF SenderInv, SenderTypes
<1>3. t \in TempPacket /\ t.ss = node_ss[n] /\ t.ctr = tx_counter[n] /\ t.value = measured[n] + 1
  BY <1>2 DEF TEMP, TempPacket
<1> HIDE DEF t
<1>4. tx_counter' = [tx_counter EXCEPT ![n] = tx_counter[n] + 1]
  BY <1>1, <1>2, NextCounter
<1>5. /\ tx_counter' \in [Node -> Nat] /\ tx_counter'[n] = tx_counter[n] + 1
      /\ measured' \in [Node -> Nat] /\ measured'[n] = measured[n] + 1
      /\ \A m \in Node : m # n => tx_counter'[m] = tx_counter[m] /\ measured'[m] = measured[m]
  BY <1>1, <1>2, <1>4 DEF SenderInv, SenderTypes
<1>6. /\ sent' \in [Node -> SUBSET TempPacket] /\ sent'[n] = sent[n] \cup {t}
      /\ \A m \in Node : m # n => sent'[m] = sent[m]
  BY <1>1, <1>2, <1>3 DEF SenderInv, SenderTypes
<1>7. SenderTypes'
  BY <1>1, <1>5, <1>6 DEF SenderInv, SenderTypes
<1>8. KeyState'
  BY <1>1, <1>5, <1>6 DEF SenderInv, KeyState
<1>9. SentSoFar'
  <2> SUFFICES ASSUME NEW m \in Node, NEW p \in sent'[m]
               PROVE  /\ p.ss = node_ss[m] /\ p.ctr < tx_counter'[m] /\ p.ctr < MaxTemp
                      /\ p.value <= measured'[m]
    BY <1>1 DEF SentSoFar
  <2>1. CASE p \in sent[m]
    <3>1. p.ctr \in Nat /\ p.value \in Nat
      BY <2>1 DEF SenderInv, SenderTypes, TempPacket
    <3> QED  BY <2>1, <3>1, <1>2, <1>5 DEF SenderInv, SenderTypes, SentSoFar
  <2>2. CASE m = n /\ p = t
    BY <2>2, <1>1, <1>2, <1>3, <1>5
  <2> QED  BY <2>1, <2>2, <1>6
<1>10. NoCounterReuse'
  <2> SUFFICES ASSUME NEW m \in Node, NEW p \in sent'[m], NEW q \in sent'[m],
                      p.ss = q.ss, p.ctr = q.ctr
               PROVE  p = q
    BY DEF NoCounterReuse
  <2>1. CASE p \in sent[m] /\ q \in sent[m]
    BY <2>1 DEF SenderInv, NoCounterReuse
  <2>2. \A x \in sent[n] : x.ctr # t.ctr
    <3>1. \A x \in sent[n] : x.ctr < tx_counter[n]
      BY DEF SenderInv, SentSoFar
    <3> QED  BY <1>2, <1>3, <3>1
  <2>3. CASE ~(p \in sent[m] /\ q \in sent[m])
    BY <2>2, <2>3, <1>6
  <2> QED  BY <2>1, <2>3
<1> QED  BY <1>7, <1>8, <1>9, <1>10 DEF SenderInv

-----------------------------------------------------------------------------
(* The receiver.                                                           *)

\* The parts of the state the receiver's argument looks at.
ReceiverTypes ==
  /\ rx_counter \in [Node -> Nat] /\ got \in [Node -> SUBSET TempPacket]
  /\ temp_rx_ok \in [Node -> Nat] /\ DOMAIN up = Node

\* A measurement in flight was sent by that node, before or after its last restart.
Measurement(n, p) == p \in TempPacket /\ p.ctr < MaxTemp /\ p.value <= measured[n]
InFlight == \A n \in Node : \A p \in up[n] : p.kind = "TEMP" => Measurement(n, p)

\* What the root accepted in the session, and its counter right behind it.
Passed ==
  \A n \in Node :
    /\ rx_counter[n] <= MaxTemp
    /\ \A q \in got[n] : q.ctr < rx_counter[n] /\ Measurement(n, q)
    /\ got[n] = {} => rx_counter[n] = 0

ReceiverInv == ReceiverTypes /\ InFlight /\ Passed

\* receive takes a packet out or leaves a copy; send adds one.
LEMMA ReceiveUp ==
  ASSUME NEW n \in Node, NEW p, ReceiverTypes, receive(up, n, p)
  PROVE  /\ p \in up[n] /\ DOMAIN up' = Node
         /\ \A m \in Node : up'[m] \subseteq up[m]
BY DEF receive, ReceiverTypes

LEMMA SendUp ==
  ASSUME NEW n \in Node, NEW p, ReceiverTypes, send(up, n, p)
  PROVE  /\ DOMAIN up' = Node /\ up'[n] = up[n] \cup {p}
         /\ \A m \in Node : m # n => up'[m] = up[m]
BY DEF send, ReceiverTypes

\* More measurements do not make an old one wrong.
LEMMA StillMeasurement ==
  ASSUME NEW n \in Node, NEW p, Measurement(n, p), measured[n] \in Nat, measured'[n] \in Nat,
         measured[n] <= measured'[n]
  PROVE  Measurement(n, p)'
BY DEF Measurement, TempPacket

\* Whatever leaves the sessions alone and puts nothing but measurements, and
\* packets of other kinds, into the air.
LEMMA ReceiverUntouched ==
  ASSUME ReceiverInv, UNCHANGED <<rx_counter, got, temp_rx_ok>>, DOMAIN up' = Node,
         \A n \in Node : measured[n] \in Nat /\ measured'[n] \in Nat /\ measured[n] <= measured'[n],
         \A n \in Node : \A p \in up'[n] : p.kind = "TEMP" => p \in up[n] \/ Measurement(n, p)'
  PROVE  ReceiverInv'
<1>1. ReceiverTypes'
  BY DEF ReceiverInv, ReceiverTypes
<1>2. InFlight'
  BY StillMeasurement DEF ReceiverInv, InFlight
<1>3. Passed'
  BY StillMeasurement DEF ReceiverInv, Passed
<1> QED  BY <1>1, <1>2, <1>3 DEF ReceiverInv

\* The handlers of the node.
NodeActs(n) == \/ NodeAsk(n) \/ NodeRecvPk(n) \/ NodeRecvAck(n)
               \/ NodeTemp(n) \/ NodeGiveUp(n) \/ NodeRestart(n)

LEMMA NodeKeepsReceiver ==
  ASSUME SenderInv, ReceiverInv, NEW n \in Node, NodeActs(n)
  PROVE  ReceiverInv'
<1>1. UNCHANGED <<rx_counter, got, temp_rx_ok>>
  BY DEF NodeActs, NodeAsk, NodeRecvPk, NodeRecvAck, NodeTemp, NodeGiveUp, NodeRestart, rootSide
<1>2. ReceiverTypes /\ \A m \in Node : measured[m] \in Nat
  BY DEF ReceiverInv, SenderInv, SenderTypes
<1>3. CASE NodeAsk(n)
  <2>1. measured' = measured /\ send(up, n, GETPK)
    BY <1>3 DEF NodeAsk
  <2>2. GETPK.kind = "GETPK"
    BY DEF GETPK
  <2>3. DOMAIN up' = Node /\ \A m \in Node : \A p \in up'[m] : p.kind = "TEMP" => p \in up[m]
    BY <1>2, <2>1, <2>2, SendUp
  <2> QED  BY <1>1, <1>2, <2>1, <2>3, ReceiverUntouched
<1>4. CASE NodeRecvPk(n)
  <2>1. measured' = measured /\ (up' = up \/ \E id \in MsgIds : send(up, n, CT(prng[n] + 1, id)))
    BY <1>4 DEF NodeRecvPk
  <2>2. \A id : CT(prng[n] + 1, id).kind = "CT"
    BY DEF CT
  <2>3. DOMAIN up' = Node /\ \A m \in Node : \A p \in up'[m] : p.kind = "TEMP" => p \in up[m]
    <3>1. CASE up' = up
      BY <3>1, <1>2 DEF ReceiverTypes
    <3>2. ASSUME NEW id \in MsgIds, send(up, n, CT(prng[n] + 1, id))
          PROVE  /\ DOMAIN up' = Node
                 /\ \A m \in Node : \A p \in up'[m] : p.kind = "TEMP" => p \in up[m]
      BY <3>2, <1>2, <2>2, SendUp
    <3> QED  BY <2>1, <3>1, <3>2
  <2> QED  BY <1>1, <1>2, <2>1, <2>3, ReceiverUntouched
<1>5. CASE NodeRecvAck(n) \/ NodeGiveUp(n) \/ NodeRestart(n)
  <2>1. measured' = measured /\ up' = up
    BY <1>5 DEF NodeRecvAck, NodeGiveUp, NodeRestart
  <2> QED  BY <1>1, <1>2, <2>1, ReceiverUntouched DEF ReceiverTypes
<1>6. CASE NodeTemp(n)
  <2>1. PICK t : /\ t = TEMP(node_ss[n], tx_counter[n], measured[n] + 1) /\ send(up, n, t)
                 /\ tx_counter[n] < MaxTemp
                 /\ measured' = [measured EXCEPT ![n] = measured[n] + 1]
    BY <1>6 DEF NodeTemp
  <2>2. \A m \in Node : measured'[m] \in Nat /\ measured[m] <= measured'[m]
    BY <1>2, <2>1 DEF SenderInv, SenderTypes
  <2>3. Measurement(n, t)'
    <3>1. measured'[n] = measured[n] + 1 /\ node_ss[n] \in Nat /\ tx_counter[n] \in Nat
      BY <2>1 DEF SenderInv, SenderTypes
    <3>2. t \in TempPacket /\ t.ctr < MaxTemp /\ t.value <= measured'[n]
      BY <1>2, <2>1, <3>1 DEF TEMP, TempPacket
    <3> QED  BY <3>2 DEF Measurement
  <2>4. DOMAIN up' = Node /\ \A m \in Node : \A p \in up'[m] : p \in up[m] \/ (m = n /\ p = t)
    BY <1>2, <2>1, SendUp
  <2> QED  BY <1>1, <1>2, <2>2, <2>3, <2>4, ReceiverUntouched
<1> QED  BY <1>3, <1>4, <1>5, <1>6 DEF NodeActs

\* Handlers of the root that end or begin a session, and the network.
LEMMA RootKeepsReceiver ==
  ASSUME SenderInv, ReceiverInv, NEW n \in Node,
         RootRecvGetpk(n) \/ RootRecvCt(n) \/ RootHandshakeFails(n) \/ Lose(n)
  PROVE  ReceiverInv'
<1>1. measured' = measured /\ temp_rx_ok' = temp_rx_ok
  BY DEF RootRecvGetpk, RootRecvCt, RootHandshakeFails, Lose, nodeSide, rootSide
<1>2. ReceiverTypes /\ \A m \in Node : measured[m] \in Nat
  BY DEF ReceiverInv, SenderInv, SenderTypes
<1>3. DOMAIN up' = Node /\ \A m \in Node : up'[m] \subseteq up[m]
  <2>1. CASE RootRecvGetpk(n)
    BY <1>2, <2>1, ReceiveUp DEF RootRecvGetpk
  <2>2. CASE RootRecvCt(n)
    <3>1. PICK p \in up[n] : receive(up, n, p)
      BY <2>2 DEF RootRecvCt
    <3> QED  BY <1>2, <3>1, ReceiveUp
  <2>3. CASE RootHandshakeFails(n)
    BY <1>2, <2>3 DEF RootHandshakeFails, ReceiverTypes
  <2>4. CASE Lose(n)
    <3>1. PICK p \in temps(n) : up' = [up EXCEPT ![n] = up[n] \ {p}]
      BY <2>4 DEF Lose
    <3> QED  BY <1>2, <3>1 DEF ReceiverTypes
  <2> QED  BY <2>1, <2>2, <2>3, <2>4
<1>4. CASE RootRecvGetpk(n)
  <2>1. rx_counter' = [rx_counter EXCEPT ![n] = 0] /\ got' = [got EXCEPT ![n] = {}]
    BY <1>4 DEF RootRecvGetpk
  <2>2. ReceiverTypes'
    BY <1>1, <1>2, <1>3, <2>1 DEF ReceiverTypes
  <2>3. InFlight'
    BY <1>1, <1>3 DEF ReceiverInv, InFlight, Measurement
  <2>4. Passed'
    BY <1>1, <2>1, TempBounds DEF ReceiverInv, ReceiverTypes, Passed, Measurement
  <2> QED  BY <2>2, <2>3, <2>4 DEF ReceiverInv
<1>5. CASE RootRecvCt(n) \/ RootHandshakeFails(n) \/ Lose(n)
  <2>1. rx_counter' = rx_counter /\ got' = got
    BY <1>5 DEF RootRecvCt, RootHandshakeFails, Lose, rootSide
  <2> QED  BY <1>1, <1>2, <1>3, <2>1, ReceiverUntouched
<1> QED  BY <1>4, <1>5

\* Before the counters wrap around, a counter that matches is the packet's own
\* and not below the expected one.
LEMMA MatchIsOwnCounter ==
  ASSUME ReceiverInv, NEW n \in Node, NEW p \in TempPacket, p.ctr < MaxTemp,
         NEW offset \in matching(n, p)
  PROVE  /\ p.ctr >= rx_counter[n]
         /\ committed(n, offset) = p.ctr + 1
<1>1. /\ offset \in 0 .. PQC_TEMP_RX_COUNTER_WINDOW - 1
      /\ decrypted_counter(root_ss[n], trial(n, offset), p) = trial(n, offset)
  BY DEF matching
<1>2. rx_counter[n] \in Nat /\ rx_counter[n] <= MaxTemp /\ p.ctr \in Nat
  BY DEF ReceiverInv, ReceiverTypes, Passed, TempPacket
<1>3. offset \in Nat /\ rx_counter[n] + offset < CounterMod
  BY <1>1, <1>2, WindowAssumption, TempBounds
<1>4. trial(n, offset) = rx_counter[n] + offset
  BY <1>2, <1>3, WindowAssumption DEF trial
<1>5. p.ctr = trial(n, offset)
  BY <1>1, <1>2, <1>3, <1>4, WindowAssumption DEF decrypted_counter, noise
<1>6. p.ctr + 1 < CounterMod
  BY <1>2, WindowAssumption, TempBounds
<1>7. committed(n, offset) = p.ctr + 1
  BY <1>2, <1>5, <1>6, WindowAssumption DEF committed
<1> QED  BY <1>2, <1>3, <1>4, <1>5, <1>7

\* pqc_handle_encrypted_temp: the counter moves behind what it accepts.
LEMMA RecvTempKeeps ==
  ASSUME SenderInv, ReceiverInv, NEW n \in Node, RootRecvTemp(n)
  PROVE  ReceiverInv' /\ \A m \in Node : AcceptsInOrder(m)
<1>1. PICK p \in temps(n) :
        /\ receive(up, n, p)
        /\ \/ \E offset \in matching(n, p) :
                /\ rx_counter' = [rx_counter EXCEPT ![n] = committed(n, offset)]
                /\ temp_rx_ok' = [temp_rx_ok EXCEPT ![n] = temp_rx_ok[n] + 1]
                /\ got' = [got EXCEPT ![n] = got[n] \cup {p}]
           \/ UNCHANGED <<rx_counter, temp_rx_ok, got>>
  BY DEF RootRecvTemp
<1>2. measured' = measured /\ ReceiverTypes /\ \A m \in Node : measured[m] \in Nat
  BY DEF RootRecvTemp, nodeSide, ReceiverInv, SenderInv, SenderTypes
<1>3. p \in up[n] /\ Measurement(n, p) /\ p \in TempPacket /\ p.ctr < MaxTemp
  BY DEF temps, ReceiverInv, InFlight, Measurement
<1>4. DOMAIN up' = Node /\ \A m \in Node : up'[m] \subseteq up[m]
  BY <1>1, <1>2, ReceiveUp
<1>5. \A m \in Node : temp_rx_ok[m] \in Nat
  BY <1>2 DEF ReceiverTypes
<1>6. CASE UNCHANGED <<rx_counter, temp_rx_ok, got>>
  <2>1. ReceiverInv'
    BY <1>2, <1>4, <1>6, ReceiverUntouched
  <2>2. \A m \in Node : AcceptsInOrder(m)
    BY <1>5, <1>6 DEF AcceptsInOrder
  <2> QED  BY <2>1, <2>2
<1>7. ASSUME NEW offset \in matching(n, p),
             rx_counter' = [rx_counter EXCEPT ![n] = committed(n, offset)],
             temp_rx_ok' = [temp_rx_ok EXCEPT ![n] = temp_rx_ok[n] + 1],
             got' = [got EXCEPT ![n] = got[n] \cup {p}]
      PROVE  ReceiverInv' /\ \A m \in Node : AcceptsInOrder(m)
  <2>1. p.ctr >= rx_counter[n] /\ committed(n, offset) = p.ctr + 1
    BY <1>3, MatchIsOwnCounter
  <2>2. /\ temp_rx_ok' \in [Node -> Nat]
        /\ \A m \in Node : m # n => temp_rx_ok'[m] = temp_rx_ok[m]
    BY <1>2, <1>7 DEF ReceiverTypes
  <2>3. p.ctr \in Nat /\ rx_counter[n] \in Nat
    BY <1>2, <1>3 DEF ReceiverTypes, TempPacket
  <2>4. /\ rx_counter' \in [Node -> Nat] /\ rx_counter'[n] = p.ctr + 1
        /\ \A m \in Node : m # n => rx_counter'[m] = rx_counter[m]
    BY <1>2, <1>7, <2>1, <2>3 DEF ReceiverTypes
  <2>5. /\ got' \in [Node -> SUBSET TempPacket] /\ got'[n] = got[n] \cup {p}
        /\ \A m \in Node : m # n => got'[m] = got[m]
    BY <1>2, <1>3, <1>7 DEF ReceiverTypes
  <2>6. \A q \in got[n] : q.ctr \in Nat /\ q.ctr < rx_counter[n]
    BY <1>2 DEF ReceiverInv, ReceiverTypes, Passed, TempPacket
  <2>7. ReceiverTypes'
    BY <1>4, <2>2, <2>4, <2>5 DEF ReceiverTypes
  <2>8. InFlight' /\ \A m : \A q : Measurement(m, q) => Measurement(m, q)'
    BY <1>2, <1>4 DEF ReceiverInv, InFlight, Measurement
  <2>9. Passed'
    <3> SUFFICES ASSUME NEW m \in Node
                 PROVE  /\ rx_counter'[m] <= MaxTemp
                        /\ \A q \in got'[m] : q.ctr < rx_counter'[m] /\ Measurement(m, q)'
                        /\ got'[m] = {} => rx_counter'[m] = 0
      BY DEF Passed
    <3>1. CASE m = n
      <4>1. rx_counter'[m] <= MaxTemp
        BY <3>1, <1>3, <2>3, <2>4, TempBounds
      <4>2. ASSUME NEW q \in got'[m] PROVE q.ctr < rx_counter'[m] /\ Measurement(m, q)'
        <5>1. CASE q = p
          BY <5>1, <3>1, <1>3, <2>3, <2>4, <2>8
        <5>2. CASE q \in got[n]
          <6>1. q.ctr < rx_counter'[m]
            BY <5>2, <3>1, <2>1, <2>3, <2>4, <2>6
          <6>2. Measurement(m, q)
            BY <5>2, <3>1 DEF ReceiverInv, Passed
          <6> QED  BY <6>1, <6>2, <2>8
        <5> QED  BY <4>2, <5>1, <5>2, <3>1, <2>5
      <4> QED  BY <4>1, <4>2, <3>1, <2>5
    <3>2. CASE m # n
      BY <3>2, <2>4, <2>5, <2>8 DEF ReceiverInv, Passed
    <3> QED  BY <3>1, <3>2
  <2>10. AcceptsInOrder(n)
    <3>1. \A q \in got[n] : q.ctr < p.ctr
      BY <2>1, <2>3, <2>6
    <3>2. p \notin got[n]
      BY <3>1, <2>3
    <3> QED  BY <2>5, <3>1, <3>2 DEF AcceptsInOrder
  <2>11. \A m \in Node : m # n => AcceptsInOrder(m)
    BY <1>5, <2>2 DEF AcceptsInOrder
  <2> QED  BY <2>7, <2>8, <2>9, <2>10, <2>11 DEF ReceiverInv
<1> QED  BY <1>1, <1>6, <1>7

\* A restart of the root forgets every session.
LEMMA RebootKeepsReceiver ==
  ASSUME ReceiverInv, RootReboot
  PROVE  ReceiverInv'
<1>1. /\ rx_counter' = [n \in Node |-> 0] /\ got' = [n \in Node |-> {}]
      /\ temp_rx_ok' = [n \in Node |-> 0] /\ up' = up /\ measured' = measured
  BY DEF RootReboot, nodeSide
<1>2. ReceiverTypes'
  BY <1>1 DEF ReceiverInv, ReceiverTypes
<1>3. InFlight'
  BY <1>1 DEF ReceiverInv, InFlight, Measurement
<1>4. Passed'
  BY <1>1, TempBounds DEF Passed
<1> QED  BY <1>2, <1>3, <1>4 DEF ReceiverInv

-----------------------------------------------------------------------------
\* The root and the network do not touch the sender.
RootActs(n) == \/ RootRecvGetpk(n) \/ RootRecvCt(n) \/ RootHandshakeFails(n)
               \/ RootRecvTemp(n) \/ Lose(n)

LEMMA RootKeepsSender ==
  ASSUME SenderInv, RootReboot \/ \E n \in Node : RootActs(n)
  PROVE  SenderInv'
<1>1. UNCHANGED nodeSide
  BY DEF RootActs, RootReboot, RootRecvGetpk, RootRecvCt, RootHandshakeFails, RootRecvTemp, Lose
<1>2. UNCHANGED nodeKeys
  BY DEF RootActs, RootReboot, RootRecvGetpk, RootRecvCt, RootHandshakeFails, RootRecvTemp, Lose,
         RootForget, RootRestart, RootEstablish, RootGiveUp, keyVars, nodeKeys
<1> QED  BY <1>1, <1>2, SenderUntouched DEF nodeKeys, nodeSide

\* An action that accepts nothing has nothing to keep in order.
LEMMA NothingAccepted ==
  ASSUME ReceiverInv, \A n \in Node : temp_rx_ok'[n] = temp_rx_ok[n] \/ temp_rx_ok'[n] = 0
  PROVE  \A n \in Node : AcceptsInOrder(n)
<1>1. \A n \in Node : temp_rx_ok[n] \in Nat
  BY DEF ReceiverInv, ReceiverTypes
<1> QED  BY <1>1 DEF AcceptsInOrder

LEMMA TempInitially == TempInit => SenderInv /\ ReceiverInv
<1> SUFFICES ASSUME TempInit PROVE SenderInv /\ ReceiverInv
  OBVIOUS
<1>1. SenderTypes
  BY DEF TempInit, KeyInit, SenderTypes
<1>2. KeyState /\ SentSoFar /\ NoCounterReuse
  BY DEF TempInit, KeyInit, KeyState, SentSoFar, NoCounterReuse
<1>3. ReceiverTypes
  BY DEF TempInit, ReceiverTypes
<1>4. InFlight /\ Passed
  BY TempBounds DEF TempInit, InFlight, Passed
<1> QED  BY <1>1, <1>2, <1>3, <1>4 DEF SenderInv, ReceiverInv

\* Every step of the channel, one case for each side.
LEMMA TempStep ==
  ASSUME SenderInv, ReceiverInv, [TempNext]_tempVars
  PROVE  SenderInv' /\ ReceiverInv' /\ \A m \in Node : AcceptsInOrder(m)
<1>1. ASSUME NEW n \in Node, NodeActs(n)
      PROVE  SenderInv' /\ ReceiverInv' /\ \A m \in Node : AcceptsInOrder(m)
  <2>1. SenderInv'
    BY <1>1, AskKeeps, EncapsulateKeeps, ConfirmKeeps, TempKeeps, WipeKeeps DEF NodeActs
  <2>2. ReceiverInv'
    BY <1>1, NodeKeepsReceiver
  <2>3. temp_rx_ok' = temp_rx_ok
    BY <1>1 DEF NodeActs, NodeAsk, NodeRecvPk, NodeRecvAck, NodeTemp, NodeGiveUp, NodeRestart,
                rootSide
  <2> QED  BY <2>1, <2>2, <2>3, NothingAccepted
<1>2. ASSUME NEW n \in Node,
             RootRecvGetpk(n) \/ RootRecvCt(n) \/ RootHandshakeFails(n) \/ Lose(n)
      PROVE  SenderInv' /\ ReceiverInv' /\ \A m \in Node : AcceptsInOrder(m)
  <2>1. SenderInv'
    BY <1>2, RootKeepsSender DEF RootActs
  <2>2. ReceiverInv'
    BY <1>2, RootKeepsReceiver
  <2>3. temp_rx_ok' = temp_rx_ok
    BY <1>2 DEF RootRecvGetpk, RootRecvCt, RootHandshakeFails, Lose, rootSide
  <2> QED  BY <2>1, <2>2, <2>3, NothingAccepted
<1>3. ASSUME NEW n \in Node, RootRecvTemp(n)
      PROVE  SenderInv' /\ ReceiverInv' /\ \A m \in Node : AcceptsInOrder(m)
  BY <1>3, RootKeepsSender, RecvTempKeeps DEF RootActs
<1>4. CASE RootReboot
  <2>1. SenderInv' /\ ReceiverInv'
    BY <1>4, RootKeepsSender, RebootKeepsReceiver
  <2>2. \A n \in Node : temp_rx_ok'[n] = 0
    BY <1>4 DEF RootReboot
  <2> QED  BY <2>1, <2>2, NothingAccepted
<1>5. CASE UNCHANGED tempVars
  <2>1. UNCHANGED <<attempts, prng, asked, node_ss, node_up, tx_counter, measured, sent>>
    BY <1>5 DEF tempVars, keyVars, chanVars
  <2>2. UNCHANGED <<rx_counter, got, temp_rx_ok, up>>
    BY <1>5 DEF tempVars, chanVars
  <2>3. SenderInv'
    BY <2>1, SenderUntouched
  <2>4. ReceiverInv'
    BY <2>1, <2>2, ReceiverUntouched DEF ReceiverInv, ReceiverTypes, SenderInv, SenderTypes
  <2> QED  BY <2>2, <2>3, <2>4, NothingAccepted
<1> QED  BY <1>1, <1>2, <1>3, <1>4, <1>5 DEF TempNext, NodeActs

-----------------------------------------------------------------------------
\* Between two restarts no key stream of pqc_send_encrypted_temp encrypts two
\* measurements, whatever the number of nodes, handshakes and stale packets.
THEOREM CountersUsedOnce == TempSpec => []NoCounterReuse
<1>1. SenderInv /\ ReceiverInv /\ [TempNext]_tempVars => (SenderInv /\ ReceiverInv)'
  BY TempStep
<1>2. SenderInv => NoCounterReuse
  BY DEF SenderInv
<1> QED  BY TempInitially, <1>1, <1>2, PTL DEF TempSpec

\* pqc_handle_encrypted_temp accepts no measurement twice and none behind one
\* it has accepted, whatever the network repeats and reorders.
THEOREM AcceptedInOrder == TempSpec => AcceptedOnceInOrder
<1>1. SenderInv /\ ReceiverInv /\ [TempNext]_tempVars => (SenderInv /\ ReceiverInv)'
  BY TempStep
<1>2. SenderInv /\ ReceiverInv /\ [TempNext]_tempVars
        => [\A n \in Node : AcceptsInOrder(n)]_tempVars
  BY TempStep
<1> QED  BY TempInitially, <1>1, <1>2, PTL DEF TempSpec, AcceptedOnceInOrder

-----------------------------------------------------------------------------
(* Types of the whole channel: what the two arguments above did not need.  *)

Faults == [loss: Nat, dup: Nat, fail: Nat, node: Nat, root: Nat, all: Nat]
Impact == [target: Node \cup {Nobody}, snapshots: SUBSET Snapshot]

OtherTypes ==
  /\ root_state \in [Node -> RootStates] /\ root_ss \in [Node -> Nat]
  /\ tx_counter \in [Node -> 0 .. MaxTemp] /\ pending \in [Node -> MsgIds \cup {NoId}]
  /\ up \in [Node -> SUBSET UpPacket] /\ down \in [Node -> SUBSET DownPacket]
  /\ resets \in [Node -> Nat] /\ late \in [Node -> BOOLEAN] /\ faults \in Faults
  /\ impact \in Impact /\ impact_temp \in SUBSET Line

\* The three parts make up the type invariant; counters stay below 2^32 because
\* they stay below MaxTemp.
LEMMA TypeParts == SenderInv /\ ReceiverInv /\ OtherTypes => TempTypeOK
<1> SUFFICES ASSUME SenderInv, ReceiverInv, OtherTypes PROVE TempTypeOK
  OBVIOUS
<1>1. KeyTypeOK
  BY DEF SenderInv, SenderTypes, OtherTypes, KeyTypeOK
<1>2. MaxTemp < CounterMod
  BY WindowAssumption, TempBounds
<1>3. tx_counter \in [Node -> 0 .. CounterMod - 1]
  BY <1>2, WindowAssumption, TempBounds DEF OtherTypes
<1>4. rx_counter \in [Node -> 0 .. CounterMod - 1]
  <2>1. \A n \in Node : rx_counter[n] \in Nat /\ rx_counter[n] <= MaxTemp
    BY DEF ReceiverInv, ReceiverTypes, Passed
  <2>2. ASSUME NEW n \in Node PROVE rx_counter[n] \in 0 .. CounterMod - 1
    <3>1. MaxTemp \in Nat /\ CounterMod \in Nat
      BY WindowAssumption, TempBounds
    <3>2. rx_counter[n] \in Nat /\ rx_counter[n] <= MaxTemp
      BY <2>1
    <3> QED  BY <1>2, <3>1, <3>2
  <2> QED  BY <2>2 DEF ReceiverInv, ReceiverTypes
<1> QED  BY <1>1, <1>3, <1>4
         DEF SenderInv, SenderTypes, ReceiverInv, ReceiverTypes, OtherTypes, TempTypeOK, Faults, Impact

\* A fault that happens was left.
LEMMA FaultLeft ==
  /\ \A f \in Faults : \A a, b \in Nat :
       /\ [f EXCEPT !["loss"] = a, !["all"] = b] \in Faults
       /\ [f EXCEPT !["dup"] = a, !["all"] = b] \in Faults
       /\ [f EXCEPT !["fail"] = a, !["all"] = b] \in Faults
       /\ [f EXCEPT !["node"] = a, !["all"] = b] \in Faults
       /\ [f EXCEPT !["root"] = a, !["all"] = b] \in Faults
BY Zenon DEF Faults

LEMMA FaultTypes ==
  ASSUME faults \in Faults, NEW kind \in {"loss", "dup", "fail", "node", "root"}, fault(kind)
  PROVE  faults' \in Faults
<1>1. faults[kind] - 1 \in Nat /\ faults.all - 1 \in Nat
  <2>1. faults[kind] > 0 /\ faults.all > 0
    BY Zenon DEF fault
  <2>2. faults.all \in Nat /\ faults[kind] \in Nat
    BY Zenon DEF Faults
  <2> QED  BY <2>1, <2>2
<1>2. faults' = [faults EXCEPT ![kind] = faults[kind] - 1, !["all"] = faults.all - 1]
  BY Zenon DEF fault
<1> QED  BY <1>1, <1>2, FaultLeft

\* Packets arrive, with a copy left behind or not, and are sent.
LEMMA ReceiveTypes ==
  ASSUME OtherTypes, NEW n \in Node, NEW p
  PROVE  /\ receive(up, n, p) =>
              p \in UpPacket /\ up' \in [Node -> SUBSET UpPacket] /\ faults' \in Faults
         /\ receive(down, n, p) =>
              p \in DownPacket /\ down' \in [Node -> SUBSET DownPacket] /\ faults' \in Faults
<1>1. "dup" \in {"loss", "dup", "fail", "node", "root"} /\ faults \in Faults
  BY DEF OtherTypes
<1>2. fault("dup") => faults' \in Faults
  BY <1>1, FaultTypes
<1>3. ASSUME receive(up, n, p)
      PROVE  p \in UpPacket /\ up' \in [Node -> SUBSET UpPacket] /\ faults' \in Faults
  <2>1. p \in up[n] /\ (up' = [up EXCEPT ![n] = up[n] \ {p}] \/ up' = up)
    BY <1>3 DEF receive
  <2>2. faults' = faults \/ fault("dup")
    BY <1>3 DEF receive
  <2> QED  BY <1>1, <1>2, <2>1, <2>2 DEF OtherTypes
<1>4. ASSUME receive(down, n, p)
      PROVE  p \in DownPacket /\ down' \in [Node -> SUBSET DownPacket] /\ faults' \in Faults
  <2>1. p \in down[n] /\ (down' = [down EXCEPT ![n] = down[n] \ {p}] \/ down' = down)
    BY <1>4 DEF receive
  <2>2. faults' = faults \/ fault("dup")
    BY <1>4 DEF receive
  <2> QED  BY <1>1, <1>2, <2>1, <2>2 DEF OtherTypes
<1> QED  BY <1>3, <1>4

LEMMA SendTypes ==
  ASSUME OtherTypes, NEW n \in Node, NEW p
  PROVE  /\ p \in UpPacket /\ send(up, n, p) => up' \in [Node -> SUBSET UpPacket]
         /\ p \in DownPacket /\ send(down, n, p) => down' \in [Node -> SUBSET DownPacket]
BY DEF OtherTypes, send

\* The packets the handlers build.
LEMMA PacketTypes ==
  /\ GETPK \in UpPacket /\ PK \in DownPacket
  /\ \A id \in MsgIds : ACK(id) \in DownPacket
  /\ \A ss \in Nat : \A id \in MsgIds : CT(ss, id) \in UpPacket
  /\ \A k, l, v \in Nat : TEMP(k, l, v) \in UpPacket
  /\ \A p \in UpPacket : p.kind = "CT" => p.ss \in Nat /\ p.msg_id \in MsgIds
<1>1. GETPK \in UpPacket /\ PK \in DownPacket
  BY DEF GETPK, PK, UpPacket, DownPacket
<1>2. \A id \in MsgIds : ACK(id) \in DownPacket
  BY DEF ACK, DownPacket
<1>3. \A ss \in Nat : \A id \in MsgIds : CT(ss, id) \in UpPacket
  BY DEF CT, UpPacket
<1>4. \A k, l, v \in Nat : TEMP(k, l, v) \in UpPacket
  BY DEF TEMP, UpPacket, TempPacket
<1>5. \A p \in UpPacket : p.kind = "CT" => p.ss \in Nat /\ p.msg_id \in MsgIds
  BY DEF UpPacket, TempPacket
<1> QED  BY <1>1, <1>2, <1>3, <1>4, <1>5

\* The handlers of the node.
LEMMA NodeKeepsTypes ==
  ASSUME SenderInv, OtherTypes, NEW n \in Node, NodeActs(n)
  PROVE  OtherTypes'
<1>1. UNCHANGED <<root_state, root_ss, resets, impact, impact_temp>>
  BY DEF NodeActs, NodeAsk, NodeRecvPk, NodeRecvAck, NodeTemp, NodeGiveUp, NodeRestart, rootSide,
         NodeBegin, NodeEncapsulate, NodeConfirm, NodeReset, NodeReboot, wiped, keyVars, rootKeys
<1>2. late' \in [Node -> BOOLEAN]
  <2>1. late' = late \/ late' = [late EXCEPT ![n] = FALSE]
    BY DEF NodeActs, NodeAsk, NodeRecvPk, NodeRecvAck, NodeTemp, NodeGiveUp, NodeRestart, rootSide
  <2>2. late \in [Node -> BOOLEAN]
    BY DEF OtherTypes
  <2> QED  BY <2>1, <2>2, Zenon
<1>3. prng[n] \in Nat /\ node_ss[n] \in Nat /\ tx_counter[n] \in Nat /\ measured[n] \in Nat
  BY DEF SenderInv, SenderTypes
<1>4. CASE NodeAsk(n)
  <2>1. send(up, n, GETPK) /\ UNCHANGED <<pending, tx_counter, down, faults>>
    BY <1>4 DEF NodeAsk
  <2>2. up' \in [Node -> SUBSET UpPacket]
    BY <2>1, PacketTypes, SendTypes
  <2> QED  BY <1>1, <1>2, <2>1, <2>2 DEF OtherTypes
<1>5. CASE NodeRecvPk(n)
  <2>1. receive(down, n, PK) /\ tx_counter' = tx_counter
    BY <1>5 DEF NodeRecvPk
  <2>2. down' \in [Node -> SUBSET DownPacket] /\ faults' \in Faults
    BY <2>1, ReceiveTypes
  <2>3. ASSUME NEW id \in MsgIds, send(up, n, CT(prng[n] + 1, id)),
               pending' = [pending EXCEPT ![n] = id]
        PROVE  up' \in [Node -> SUBSET UpPacket] /\ pending' \in [Node -> MsgIds \cup {NoId}]
    <3>1. CT(prng[n] + 1, id) \in UpPacket
      BY <1>3, PacketTypes
    <3> QED  BY <2>3, <3>1, SendTypes DEF OtherTypes
  <2>4. up' \in [Node -> SUBSET UpPacket] /\ pending' \in [Node -> MsgIds \cup {NoId}]
    BY <1>5, <2>3 DEF NodeRecvPk, OtherTypes
  <2> QED  BY <1>1, <1>2, <2>1, <2>2, <2>4 DEF OtherTypes
<1>6. CASE NodeRecvAck(n)
  <2>1. /\ receive(down, n, ACK(pending[n])) /\ up' = up /\ tx_counter' = tx_counter
        /\ pending' = [pending EXCEPT ![n] = NoId]
    BY <1>6 DEF NodeRecvAck
  <2>2. down' \in [Node -> SUBSET DownPacket] /\ faults' \in Faults
    BY <2>1, ReceiveTypes
  <2>3. pending' \in [Node -> MsgIds \cup {NoId}]
    BY <2>1 DEF OtherTypes
  <2> QED  BY <1>1, <1>2, <2>1, <2>2, <2>3 DEF OtherTypes
<1>7. CASE NodeTemp(n)
  <2> DEFINE t == TEMP(node_ss[n], tx_counter[n], measured[n] + 1)
  <2>1. /\ send(up, n, t) /\ UNCHANGED <<pending, down, faults>> /\ tx_counter[n] < MaxTemp
        /\ tx_counter' = [tx_counter EXCEPT ![n] = next_counter(tx_counter[n])]
    BY <1>7 DEF NodeTemp
  <2>2. t \in UpPacket
    BY <1>3, PacketTypes
  <2> HIDE DEF t
  <2>3. up' \in [Node -> SUBSET UpPacket]
    BY <2>1, <2>2, SendTypes
  <2>4. next_counter(tx_counter[n]) \in 0 .. MaxTemp
    BY <1>3, <2>1, NextCounter, TempBounds
  <2>5. tx_counter' \in [Node -> 0 .. MaxTemp]
    BY <2>1, <2>4 DEF OtherTypes
  <2> QED  BY <1>1, <1>2, <2>1, <2>3, <2>5 DEF OtherTypes
<1>8. CASE NodeGiveUp(n) \/ NodeRestart(n)
  <2>1. /\ fault("fail") \/ fault("node")
        /\ UNCHANGED <<up, down>> /\ tx_counter' = [tx_counter EXCEPT ![n] = 0]
        /\ pending' = [pending EXCEPT ![n] = NoId]
    BY <1>8 DEF NodeGiveUp, NodeRestart
  <2>2. faults' \in Faults
    BY <2>1, FaultTypes DEF OtherTypes
  <2>3. tx_counter' \in [Node -> 0 .. MaxTemp] /\ pending' \in [Node -> MsgIds \cup {NoId}]
    BY <2>1, TempBounds DEF OtherTypes
  <2> QED  BY <1>1, <1>2, <2>1, <2>2, <2>3 DEF OtherTypes
<1> QED  BY <1>4, <1>5, <1>6, <1>7, <1>8 DEF NodeActs

-----------------------------------------------------------------------------
(* The impact window.                                                      *)

\* What a snapshot and a line of the CSV are.
LEMMA SnapshotTypes ==
  ASSUME ReceiverInv, OtherTypes
  PROVE  \A n \in Node : snapshot(n) \in Snapshot
<1>1. \A n \in Node : /\ temp_rx_ok[n] \in Nat
                      /\ rx_counter[n] \in Nat /\ resets[n] \in Nat
  BY DEF ReceiverInv, ReceiverTypes, OtherTypes
<1> QED  BY <1>1 DEF snapshot, Snapshot

LEMMA ImpactStartTypes ==
  ASSUME ReceiverInv, OtherTypes, NEW n \in Node
  PROVE  impact_start(n, impact) \in Impact
<1>1. CASE impact.target # Nobody
  BY <1>1 DEF impact_start, OtherTypes
<1>2. CASE impact.target = Nobody
  <2> DEFINE S == {snapshot(m) : m \in {m \in Node \ {n} : root_state[m] = "ESTABLISHED"}}
  <2>1. S \in SUBSET Snapshot
    BY SnapshotTypes
  <2>2. impact_start(n, impact) = [target |-> n, snapshots |-> S]
    BY <1>2 DEF impact_start
  <2> HIDE DEF S
  <2> QED  BY <2>1, <2>2 DEF Impact
<1> QED  BY <1>1, <1>2

\* The difference of two counters.
LEMMA DeltaTypes == \A a, b \in Nat : delta(a, b) \in 0 .. CounterMod - 1
<1> SUFFICES ASSUME NEW a \in Nat, NEW b \in Nat PROVE delta(a, b) \in 0 .. CounterMod - 1
  OBVIOUS
<1>1. a + CounterMod - b \in Int
  BY WindowAssumption
<1> QED  BY <1>1, WindowAssumption DEF delta

LEMMA LineTypes ==
  ASSUME ReceiverInv, OtherTypes, NEW w \in Impact
  PROVE  lines(w) \in SUBSET Line
<1> SUFFICES ASSUME NEW s \in w.snapshots
             PROVE  [node |-> s.node, gap |-> counter_gap(s), skipped |-> Cardinality(skipped(s)),
                     reset |-> s.resets # resets[s.node]] \in Line
  BY DEF lines
<1>1. s \in Snapshot
  BY DEF Impact
<1>2. s.node \in Node /\ s.rx \in Nat /\ s.ok \in Nat
  BY <1>1 DEF Snapshot
<1>3. rx_counter[s.node] \in Nat /\ temp_rx_ok[s.node] \in Nat
  BY <1>2 DEF ReceiverInv, ReceiverTypes
<1>4. counter_gap(s) \in Nat
  <2>1. /\ delta(rx_counter[s.node], s.rx) \in 0 .. CounterMod - 1
        /\ delta(temp_rx_ok[s.node], s.ok) \in 0 .. CounterMod - 1
    BY <1>2, <1>3, DeltaTypes
  <2> QED  BY <2>1, WindowAssumption DEF counter_gap
<1>5. Cardinality(skipped(s)) \in Nat
  <2>1. IsFiniteSet(s.rx .. rx_counter[s.node] - 1)
    <3>1. s.rx \in Int /\ rx_counter[s.node] - 1 \in Int
      BY <1>2, <1>3
    <3> QED  BY <3>1, FS_Interval
  <2>2. skipped(s) \subseteq s.rx .. rx_counter[s.node] - 1
    BY DEF skipped
  <2>3. IsFiniteSet(skipped(s))
    BY <2>1, <2>2, FS_Subset
  <2> QED  BY <2>3, FS_CardinalityType
<1> QED  BY <1>2, <1>4, <1>5 DEF Line

LEMMA ImpactEndTypes ==
  ASSUME ReceiverInv, OtherTypes, NEW n \in Node, NEW w \in Impact, impact_end(n, w)
  PROVE  impact' \in Impact /\ impact_temp' \in SUBSET Line
<1>1. CASE w.target # n
  BY <1>1 DEF impact_end, OtherTypes
<1>2. CASE w.target = n
  BY <1>2, LineTypes DEF impact_end, Impact
<1> QED  BY <1>1, <1>2

\* The counters since a snapshot whose measurements were accepted.
taken(s) == {c \in s.rx .. rx_counter[s.node] - 1 : \E p \in got[s.node] : p.ctr = c}

\* Since a snapshot the session was reset, or the two counts that counter_gap
\* compares have moved together.
Exact(s) ==
  /\ s.resets <= resets[s.node]
  /\ s.resets = resets[s.node] =>
       s.rx <= rx_counter[s.node] /\ temp_rx_ok[s.node] = s.ok + Cardinality(taken(s))

WindowInv == (\A s \in impact.snapshots : Exact(s)) /\ GapCountsSkipped

\* counter_gap of an exact snapshot is what it claims to be: between the two
\* counters lie those that were accepted, which ok has counted, and the others.
LEMMA GapOfExact ==
  ASSUME ReceiverInv, OtherTypes, NEW s \in Snapshot, Exact(s), s.resets = resets[s.node]
  PROVE  counter_gap(s) = Cardinality(skipped(s))
<1> DEFINE rx == rx_counter[s.node]
           I == s.rx .. rx - 1
           m == Cardinality(taken(s))
<1>1. s.node \in Node /\ s.rx \in Nat /\ s.ok \in Nat
  BY DEF Snapshot
<1>2. rx \in Nat /\ rx <= MaxTemp /\ MaxTemp < CounterMod /\ CounterMod \in Nat /\ MaxTemp \in Nat
  <2>1. rx \in Nat /\ rx <= MaxTemp
    BY <1>1 DEF ReceiverInv, ReceiverTypes, Passed
  <2> QED  BY <2>1, WindowAssumption, TempBounds
<1>3. s.rx <= rx /\ temp_rx_ok[s.node] = s.ok + m
  BY DEF Exact
<1>4. IsFiniteSet(I) /\ Cardinality(I) = rx - s.rx
  <2>1. s.rx \in Int /\ rx - 1 \in Int
    BY <1>1, <1>2
  <2>2. IsFiniteSet(I) /\ Cardinality(I) = IF s.rx > rx - 1 THEN 0 ELSE rx - 1 - s.rx + 1
    BY <2>1, FS_Interval
  <2> QED  BY <1>1, <1>2, <1>3, <2>2
<1>5. taken(s) \subseteq I /\ skipped(s) = I \ taken(s)
  BY DEF taken, skipped
<1>6. m \in Nat /\ m <= rx - s.rx
  <2>1. IsFiniteSet(taken(s)) /\ m <= Cardinality(I)
    BY <1>4, <1>5, FS_Subset
  <2>2. m \in Nat
    BY <2>1, FS_CardinalityType
  <2> QED  BY <1>4, <2>1, <2>2
<1>7. Cardinality(skipped(s)) = (rx - s.rx) - m
  <2>1. Cardinality(I \ taken(s)) = Cardinality(I) - Cardinality(I \cap taken(s))
    BY <1>4, FS_Difference
  <2>2. I \cap taken(s) = taken(s)
    BY <1>5
  <2> QED  BY <1>4, <1>5, <2>1, <2>2
<1> HIDE DEF m, rx
<1>8. delta(rx, s.rx) = rx - s.rx
  <2>1. rx + CounterMod - s.rx = (rx - s.rx) + CounterMod /\ rx - s.rx \in 0 .. CounterMod - 1
    BY <1>1, <1>2, <1>3
  <2> QED  BY <1>2, <2>1 DEF delta
<1>9. delta(temp_rx_ok[s.node], s.ok) = m
  <2>1. temp_rx_ok[s.node] + CounterMod - s.ok = m + CounterMod /\ m \in 0 .. CounterMod - 1
    BY <1>1, <1>2, <1>3, <1>6
  <2> QED  BY <1>2, <2>1 DEF delta
<1>10. counter_gap(s) = IF rx - s.rx > m THEN (rx - s.rx) - m ELSE 0
  BY <1>8, <1>9 DEF counter_gap, rx
<1> QED  BY <1>1, <1>2, <1>6, <1>7, <1>10

\* Closing the window writes exact lines and keeps no other snapshot.
LEMMA WindowEnds ==
  ASSUME ReceiverInv, OtherTypes, GapCountsSkipped, NEW n \in Node, NEW w \in Impact,
         \A s \in w.snapshots : Exact(s), impact_end(n, w)
  PROVE  GapCountsSkipped' /\ \A s \in impact'.snapshots : s \in w.snapshots
<1>1. CASE w.target # n
  BY <1>1 DEF impact_end, GapCountsSkipped
<1>2. CASE w.target = n
  <2>1. impact'.snapshots = {} /\ impact_temp' = lines(w)
    BY <1>2 DEF impact_end
  <2>2. ASSUME NEW l \in lines(w), ~l.reset
        PROVE  l.gap = l.skipped
    <3>1. PICK s \in w.snapshots :
            l = [node |-> s.node, gap |-> counter_gap(s), skipped |-> Cardinality(skipped(s)),
                 reset |-> s.resets # resets[s.node]]
      BY DEF lines
    <3>2. s \in Snapshot /\ Exact(s)
      BY DEF Impact
    <3>3. s.resets = resets[s.node]
      BY <2>2, <3>1
    <3>4. counter_gap(s) = Cardinality(skipped(s))
      BY <3>2, <3>3, GapOfExact
    <3> QED  BY <3>1, <3>4
  <2> QED  BY <2>1, <2>2 DEF GapCountsSkipped
<1> QED  BY <1>1, <1>2

\* A snapshot is exact when it is taken.
LEMMA WindowOpens ==
  ASSUME ReceiverInv, OtherTypes, WindowInv, NEW n \in Node
  PROVE  \A s \in impact_start(n, impact).snapshots : Exact(s)
<1>1. ASSUME NEW m \in Node
      PROVE  Exact(snapshot(m))
  <2> DEFINE s == snapshot(m)
  <2>1. s.node = m /\ s.rx = rx_counter[m] /\ s.ok = temp_rx_ok[m] /\ s.resets = resets[m]
    BY DEF snapshot
  <2> HIDE DEF s
  <2>2. rx_counter[m] \in Nat /\ temp_rx_ok[m] \in Nat /\ resets[m] \in Nat
    BY DEF ReceiverInv, ReceiverTypes, OtherTypes
  <2>3. taken(s) = {}
    BY <2>1, <2>2 DEF taken
  <2>4. Exact(s)
    BY <2>1, <2>2, <2>3, FS_EmptySet DEF Exact
  <2> QED  BY <2>4 DEF s
<1>2. CASE impact.target # Nobody
  BY <1>2 DEF impact_start, WindowInv
<1>3. CASE impact.target = Nobody
  <2>1. impact_start(n, impact).snapshots
          = {snapshot(m) : m \in {m \in Node \ {n} : root_state[m] = "ESTABLISHED"}}
    BY <1>3 DEF impact_start
  <2> QED  BY <1>1, <2>1
<1> QED  BY <1>2, <1>3

\* A handler that leaves the sessions and their counts alone.
LEMMA StaysExact ==
  ASSUME NEW s, Exact(s), UNCHANGED <<rx_counter, temp_rx_ok, got, resets>>
  PROVE  Exact(s)'
BY DEF Exact, taken

\* GETPK resets the counter of n, and its snapshots know.
LEMMA ResetIsKnown ==
  ASSUME ReceiverInv, OtherTypes, NEW n \in Node, NEW s \in Snapshot, Exact(s),
         rx_counter' = [rx_counter EXCEPT ![n] = 0], got' = [got EXCEPT ![n] = {}],
         resets' = [resets EXCEPT ![n] = resets[n] + 1], temp_rx_ok' = temp_rx_ok
  PROVE  Exact(s)'
<1>1. s.node \in Node /\ s.resets \in Nat /\ resets[s.node] \in Nat
  BY DEF Snapshot, OtherTypes
<1>2. CASE s.node = n
  <2>1. resets'[s.node] = resets[s.node] + 1
    BY <1>1, <1>2 DEF OtherTypes
  <2> QED  BY <1>1, <2>1 DEF Exact
<1>3. CASE s.node # n
  <2>1. /\ rx_counter'[s.node] = rx_counter[s.node] /\ got'[s.node] = got[s.node]
        /\ resets'[s.node] = resets[s.node]
    BY <1>1, <1>3 DEF ReceiverInv, ReceiverTypes, OtherTypes
  <2> QED  BY <2>1 DEF Exact, taken
<1> QED  BY <1>2, <1>3

\* An accepted measurement moves ok by one and puts one counter among those
\* taken; the counters it jumps over are not.
LEMMA AcceptedStaysExact ==
  ASSUME ReceiverInv, OtherTypes, NEW n \in Node, NEW s \in Snapshot, Exact(s),
         NEW p \in TempPacket, p.ctr >= rx_counter[n],
         rx_counter' = [rx_counter EXCEPT ![n] = p.ctr + 1],
         got' = [got EXCEPT ![n] = got[n] \cup {p}],
         \A m \in Node : temp_rx_ok'[m] = IF m = n THEN temp_rx_ok[n] + 1 ELSE temp_rx_ok[m],
         resets' = resets
  PROVE  Exact(s)'
<1>1. s.node \in Node /\ s.rx \in Nat /\ s.ok \in Nat
  BY DEF Snapshot
<1>2. CASE s.node # n
  <2>1. /\ rx_counter'[s.node] = rx_counter[s.node] /\ got'[s.node] = got[s.node]
        /\ temp_rx_ok'[s.node] = temp_rx_ok[s.node]
    BY <1>1, <1>2 DEF ReceiverInv, ReceiverTypes
  <2> QED  BY <2>1 DEF Exact, taken
<1>3. CASE s.node = n /\ s.resets # resets[s.node]
  BY <1>3 DEF Exact
<1>4. CASE s.node = n /\ s.resets = resets[s.node]
  <2>1. /\ rx_counter'[n] = p.ctr + 1 /\ got'[n] = got[n] \cup {p}
        /\ temp_rx_ok'[n] = temp_rx_ok[n] + 1 /\ rx_counter[n] \in Nat /\ p.ctr \in Nat
    BY DEF ReceiverInv, ReceiverTypes, TempPacket
  <2>2. s.rx <= rx_counter[n] /\ temp_rx_ok[n] = s.ok + Cardinality(taken(s))
    BY <1>4 DEF Exact
  <2>3. \A q \in got[n] : q.ctr \in Nat /\ q.ctr < rx_counter[n]
    BY DEF ReceiverInv, ReceiverTypes, Passed, TempPacket
  <2>4. taken(s)' = taken(s) \cup {p.ctr}
    <3>1. taken(s) = {c \in s.rx .. rx_counter[n] - 1 : \E q \in got[n] : q.ctr = c}
      BY <1>4 DEF taken
    <3>2. taken(s)' = {c \in s.rx .. p.ctr : \E q \in got[n] \cup {p} : q.ctr = c}
      <4>1. s.rx .. rx_counter'[n] - 1 = s.rx .. p.ctr
        BY <2>1
      <4> QED  BY <1>4, <2>1, <4>1 DEF taken
    <3>3. ASSUME NEW c \in taken(s)' PROVE c \in taken(s) \cup {p.ctr}
      <4>1. c \in Nat /\ s.rx <= c /\ \E q \in got[n] \cup {p} : q.ctr = c
        BY <1>1, <2>1, <3>2, <3>3
      <4>2. c = p.ctr \/ (c < rx_counter[n] /\ \E q \in got[n] : q.ctr = c)
        BY <2>3, <4>1
      <4> QED  BY <1>1, <2>1, <3>1, <4>1, <4>2
    <3>4. ASSUME NEW c \in taken(s) PROVE c \in taken(s)'
      <4>1. c \in s.rx .. rx_counter[n] - 1 /\ \E q \in got[n] : q.ctr = c
        BY <3>1, <3>4
      <4>2. c \in s.rx .. p.ctr
        BY <1>1, <2>1, <4>1
      <4> QED  BY <3>2, <4>1, <4>2
    <3>5. p.ctr \in taken(s)'
      <4>1. p.ctr \in s.rx .. p.ctr
        BY <1>1, <2>1, <2>2
      <4> QED  BY <3>2, <4>1
    <3> QED  BY <3>3, <3>4, <3>5
  <2>5. p.ctr \notin taken(s)
    BY <1>4, <2>1, <2>3 DEF taken
  <2>6. IsFiniteSet(taken(s))
    <3>1. s.rx \in Int /\ rx_counter[n] - 1 \in Int
      BY <1>1, <2>1
    <3>2. IsFiniteSet(s.rx .. rx_counter[n] - 1)
      BY <3>1, FS_Interval
    <3>3. taken(s) \subseteq s.rx .. rx_counter[n] - 1
      BY <1>4 DEF taken
    <3> QED  BY <3>2, <3>3, FS_Subset
  <2>7. Cardinality(taken(s)) \in Nat /\ Cardinality(taken(s)') = Cardinality(taken(s)) + 1
    BY <2>4, <2>5, <2>6, FS_AddElement, FS_CardinalityType
  <2>8. s.rx <= rx_counter'[n] /\ temp_rx_ok'[n] = s.ok + Cardinality(taken(s)')
    BY <1>1, <2>1, <2>2, <2>7
  <2> QED  BY <1>4, <2>8 DEF Exact
<1> QED  BY <1>2, <1>3, <1>4

-----------------------------------------------------------------------------
(* Types and window together.                                              *)

ChannelInv == SenderInv /\ ReceiverInv /\ OtherTypes /\ WindowInv

\* What the handlers of the node and the network leave to the window.
LEMMA WindowUntouched ==
  ASSUME WindowInv, UNCHANGED <<rx_counter, temp_rx_ok, got, resets, impact, impact_temp>>
  PROVE  WindowInv'
BY StaysExact DEF WindowInv, GapCountsSkipped

\* GETPK.
LEMMA GetpkKeepsWindow ==
  ASSUME ReceiverInv, OtherTypes, WindowInv, NEW n \in Node, RootRecvGetpk(n)
  PROVE  OtherTypes' /\ WindowInv'
<1>1. receive(up, n, GETPK)
  BY DEF RootRecvGetpk
<1>2. /\ rx_counter' = [rx_counter EXCEPT ![n] = 0] /\ got' = [got EXCEPT ![n] = {}]
      /\ resets' = [resets EXCEPT ![n] = resets[n] + 1]
      /\ UNCHANGED <<temp_rx_ok, tx_counter, pending, late>>
  BY DEF RootRecvGetpk, nodeSide
<1>3. up' \in [Node -> SUBSET UpPacket] /\ faults' \in Faults
  BY <1>1, ReceiveTypes
<1>4. PICK state \in {"IDLE", "WAIT_CT"} :
        /\ root_state' = [root_state EXCEPT ![n] = state]
        /\ root_ss' = [root_ss EXCEPT ![n] = 0]
  BY DEF RootRecvGetpk, RootRestart
<1>5. resets' \in [Node -> Nat] /\ root_state' \in [Node -> RootStates] /\ root_ss' \in [Node -> Nat]
  BY <1>2, <1>4 DEF OtherTypes, RootStates
<1> DEFINE w == impact_start(n, impact)
<1>6. w \in Impact /\ \A s \in w.snapshots : Exact(s)
  BY ImpactStartTypes, WindowOpens
<1>7. \/ send(down, n, PK) /\ impact' = w /\ impact_temp' = impact_temp
      \/ impact_end(n, w) /\ down' = down
  BY DEF RootRecvGetpk
<1> HIDE DEF w
<1>8. down' \in [Node -> SUBSET DownPacket]
  <2>1. PK \in DownPacket
    BY PacketTypes
  <2> QED  BY <1>7, <2>1, SendTypes DEF OtherTypes
<1>9. /\ impact' \in Impact /\ impact_temp' \in SUBSET Line
      /\ GapCountsSkipped' /\ \A s \in impact'.snapshots : s \in w.snapshots
  <2>1. CASE impact' = w /\ impact_temp' = impact_temp
    BY <1>6, <2>1 DEF OtherTypes, WindowInv, GapCountsSkipped
  <2>2. CASE impact_end(n, w)
    BY <1>6, <2>2, ImpactEndTypes, WindowEnds DEF WindowInv
  <2> QED  BY <1>7, <2>1, <2>2
<1>10. OtherTypes'
  BY <1>2, <1>3, <1>5, <1>8, <1>9 DEF OtherTypes
<1>11. ASSUME NEW s \in impact'.snapshots PROVE Exact(s)'
  <2>1. s \in Snapshot /\ Exact(s)
    BY <1>6, <1>9 DEF Impact
  <2> QED  BY <1>2, <2>1, ResetIsKnown
<1> QED  BY <1>9, <1>10, <1>11 DEF WindowInv

\* A complete CT, and a handshake that the root gives up: both may close the
\* window.
LEMMA EndKeepsWindow ==
  ASSUME SenderInv, ReceiverInv, OtherTypes, WindowInv, NEW n \in Node,
         RootRecvCt(n) \/ RootHandshakeFails(n)
  PROVE  OtherTypes' /\ WindowInv'
<1>1. UNCHANGED <<rx_counter, temp_rx_ok, got, resets, tx_counter, pending>>
  BY DEF RootRecvCt, RootHandshakeFails, nodeSide
<1>2. impact \in Impact /\ \A s \in impact.snapshots : Exact(s)
  BY DEF OtherTypes, WindowInv
<1>3. impact_end(n, impact) \/ UNCHANGED <<impact, impact_temp>>
  BY DEF RootRecvCt, RootHandshakeFails
<1>4. /\ impact' \in Impact /\ impact_temp' \in SUBSET Line
      /\ GapCountsSkipped' /\ \A s \in impact'.snapshots : s \in impact.snapshots
  <2>1. CASE UNCHANGED <<impact, impact_temp>>
    BY <2>1 DEF OtherTypes, WindowInv, GapCountsSkipped
  <2>2. CASE impact_end(n, impact)
    BY <1>2, <2>2, ImpactEndTypes, WindowEnds DEF WindowInv
  <2> QED  BY <1>3, <2>1, <2>2
<1>5. WindowInv'
  BY <1>1, <1>2, <1>4, StaysExact DEF WindowInv
<1>6. CASE RootRecvCt(n)
  <2>1. PICK p \in up[n] :
          /\ p.kind = "CT" /\ receive(up, n, p) /\ send(down, n, ACK(p.msg_id))
          /\ \/ RootEstablish(n, p.ss) /\ late' = [late EXCEPT ![n] = node_up[n]]
             \/ UNCHANGED <<keyVars, late>>
    BY <1>6 DEF RootRecvCt
  <2>2. p \in UpPacket /\ up' \in [Node -> SUBSET UpPacket] /\ faults' \in Faults
    BY <2>1, ReceiveTypes
  <2>3. p.ss \in Nat /\ ACK(p.msg_id) \in DownPacket
    BY <2>1, <2>2, PacketTypes
  <2>4. down' \in [Node -> SUBSET DownPacket]
    BY <2>1, <2>3, SendTypes
  <2>5. root_state' \in [Node -> RootStates] /\ root_ss' \in [Node -> Nat]
    BY <2>1, <2>3 DEF RootEstablish, keyVars, OtherTypes, RootStates
  <2>6. late' \in [Node -> BOOLEAN]
    <3>1. late \in [Node -> BOOLEAN] /\ node_up \in [Node -> BOOLEAN]
      BY DEF OtherTypes, SenderInv, SenderTypes
    <3>2. late' = late \/ late' = [late EXCEPT ![n] = node_up[n]]
      BY <2>1
    <3> QED  BY <3>1, <3>2, Zenon
  <2>7. OtherTypes'
    BY <1>1, <1>4, <2>2, <2>4, <2>5, <2>6 DEF OtherTypes
  <2> QED  BY <1>5, <2>7
<1>7. CASE RootHandshakeFails(n)
  <2>1. UNCHANGED <<up, down, late>> /\ RootGiveUp(n) /\ fault("fail")
    BY <1>7 DEF RootHandshakeFails
  <2>2. root_state' \in [Node -> RootStates] /\ root_ss' \in [Node -> Nat]
    BY <2>1 DEF RootGiveUp, OtherTypes, RootStates
  <2>3. faults' \in Faults
    BY <2>1, FaultTypes DEF OtherTypes
  <2>4. OtherTypes'
    BY <1>1, <1>4, <2>1, <2>2, <2>3 DEF OtherTypes
  <2> QED  BY <1>5, <2>4
<1> QED  BY <1>6, <1>7

\* pqc_handle_encrypted_temp.
LEMMA RecvTempKeepsWindow ==
  ASSUME SenderInv, ReceiverInv, OtherTypes, WindowInv, NEW n \in Node, RootRecvTemp(n)
  PROVE  OtherTypes' /\ WindowInv'
<1>1. PICK p \in temps(n) :
        /\ receive(up, n, p)
        /\ \/ \E offset \in matching(n, p) :
                /\ rx_counter' = [rx_counter EXCEPT ![n] = committed(n, offset)]
                /\ temp_rx_ok' = [temp_rx_ok EXCEPT ![n] = temp_rx_ok[n] + 1]
                /\ got' = [got EXCEPT ![n] = got[n] \cup {p}]
           \/ UNCHANGED <<rx_counter, temp_rx_ok, got>>
  BY DEF RootRecvTemp
<1>2. UNCHANGED <<keyVars, tx_counter, pending, impact, down, late, resets, impact_temp>>
  BY DEF RootRecvTemp, nodeSide
<1>3. UNCHANGED <<root_state, root_ss>>
  BY <1>2 DEF keyVars
<1>4. up' \in [Node -> SUBSET UpPacket] /\ faults' \in Faults
  BY <1>1, ReceiveTypes
<1>5. OtherTypes'
  BY <1>2, <1>3, <1>4 DEF OtherTypes
<1>6. p \in TempPacket /\ p.ctr < MaxTemp
  BY DEF temps, ReceiverInv, InFlight, Measurement
<1>7. ASSUME NEW s \in impact.snapshots PROVE Exact(s)'
  <2>1. s \in Snapshot /\ Exact(s) /\ s.node \in Node
    BY DEF OtherTypes, Impact, WindowInv, Snapshot
  <2>2. CASE UNCHANGED <<rx_counter, temp_rx_ok, got>>
    BY <1>2, <2>1, <2>2, StaysExact
  <2>3. ASSUME NEW offset \in matching(n, p),
               rx_counter' = [rx_counter EXCEPT ![n] = committed(n, offset)],
               temp_rx_ok' = [temp_rx_ok EXCEPT ![n] = temp_rx_ok[n] + 1],
               got' = [got EXCEPT ![n] = got[n] \cup {p}]
        PROVE  Exact(s)'
    <3>1. p.ctr >= rx_counter[n] /\ committed(n, offset) = p.ctr + 1
      BY <1>6, MatchIsOwnCounter
    <3>2. \A m \in Node : temp_rx_ok'[m] = IF m = n THEN temp_rx_ok[n] + 1 ELSE temp_rx_ok[m]
      BY <2>3 DEF ReceiverInv, ReceiverTypes
    <3>3. rx_counter' = [rx_counter EXCEPT ![n] = p.ctr + 1]
      BY <2>3, <3>1
    <3> QED  BY <1>2, <1>6, <2>1, <2>3, <3>1, <3>2, <3>3, AcceptedStaysExact
  <2> QED  BY <1>1, <2>2, <2>3
<1> QED  BY <1>2, <1>5, <1>7 DEF WindowInv, GapCountsSkipped

\* The root restarts, and the network loses a packet.
LEMMA RebootKeepsWindow ==
  ASSUME OtherTypes, WindowInv, RootReboot
  PROVE  OtherTypes' /\ WindowInv'
<1>1. /\ fault("root") /\ RootForget
      /\ impact' = [target |-> Nobody, snapshots |-> {}]
      /\ resets' = [n \in Node |-> resets[n] + 1]
      /\ UNCHANGED <<tx_counter, pending, up, down, late, impact_temp>>
  BY DEF RootReboot, nodeSide
<1>2. faults' \in Faults
  BY <1>1, FaultTypes DEF OtherTypes
<1>3. impact' \in Impact /\ impact'.snapshots = {}
  BY <1>1 DEF Impact
<1>4. root_state' \in [Node -> RootStates] /\ root_ss' \in [Node -> Nat]
  BY <1>1 DEF RootForget, RootStates
<1>5. resets' \in [Node -> Nat]
  BY <1>1 DEF OtherTypes
<1>6. OtherTypes'
  BY <1>1, <1>2, <1>3, <1>4, <1>5 DEF OtherTypes
<1> QED  BY <1>1, <1>3, <1>6 DEF WindowInv, GapCountsSkipped

LEMMA LoseKeepsWindow ==
  ASSUME OtherTypes, WindowInv, NEW n \in Node, Lose(n)
  PROVE  OtherTypes' /\ WindowInv'
<1>1. /\ fault("loss")
      /\ UNCHANGED <<keyVars, tx_counter, pending, rx_counter, temp_rx_ok, impact, down, got, late,
                     resets, impact_temp>>
  BY DEF Lose, nodeSide, rootSide
<1>2. faults' \in Faults
  BY <1>1, FaultTypes DEF OtherTypes
<1>3. \E p \in temps(n) : up' = [up EXCEPT ![n] = up[n] \ {p}]
  BY DEF Lose
<1>4. up' \in [Node -> SUBSET UpPacket]
  BY <1>3 DEF OtherTypes
<1>5. UNCHANGED <<root_state, root_ss>>
  BY <1>1 DEF keyVars
<1>6. OtherTypes'
  BY <1>1, <1>2, <1>4, <1>5 DEF OtherTypes
<1> QED  BY <1>1, <1>6, WindowUntouched

LEMMA ChannelStarts == TempInit => ChannelInv
<1> SUFFICES ASSUME TempInit PROVE ChannelInv
  OBVIOUS
<1>1. faults \in Faults
  BY TempBounds DEF TempInit, Faults
<1>2. impact \in Impact /\ impact.snapshots = {}
  BY DEF TempInit, Impact
<1>3. OtherTypes
  BY <1>1, <1>2, TempBounds DEF TempInit, KeyInit, OtherTypes, RootStates
<1>4. WindowInv
  BY <1>2 DEF TempInit, WindowInv, GapCountsSkipped
<1> QED  BY <1>3, <1>4, TempInitially DEF ChannelInv

\* Every step of the channel keeps types and window.
LEMMA ChannelStep == ChannelInv /\ [TempNext]_tempVars => ChannelInv'
<1> SUFFICES ASSUME ChannelInv, [TempNext]_tempVars PROVE ChannelInv'
  OBVIOUS
<1>1. SenderInv /\ ReceiverInv /\ OtherTypes /\ WindowInv
  BY DEF ChannelInv
<1>2. SenderInv' /\ ReceiverInv'
  BY <1>1, TempStep
<1>3. OtherTypes' /\ WindowInv'
  <2>1. ASSUME NEW n \in Node, NodeActs(n)
        PROVE  OtherTypes' /\ WindowInv'
    <3>1. UNCHANGED <<rx_counter, temp_rx_ok, got, resets, impact, impact_temp>>
      BY <2>1 DEF NodeActs, NodeAsk, NodeRecvPk, NodeRecvAck, NodeTemp, NodeGiveUp, NodeRestart,
                  rootSide
    <3> QED  BY <1>1, <2>1, <3>1, NodeKeepsTypes, WindowUntouched
  <2>2. ASSUME NEW n \in Node, RootActs(n)
        PROVE  OtherTypes' /\ WindowInv'
    BY <1>1, <2>2, GetpkKeepsWindow, EndKeepsWindow, RecvTempKeepsWindow, LoseKeepsWindow
       DEF RootActs
  <2>3. CASE RootReboot
    BY <1>1, <2>3, RebootKeepsWindow
  <2>4. CASE UNCHANGED tempVars
    <3>1. UNCHANGED <<rx_counter, temp_rx_ok, got, resets, impact, impact_temp>>
      BY <2>4 DEF tempVars, chanVars
    <3>2. OtherTypes'
      BY <1>1, <2>4 DEF tempVars, keyVars, chanVars, OtherTypes
    <3> QED  BY <1>1, <3>1, <3>2, WindowUntouched
  <2> QED  BY <2>1, <2>2, <2>3, <2>4 DEF TempNext, NodeActs, RootActs
<1> QED  BY <1>2, <1>3 DEF ChannelInv

\* Types: counters below 2^32, sessions, packets and IMPACT_TEMP lines of the
\* shapes the handlers expect.
THEOREM ChannelTypes == TempSpec => []TempTypeOK
<1>1. ChannelInv => TempTypeOK
  BY TypeParts DEF ChannelInv
<1> QED  BY <1>1, ChannelStarts, ChannelStep, PTL DEF TempSpec

\* counter_gap of an IMPACT_TEMP line (server_main.c) is exact for every node
\* whose session was not reset while the window was open, whatever the network
\* lost, repeated or reordered.
THEOREM GapsExact == TempSpec => []GapCountsSkipped
<1>1. ChannelInv => GapCountsSkipped
  BY DEF ChannelInv, WindowInv
<1> QED  BY <1>1, ChannelStarts, ChannelStep, PTL DEF TempSpec

-----------------------------------------------------------------------------
(* The window the root tries is wide enough: it takes that packets in      *)
(* flight and packets lost together fit into it.                           *)

WindowSuffices == AirCap > 0 /\ AirCap + MaxLoss <= PQC_TEMP_RX_COUNTER_WINDOW

\* Measurements of the present start on their way that the root can still accept.
ahead(n) == {p \in temps(n) : p \in sent[n] /\ p.ctr >= rx_counter[n]}

\* Of the counters the root still waits for, each is on its way or was lost.
Missing(n) ==
  InStep(n) => /\ rx_counter[n] <= tx_counter[n]
               /\ tx_counter[n] - rx_counter[n] <= Cardinality(ahead(n)) + (MaxLoss - faults.loss)

Air(n) == IsFiniteSet(temps(n)) /\ Cardinality(temps(n)) <= AirCap

Accountable == faults.loss <= MaxLoss /\ \A n \in Node : Air(n) /\ Missing(n)

\* What is in flight is finite, and no less than what can be accepted of it.
LEMMA AheadFinite ==
  ASSUME NEW n \in Node, IsFiniteSet(temps(n))
  PROVE  /\ Cardinality(temps(n)) \in Nat
         /\ IsFiniteSet(ahead(n)) /\ Cardinality(ahead(n)) \in Nat
         /\ Cardinality(ahead(n)) <= Cardinality(temps(n))
<1>1. ahead(n) \subseteq temps(n)
  BY DEF ahead
<1>2. IsFiniteSet(ahead(n)) /\ Cardinality(ahead(n)) <= Cardinality(temps(n))
  BY <1>1, FS_Subset
<1> QED  BY <1>2, FS_CardinalityType

\* Fewer packets in flight are no more than before.
LEMMA LessAir ==
  ASSUME NEW n \in Node, Air(n), temps(n)' \subseteq temps(n)
  PROVE  Air(n)'
<1>1. IsFiniteSet(temps(n)') /\ Cardinality(temps(n)') <= Cardinality(temps(n))
  BY FS_Subset DEF Air
<1>2. Cardinality(temps(n)') \in Nat /\ Cardinality(temps(n)) \in Nat
  BY <1>1, FS_CardinalityType DEF Air
<1> QED  BY <1>1, <1>2, TempBounds DEF Air

\* Losses are counted, other faults are not losses.
LEMMA FaultLosses ==
  ASSUME faults \in Faults, NEW kind \in {"loss", "dup", "fail", "node", "root"}, fault(kind)
  PROVE  /\ kind # "loss" => faults'.loss = faults.loss
         /\ kind = "loss" => faults'.loss = faults.loss - 1 /\ faults.loss > 0
<1> DEFINE a == faults[kind] - 1
           b == faults.all - 1
<1>1. faults[kind] > 0 /\ faults.all > 0
  BY Zenon DEF fault
<1>2. faults.all \in Nat /\ faults[kind] \in Nat
  BY Zenon DEF Faults
<1>3. a \in Nat /\ b \in Nat
  BY <1>1, <1>2
<1>4. faults' = [faults EXCEPT ![kind] = a, !["all"] = b]
  BY Zenon DEF fault
<1> HIDE DEF a, b
<1>5. kind = "loss" => faults'.loss = a
  BY <1>3, <1>4, Zenon DEF Faults
<1>6. kind = "dup" => faults'.loss = faults.loss
  BY <1>3, <1>4, Zenon DEF Faults
<1>7. kind = "node" => faults'.loss = faults.loss
  BY <1>3, <1>4, Zenon DEF Faults
<1>8. kind = "root" => faults'.loss = faults.loss
  BY <1>3, <1>4, Zenon DEF Faults
<1>9. kind = "fail" => faults'.loss = faults.loss
  BY <1>3, <1>4, Zenon DEF Faults
<1> QED  BY <1>1, <1>5, <1>6, <1>7, <1>8, <1>9 DEF a

LEMMA ReceiveLosses ==
  ASSUME OtherTypes, NEW n, NEW p, receive(up, n, p) \/ receive(down, n, p)
  PROVE  faults'.loss = faults.loss
<1>1. faults' = faults \/ fault("dup")
  BY DEF receive
<1>2. faults \in Faults
  BY DEF OtherTypes
<1> QED  BY <1>1, <1>2, FaultLosses

\* A step that leaves a node's measurements and counters alone, or takes it out of
\* step with the root.
LEMMA MissingKept ==
  ASSUME SenderInv, ReceiverInv, OtherTypes, OtherTypes', NEW n \in Node, Air(n), Missing(n),
         temps(n)' = temps(n), faults'.loss <= faults.loss,
         InStep(n)' => /\ InStep(n) /\ sent'[n] = sent[n]
                       /\ rx_counter'[n] = rx_counter[n] /\ tx_counter'[n] = tx_counter[n]
  PROVE  Air(n)' /\ Missing(n)'
<1>1. Air(n)'
  BY DEF Air
<1>2. ASSUME InStep(n)' PROVE Missing(n)'
  <2>1. /\ InStep(n) /\ sent'[n] = sent[n]
        /\ rx_counter'[n] = rx_counter[n] /\ tx_counter'[n] = tx_counter[n]
    BY <1>2
  <2>2. ahead(n)' = ahead(n)
    BY <2>1 DEF ahead
  <2>3. Cardinality(ahead(n)) \in Nat
    BY AheadFinite DEF Air
  <2>4. faults.loss \in Nat /\ faults'.loss \in Nat
    BY DEF OtherTypes, Faults
  <2>5. rx_counter[n] \in Nat /\ tx_counter[n] \in Nat
    BY DEF SenderInv, SenderTypes, ReceiverInv, ReceiverTypes
  <2> QED  BY <2>1, <2>2, <2>3, <2>4, <2>5, TempBounds DEF Missing
<1> QED  BY <1>1, <1>2 DEF Missing

\* The handlers that send, receive or lose no measurement of any node.
LEMMA HandshakeKeepsAccount ==
  ASSUME SenderInv, ReceiverInv, OtherTypes, OtherTypes', Accountable,
         faults'.loss <= faults.loss,
         \A n \in Node : temps(n)' = temps(n),
         \A n \in Node : InStep(n)' => /\ InStep(n) /\ sent'[n] = sent[n]
                                       /\ rx_counter'[n] = rx_counter[n]
                                       /\ tx_counter'[n] = tx_counter[n]
  PROVE  Accountable'
<1>1. faults'.loss <= MaxLoss
  BY TempBounds DEF Accountable, OtherTypes, Faults
<1>2. \A n \in Node : Air(n)' /\ Missing(n)'
  BY MissingKept DEF Accountable
<1> QED  BY <1>1, <1>2 DEF Accountable

\* Steps of a node that is not established, and stays so.
LEMMA NodeKeepsAccount ==
  ASSUME SenderInv, SenderInv', ReceiverInv, OtherTypes, OtherTypes', Accountable, NEW n \in Node,
         NodeAsk(n) \/ NodeRecvPk(n) \/ NodeGiveUp(n) \/ NodeRestart(n)
  PROVE  Accountable'
<1>1. UNCHANGED <<root_state, root_ss, rx_counter, got>>
  BY DEF NodeAsk, NodeRecvPk, NodeGiveUp, NodeRestart, NodeBegin, NodeEncapsulate, NodeReset,
         NodeReboot, wiped, rootKeys, rootSide
<1>2. faults \in Faults /\ faults.loss \in Nat
  BY DEF OtherTypes, Faults
<1>3. ~node_up'[n]
  <2>1. CASE NodeAsk(n)
    BY <2>1 DEF NodeAsk, NodeBegin
  <2>2. CASE NodeRecvPk(n)
    BY <2>2 DEF NodeRecvPk, NodeEncapsulate, SenderInv, KeyState
  <2>3. CASE NodeGiveUp(n) \/ NodeRestart(n)
    BY <2>3 DEF NodeGiveUp, NodeRestart, NodeReset, NodeReboot, wiped, SenderInv, SenderTypes
  <2> QED  BY <2>1, <2>2, <2>3
<1>4. \A m \in Node : m # n =>
        /\ (node_up'[m] <=> node_up[m]) /\ (late'[m] <=> late[m]) /\ node_ss'[m] = node_ss[m]
        /\ sent'[m] = sent[m] /\ tx_counter'[m] = tx_counter[m]
  <2>1. CASE NodeAsk(n) \/ NodeRecvPk(n)
    BY <2>1 DEF NodeAsk, NodeRecvPk, NodeBegin, NodeEncapsulate, SenderInv, SenderTypes, rootSide
  <2>2. CASE NodeGiveUp(n) \/ NodeRestart(n)
    BY <2>2 DEF NodeGiveUp, NodeRestart, NodeReset, NodeReboot, wiped, SenderInv, SenderTypes,
                OtherTypes, rootSide
  <2> QED  BY <2>1, <2>2
<1>5. \A m \in Node : InStep(m)' =>
        /\ InStep(m) /\ sent'[m] = sent[m]
        /\ rx_counter'[m] = rx_counter[m] /\ tx_counter'[m] = tx_counter[m]
  BY <1>1, <1>3, <1>4 DEF InStep
<1>6. CASE NodeAsk(n)
  <2>1. send(up, n, GETPK) /\ faults' = faults /\ GETPK.kind # "TEMP"
    BY <1>6 DEF NodeAsk, GETPK
  <2>2. \A m \in Node : temps(m)' = temps(m)
    BY <2>1, SendUp DEF temps, ReceiverInv
  <2> QED  BY <1>2, <1>5, <2>1, <2>2, HandshakeKeepsAccount
<1>7. CASE NodeRecvPk(n)
  <2>1. /\ receive(down, n, PK)
        /\ up' = up \/ \E id \in MsgIds : send(up, n, CT(prng[n] + 1, id))
    BY <1>7 DEF NodeRecvPk
  <2>2. \A id : CT(prng[n] + 1, id).kind # "TEMP"
    BY DEF CT
  <2>3. ASSUME NEW id \in MsgIds, send(up, n, CT(prng[n] + 1, id))
        PROVE  \A m \in Node : temps(m)' = temps(m)
    BY <2>2, <2>3, SendUp DEF temps, ReceiverInv
  <2>4. \A m \in Node : temps(m)' = temps(m)
    BY <2>1, <2>3 DEF temps
  <2>5. faults'.loss <= faults.loss
    BY <1>2, <2>1, ReceiveLosses
  <2> QED  BY <1>5, <2>4, <2>5, HandshakeKeepsAccount
<1>8. CASE NodeGiveUp(n) \/ NodeRestart(n)
  <2>1. up' = up /\ (fault("fail") \/ fault("node"))
    BY <1>8 DEF NodeGiveUp, NodeRestart
  <2>2. faults'.loss <= faults.loss
    BY <1>2, <2>1, FaultLosses
  <2>3. \A m \in Node : temps(m)' = temps(m)
    BY <2>1 DEF temps
  <2> QED  BY <1>5, <2>2, <2>3, HandshakeKeepsAccount
<1> QED  BY <1>6, <1>7, <1>8

\* The confirmation: nothing was sent yet, so a root that accepted nothing but
\* what was sent waits for the first counter.
LEMMA ConfirmKeepsAccount ==
  ASSUME SenderInv, ReceiverInv, OtherTypes, OtherTypes', Accountable, NEW n \in Node,
         NodeRecvAck(n)
  PROVE  Accountable'
<1>1. /\ receive(down, n, ACK(pending[n])) /\ ~node_up[n]
      /\ node_up' = [node_up EXCEPT ![n] = TRUE]
      /\ UNCHANGED <<up, node_ss, root_state, root_ss, tx_counter, rx_counter, got, sent, late>>
  BY DEF NodeRecvAck, NodeConfirm, rootSide, rootKeys
<1>2. \A m \in Node : temps(m)' = temps(m)
  BY <1>1 DEF temps
<1>3. faults'.loss = faults.loss /\ faults.loss \in Nat
  BY <1>1, ReceiveLosses DEF OtherTypes, Faults
<1>4. \A m \in Node : m # n => Air(m)' /\ Missing(m)'
  <2>1. \A m \in Node : m # n => (node_up'[m] <=> node_up[m])
    BY <1>1 DEF SenderInv, SenderTypes
  <2>2. \A m \in Node : m # n => (InStep(m)' => InStep(m))
    BY <1>1, <2>1 DEF InStep
  <2> QED  BY <1>1, <1>2, <1>3, <2>2, MissingKept DEF Accountable
<1>5. Air(n)'
  BY <1>2 DEF Accountable, Air
<1>6. ASSUME InStep(n)' PROVE Missing(n)'
  <2>1. tx_counter[n] = 0 /\ sent[n] = {}
    BY <1>1 DEF SenderInv, KeyState
  <2>2. got[n] = {} /\ rx_counter[n] = 0
    BY <1>1, <1>6, <2>1 DEF InStep, ReceiverInv, Passed
  <2>3. Cardinality(ahead(n)') = 0
    BY <1>1, <2>1, FS_EmptySet DEF ahead
  <2> QED  BY <1>1, <1>3, <2>1, <2>2, <2>3, TempBounds DEF Missing, Accountable
<1>7. Missing(n)'
  BY <1>6 DEF Missing
<1> QED  BY <1>3, <1>4, <1>5, <1>7 DEF Accountable

\* Handlers of the root that begin or end a session.  A CT that establishes it
\* after the node was established makes it late.
LEMMA RootKeepsAccount ==
  ASSUME SenderInv, ReceiverInv, OtherTypes, OtherTypes', Accountable,
         \/ RootReboot
         \/ \E n \in Node : RootRecvGetpk(n) \/ RootRecvCt(n) \/ RootHandshakeFails(n)
  PROVE  Accountable'
<1>1. UNCHANGED <<node_ss, node_up, tx_counter, sent>>
  BY DEF RootReboot, RootRecvGetpk, RootRecvCt, RootHandshakeFails, RootForget, RootRestart,
         RootEstablish, RootGiveUp, nodeKeys, keyVars, nodeSide
<1>2. faults \in Faults /\ faults.loss \in Nat
  BY DEF OtherTypes, Faults
<1>3. CASE RootReboot
  <2>1. fault("root") /\ up' = up /\ root_state' = [n \in Node |-> "IDLE"]
    BY <1>3 DEF RootReboot, RootForget
  <2>2. faults'.loss <= faults.loss
    BY <1>2, <2>1, FaultLosses
  <2>3. \A m \in Node : temps(m)' = temps(m)
    BY <2>1 DEF temps
  <2>4. \A m \in Node : ~InStep(m)'
    BY <2>1 DEF InStep
  <2> QED  BY <2>2, <2>3, <2>4, HandshakeKeepsAccount
<1>4. ASSUME NEW n \in Node, RootHandshakeFails(n) PROVE Accountable'
  <2>1. /\ fault("fail") /\ UNCHANGED <<up, rx_counter, got, late, root_ss>>
        /\ root_state' = [root_state EXCEPT ![n] = "IDLE"]
    BY <1>4 DEF RootHandshakeFails, RootGiveUp
  <2>2. \A m \in Node : temps(m)' = temps(m)
    BY <2>1 DEF temps
  <2>3. root_state'[n] = "IDLE" /\ \A m \in Node : m # n => root_state'[m] = root_state[m]
    BY <2>1 DEF OtherTypes
  <2>4. faults'.loss <= faults.loss
    BY <1>2, <2>1, FaultLosses
  <2>5. \A m \in Node : InStep(m)' => InStep(m)
    BY <1>1, <2>1, <2>3 DEF InStep
  <2> QED  BY <1>1, <2>1, <2>2, <2>4, <2>5, HandshakeKeepsAccount
<1>5. ASSUME NEW n \in Node, RootRecvGetpk(n) PROVE Accountable'
  <2>1. receive(up, n, GETPK) /\ GETPK.kind # "TEMP" /\ late' = late
    BY <1>5 DEF RootRecvGetpk, GETPK
  <2>2. PICK state \in {"IDLE", "WAIT_CT"} :
          /\ root_state' = [root_state EXCEPT ![n] = state]
          /\ root_ss' = [root_ss EXCEPT ![n] = 0]
          /\ rx_counter' = [rx_counter EXCEPT ![n] = 0]
          /\ got' = [got EXCEPT ![n] = {}]
    BY <1>5 DEF RootRecvGetpk, RootRestart
  <2>3. /\ root_state'[n] # "ESTABLISHED"
        /\ \A m \in Node : m # n => /\ root_state'[m] = root_state[m] /\ root_ss'[m] = root_ss[m]
                                    /\ rx_counter'[m] = rx_counter[m] /\ got'[m] = got[m]
    BY <2>2 DEF OtherTypes, ReceiverInv, ReceiverTypes
  <2>4. \A m \in Node : temps(m)' = temps(m)
    <3>1. up' = [up EXCEPT ![n] = up[n] \ {GETPK}] \/ up' = up
      BY <2>1 DEF receive
    <3> QED  BY <2>1, <3>1 DEF temps, OtherTypes
  <2>5. faults'.loss <= faults.loss
    BY <1>2, <2>1, ReceiveLosses
  <2>6. \A m \in Node : InStep(m)' => InStep(m) /\ m # n
    BY <1>1, <2>1, <2>3 DEF InStep
  <2> QED  BY <1>1, <2>3, <2>4, <2>5, <2>6, HandshakeKeepsAccount
<1>6. ASSUME NEW n \in Node, RootRecvCt(n) PROVE Accountable'
  <2>1. PICK p \in up[n] :
          /\ p.kind = "CT" /\ receive(up, n, p)
          /\ \/ RootEstablish(n, p.ss) /\ late' = [late EXCEPT ![n] = node_up[n]]
             \/ UNCHANGED <<keyVars, late>>
    BY <1>6 DEF RootRecvCt
  <2>2. UNCHANGED <<rx_counter, got>>
    BY <1>6 DEF RootRecvCt
  <2>3. \A m \in Node : temps(m)' = temps(m)
    <3>1. up' = [up EXCEPT ![n] = up[n] \ {p}] \/ up' = up
      BY <2>1 DEF receive
    <3> QED  BY <2>1, <3>1 DEF temps, OtherTypes
  <2>4. faults'.loss <= faults.loss
    BY <1>2, <2>1, ReceiveLosses
  <2>5. \A m \in Node : InStep(m)' => InStep(m)
    <3>1. CASE UNCHANGED <<keyVars, late>>
      BY <1>1, <2>2, <3>1 DEF InStep, keyVars
    <3>2. CASE RootEstablish(n, p.ss) /\ late' = [late EXCEPT ![n] = node_up[n]]
      <4>1. late'[n] = node_up[n]
        BY <3>2 DEF OtherTypes
      <4>2. \A m \in Node : m # n => /\ root_state'[m] = root_state[m] /\ root_ss'[m] = root_ss[m]
                                     /\ late'[m] = late[m]
        BY <3>2 DEF RootEstablish, OtherTypes
      <4> QED  BY <1>1, <2>2, <4>1, <4>2 DEF InStep
    <3> QED  BY <2>1, <3>1, <3>2
  <2> QED  BY <1>1, <2>2, <2>3, <2>4, <2>5, HandshakeKeepsAccount
<1> QED  BY <1>3, <1>4, <1>5, <1>6

\* A measurement is sent: one more counter to wait for, one more packet in flight.
\* It is none of those the root accepted before.
LEMMA TempKeepsAccount ==
  ASSUME SenderInv, ReceiverInv, OtherTypes, OtherTypes', Accountable, NEW n \in Node, NodeTemp(n)
  PROVE  Accountable'
<1>1. PICK t :
        /\ t = TEMP(node_ss[n], tx_counter[n], measured[n] + 1)
        /\ send(up, n, t) /\ faults' = faults /\ tx_counter[n] < MaxTemp
        /\ tx_counter' = [tx_counter EXCEPT ![n] = next_counter(tx_counter[n])]
        /\ sent' = [sent EXCEPT ![n] = sent[n] \cup {t}]
        /\ Cardinality(temps(n)) < AirCap
  BY DEF NodeTemp
<1>2. t.kind = "TEMP" /\ t.ctr = tx_counter[n] /\ t.value = measured[n] + 1
  BY <1>1 DEF TEMP
<1>3. UNCHANGED <<node_ss, node_up, root_state, root_ss, rx_counter, got, late>>
  BY DEF NodeTemp, keyVars, rootSide
<1>4. /\ tx_counter[n] \in Nat /\ rx_counter[n] \in Nat /\ faults.loss \in Nat
      /\ measured[n] \in Nat
  BY DEF SenderInv, SenderTypes, ReceiverInv, ReceiverTypes, OtherTypes, Faults
<1>5. tx_counter'[n] = tx_counter[n] + 1 /\ \A m \in Node : m # n => tx_counter'[m] = tx_counter[m]
  <2>1. next_counter(tx_counter[n]) = tx_counter[n] + 1
    BY <1>1, <1>4, NextCounter
  <2> QED  BY <1>1, <2>1 DEF SenderInv, SenderTypes
<1>6. sent'[n] = sent[n] \cup {t} /\ \A m \in Node : m # n => sent'[m] = sent[m]
  BY <1>1 DEF SenderInv, SenderTypes
<1>7. temps(n)' = temps(n) \cup {t} /\ \A m \in Node : m # n => temps(m)' = temps(m)
  BY <1>1, <1>2, SendUp DEF temps, ReceiverInv
<1>8. t \notin temps(n) /\ t \notin got[n]
  <2>1. \A q : Measurement(n, q) => q # t
    BY <1>2, <1>4 DEF Measurement, TempPacket
  <2> QED  BY <2>1 DEF temps, ReceiverInv, InFlight, Passed
<1>9. \A m \in Node : m # n => Air(m)' /\ Missing(m)'
  <2>1. \A m \in Node : m # n => (InStep(m)' => InStep(m))
    BY <1>3, <1>6 DEF InStep
  <2> QED  BY <1>1, <1>3, <1>4, <1>5, <1>6, <1>7, <2>1, MissingKept DEF Accountable
<1>10. IsFiniteSet(temps(n)) /\ Cardinality(temps(n)) \in Nat
  BY FS_CardinalityType DEF Accountable, Air
<1>11. Air(n)'
  <2>1. IsFiniteSet(temps(n)') /\ Cardinality(temps(n)') = Cardinality(temps(n)) + 1
    BY <1>7, <1>8, <1>10, FS_AddElement
  <2> QED  BY <1>1, <1>10, <2>1, TempBounds DEF Air
<1>12. ASSUME InStep(n)' PROVE Missing(n)'
  <2>1. InStep(n)
    BY <1>3, <1>6, <1>8, <1>12 DEF InStep
  <2>2. /\ rx_counter[n] <= tx_counter[n]
        /\ tx_counter[n] - rx_counter[n] <= Cardinality(ahead(n)) + (MaxLoss - faults.loss)
    BY <2>1 DEF Accountable, Missing
  <2>3. ahead(n)' = ahead(n) \cup {t}
    BY <1>2, <1>3, <1>4, <1>6, <1>7, <1>8, <2>2 DEF ahead
  <2>4. t \notin ahead(n)
    BY <1>8 DEF ahead
  <2>5. Cardinality(ahead(n)') = Cardinality(ahead(n)) + 1 /\ Cardinality(ahead(n)) \in Nat
    BY <1>10, <2>3, <2>4, AheadFinite, FS_AddElement
  <2> QED  BY <1>1, <1>3, <1>4, <1>5, <2>2, <2>5, TempBounds DEF Missing
<1>13. Missing(n)'
  BY <1>12 DEF Missing
<1> QED  BY <1>1, <1>9, <1>11, <1>13 DEF Accountable

\* A packet less in flight, and it was counted as lost.
LEMMA LoseKeepsAccount ==
  ASSUME SenderInv, ReceiverInv, OtherTypes, OtherTypes', Accountable, NEW n \in Node, Lose(n)
  PROVE  Accountable'
<1>1. fault("loss") /\ UNCHANGED <<keyVars, rx_counter, got, late, tx_counter, sent>>
  BY DEF Lose, nodeSide, rootSide
<1>2. UNCHANGED <<node_ss, node_up, root_state, root_ss>>
  BY <1>1 DEF keyVars
<1>3. faults'.loss = faults.loss - 1 /\ faults.loss \in Nat /\ faults'.loss \in Nat
  BY <1>1, FaultLosses DEF OtherTypes, Faults
<1>4. PICK p \in temps(n) : up' = [up EXCEPT ![n] = up[n] \ {p}]
  BY DEF Lose
<1>5. temps(n)' = temps(n) \ {p} /\ \A m \in Node : m # n => temps(m)' = temps(m)
  BY <1>4 DEF temps, OtherTypes
<1>6. \A m \in Node : InStep(m)' => InStep(m)
  BY <1>1, <1>2 DEF InStep
<1>7. \A m \in Node : m # n => Air(m)' /\ Missing(m)'
  BY <1>1, <1>3, <1>5, <1>6, MissingKept DEF Accountable
<1>8. Air(n)'
  BY <1>5, LessAir DEF Accountable
<1>9. ASSUME InStep(n)' PROVE Missing(n)'
  <2>1. /\ rx_counter[n] <= tx_counter[n]
        /\ tx_counter[n] - rx_counter[n] <= Cardinality(ahead(n)) + (MaxLoss - faults.loss)
    BY <1>6, <1>9 DEF Accountable, Missing
  <2>2. ahead(n)' = ahead(n) \ {p}
    BY <1>1, <1>5 DEF ahead
  <2>3. IsFiniteSet(ahead(n)) /\ Cardinality(ahead(n)) \in Nat
    BY AheadFinite DEF Accountable, Air
  <2>4. Cardinality(ahead(n) \ {p})
          = IF p \in ahead(n) THEN Cardinality(ahead(n)) - 1 ELSE Cardinality(ahead(n))
    BY <2>3, FS_RemoveElement
  <2>5. tx_counter[n] \in Nat /\ rx_counter[n] \in Nat
    BY DEF SenderInv, SenderTypes, ReceiverInv, ReceiverTypes
  <2> QED  BY <1>1, <1>3, <2>1, <2>2, <2>3, <2>4, <2>5, TempBounds DEF Missing
<1>10. Missing(n)'
  BY <1>9 DEF Missing
<1>11. faults'.loss <= MaxLoss
  BY <1>3, TempBounds DEF Accountable
<1> QED  BY <1>7, <1>8, <1>10, <1>11 DEF Accountable

\* The measurements up to counter c that are passed over are no more than the
\* counters from the expected one up to c.
LEMMA PassedOver ==
  ASSUME SenderInv, ReceiverInv, NEW n \in Node, IsFiniteSet(temps(n)),
         NEW c \in Nat, rx_counter[n] <= c
  PROVE  LET later == {q \in ahead(n) : q.ctr > c}
         IN  Cardinality(ahead(n)) <= Cardinality(later) + (c + 1 - rx_counter[n])
<1> DEFINE A == ahead(n)
           B == {q \in A : q.ctr > c}
           D == A \ B
           I == rx_counter[n] .. c
           f == [q \in D |-> q.ctr]
<1>1. IsFiniteSet(A) /\ Cardinality(A) \in Nat
  BY AheadFinite
<1>2. IsFiniteSet(B) /\ Cardinality(B) \in Nat /\ A \cap B = B
  <2>1. B \subseteq A
    OBVIOUS
  <2> QED  BY <1>1, <2>1, FS_Subset, FS_CardinalityType
<1>3. IsFiniteSet(D) /\ Cardinality(D) = Cardinality(A) - Cardinality(B)
  BY <1>1, <1>2, FS_Difference
<1>4. \A q \in A : q \in sent[n] /\ q.ctr \in Nat /\ q.ss = node_ss[n] /\ q.ctr >= rx_counter[n]
  BY DEF ahead, SenderInv, SenderTypes, SentSoFar, TempPacket
<1>5. rx_counter[n] \in Nat /\ rx_counter[n] \in Int /\ c \in Int
  BY DEF ReceiverInv, ReceiverTypes
<1>6. f \in Injection(D, I)
  <2>1. \A q \in D : q.ctr \in I
    BY <1>4, <1>5
  <2>2. f \in [D -> I]
    BY <2>1
  <2>3. \A q, r \in D : f[q] = f[r] => q = r
    BY <1>4 DEF SenderInv, NoCounterReuse
  <2> HIDE DEF f, D, I
  <2> QED  BY <2>2, <2>3 DEF Injection, IsInjective
<1>7. IsFiniteSet(I) /\ Cardinality(I) = c - rx_counter[n] + 1
  <2>1. /\ IsFiniteSet(I)
        /\ Cardinality(I) = IF rx_counter[n] > c THEN 0 ELSE c - rx_counter[n] + 1
    BY <1>5, FS_Interval
  <2> QED  BY <1>5, <2>1
<1>8. Cardinality(D) <= Cardinality(I)
  <2> HIDE DEF f, D, I
  <2> QED  BY <1>6, <1>7, FS_Injection
<1> HIDE DEF A, B, D, I
<1>9. Cardinality(A) <= Cardinality(B) + (c + 1 - rx_counter[n])
  BY <1>1, <1>2, <1>3, <1>5, <1>7, <1>8
<1> QED  BY <1>9 DEF A, B

\* pqc_handle_encrypted_temp: a measurement that could be accepted is in the
\* window, so that refusing one loses nothing, and accepting one passes over no
\* more counters than it gives up packets.
LEMMA RecvTempKeepsAccount ==
  ASSUME SenderInv, ReceiverInv, OtherTypes, OtherTypes', Accountable, WindowSuffices,
         NEW n \in Node, RootRecvTemp(n)
  PROVE  Accountable'
<1>1. PICK p \in temps(n) :
        /\ receive(up, n, p)
        /\ \/ \E offset \in matching(n, p) :
                /\ rx_counter' = [rx_counter EXCEPT ![n] = committed(n, offset)]
                /\ got' = [got EXCEPT ![n] = got[n] \cup {p}]
           \/ matching(n, p) = {} /\ UNCHANGED <<rx_counter, got>>
  BY DEF RootRecvTemp
<1>2. UNCHANGED <<node_ss, node_up, root_state, root_ss, tx_counter, sent, late>>
  BY DEF RootRecvTemp, keyVars, nodeSide
<1>3. faults'.loss = faults.loss /\ faults.loss \in Nat
  BY <1>1, ReceiveLosses DEF OtherTypes, Faults
<1>4. /\ temps(n)' \in {temps(n), temps(n) \ {p}}
      /\ \A m \in Node : m # n => temps(m)' = temps(m)
  <2>1. up' = [up EXCEPT ![n] = up[n] \ {p}] \/ up' = up
    BY <1>1 DEF receive
  <2> QED  BY <2>1 DEF temps, OtherTypes
<1>5. p \in TempPacket /\ p.ctr \in Nat /\ p.ctr < MaxTemp
  BY DEF temps, ReceiverInv, InFlight, Measurement, TempPacket
<1>6. tx_counter[n] \in Nat /\ rx_counter[n] \in Nat /\ DOMAIN rx_counter = Node /\ DOMAIN got = Node
  BY DEF SenderInv, SenderTypes, ReceiverInv, ReceiverTypes
<1>7. \A m \in Node : m # n => Air(m)' /\ Missing(m)'
  <2>1. \A m \in Node : m # n => rx_counter'[m] = rx_counter[m] /\ got'[m] = got[m]
    BY <1>1, <1>6
  <2>2. \A m \in Node : m # n => (InStep(m)' => InStep(m))
    BY <1>2, <2>1 DEF InStep
  <2> QED  BY <1>2, <1>3, <1>4, <2>1, <2>2, MissingKept DEF Accountable
<1>8. Air(n)'
  BY <1>4, LessAir DEF Accountable
<1>9. IsFiniteSet(temps(n)) /\ Cardinality(temps(n)) <= AirCap
  BY DEF Accountable, Air
<1>10. ASSUME InStep(n)' PROVE Missing(n)'
  <2>1. InStep(n)
    BY <1>1, <1>2, <1>6, <1>10 DEF InStep
  <2>2. /\ rx_counter[n] <= tx_counter[n]
        /\ tx_counter[n] - rx_counter[n] <= Cardinality(ahead(n)) + (MaxLoss - faults.loss)
    BY <2>1 DEF Accountable, Missing
  <2>3. Cardinality(ahead(n)) \in Nat /\ Cardinality(ahead(n)) <= AirCap
    BY <1>9, AheadFinite, TempBounds
  <2>4. p \in sent[n] => p.ss = node_ss[n] /\ p.ctr < tx_counter[n]
    BY DEF SenderInv, SentSoFar
  <2>5. CASE matching(n, p) = {} /\ UNCHANGED <<rx_counter, got>>
    <3>1. ASSUME p \in ahead(n) PROVE FALSE
      <4> DEFINE d == p.ctr - rx_counter[n]
      <4>1. p.ss = node_ss[n] /\ p.ctr < tx_counter[n] /\ p.ctr >= rx_counter[n]
        BY <2>4, <3>1 DEF ahead
      <4>2. tx_counter[n] - rx_counter[n] <= PQC_TEMP_RX_COUNTER_WINDOW
        BY <1>3, <1>6, <2>2, <2>3, TempBounds, WindowAssumption DEF WindowSuffices
      <4>3. d \in 0 .. PQC_TEMP_RX_COUNTER_WINDOW - 1 /\ rx_counter[n] + d = p.ctr
        BY <1>5, <1>6, <4>1, <4>2, WindowAssumption
      <4> HIDE DEF d
      <4>4. trial(n, d) = p.ctr
        <5>1. p.ctr < CounterMod /\ CounterMod \in Nat
          BY <1>5, TempBounds, WindowAssumption
        <5> QED  BY <1>5, <4>3, <5>1 DEF trial
      <4>5. decrypted_counter(root_ss[n], trial(n, d), p) = trial(n, d)
        BY <2>1, <4>1, <4>4 DEF decrypted_counter, InStep
      <4>6. d \in matching(n, p)
        BY <2>1, <4>3, <4>5 DEF matching, InStep
      <4> QED  BY <2>5, <4>6
    <3>2. ahead(n)' = ahead(n)
      BY <1>2, <1>4, <2>5, <3>1 DEF ahead
    <3> QED  BY <1>2, <1>3, <2>2, <2>5, <3>2 DEF Missing
  <2>6. ASSUME NEW offset \in matching(n, p),
               rx_counter' = [rx_counter EXCEPT ![n] = committed(n, offset)],
               got' = [got EXCEPT ![n] = got[n] \cup {p}]
        PROVE  Missing(n)'
    <3>1. p.ctr >= rx_counter[n] /\ committed(n, offset) = p.ctr + 1
      BY <1>5, MatchIsOwnCounter
    <3>2. rx_counter'[n] = p.ctr + 1
      BY <1>6, <2>6, <3>1
    <3>3. p \in sent[n]
      BY <1>2, <1>6, <1>10, <2>6 DEF InStep
    <3>4. p.ctr < tx_counter[n]
      BY <2>4, <3>3
    <3> DEFINE later == {q \in ahead(n) : q.ctr > p.ctr}
    <3>5. Cardinality(ahead(n)) <= Cardinality(later) + (p.ctr + 1 - rx_counter[n])
      BY <1>5, <1>9, <3>1, PassedOver
    <3>6. ahead(n)' = later
      <4>1. \A q \in temps(n) : q.ctr \in Nat
        BY DEF temps, ReceiverInv, InFlight, Measurement, TempPacket
      <4>2. \A q \in temps(n) : q.ctr >= p.ctr + 1 <=> q.ctr >= rx_counter[n] /\ q.ctr > p.ctr
        BY <1>5, <1>6, <3>1, <4>1
      <4>3. ahead(n)' = {q \in temps(n)' : q \in sent[n] /\ q.ctr >= p.ctr + 1}
        BY <1>2, <3>2 DEF ahead
      <4>4. later = {q \in temps(n) : q \in sent[n] /\ q.ctr >= p.ctr + 1}
        BY <4>2 DEF ahead
      <4>5. ~(p.ctr >= p.ctr + 1)
        BY <1>5
      <4> QED  BY <1>4, <4>3, <4>4, <4>5
    <3>7. Cardinality(later) \in Nat
      <4>1. later \subseteq ahead(n) /\ IsFiniteSet(ahead(n))
        BY <1>9, AheadFinite
      <4>2. IsFiniteSet(later)
        BY <4>1, FS_Subset
      <4> QED  BY <4>2, FS_CardinalityType
    <3> HIDE DEF later
    <3>8. rx_counter'[n] <= tx_counter'[n]
      BY <1>2, <1>5, <1>6, <3>2, <3>4
    <3>9. tx_counter'[n] - rx_counter'[n] <= Cardinality(later) + (MaxLoss - faults'.loss)
      BY <1>2, <1>3, <1>5, <1>6, <2>2, <2>3, <3>2, <3>5, <3>7, TempBounds
    <3> QED  BY <3>6, <3>8, <3>9 DEF Missing
  <2> QED  BY <1>1, <2>5, <2>6
<1>11. Missing(n)'
  BY <1>10 DEF Missing
<1> QED  BY <1>3, <1>7, <1>8, <1>11 DEF Accountable

\* Counters stay accountable in every step.
LEMMA AccountStep ==
  ASSUME WindowSuffices, ChannelInv, ChannelInv', Accountable, [TempNext]_tempVars
  PROVE  Accountable'
<1>1. SenderInv /\ SenderInv' /\ ReceiverInv /\ OtherTypes /\ OtherTypes'
  BY DEF ChannelInv
<1>2. ASSUME NEW n \in Node, NodeActs(n) PROVE Accountable'
  BY <1>1, <1>2, NodeKeepsAccount, ConfirmKeepsAccount, TempKeepsAccount DEF NodeActs
<1>3. ASSUME NEW n \in Node, RootActs(n) PROVE Accountable'
  BY <1>1, <1>3, RootKeepsAccount, RecvTempKeepsAccount, LoseKeepsAccount DEF RootActs
<1>4. CASE RootReboot
  BY <1>1, <1>4, RootKeepsAccount
<1>5. CASE UNCHANGED tempVars
  <2>1. UNCHANGED <<node_ss, node_up, root_state, root_ss, tx_counter, rx_counter, up, faults,
                    sent, got, late>>
    BY <1>5 DEF tempVars, keyVars, chanVars
  <2>2. \A n \in Node : temps(n)' = temps(n) /\ (InStep(n)' => InStep(n))
    BY <2>1 DEF temps, InStep
  <2>3. faults'.loss <= faults.loss
    BY <1>1, <2>1 DEF OtherTypes, Faults
  <2> QED  BY <1>1, <2>1, <2>2, <2>3, HandshakeKeepsAccount
<1> QED  BY <1>2, <1>3, <1>4, <1>5 DEF TempNext, NodeActs, RootActs

LEMMA AccountStarts == TempInit => Accountable
<1> SUFFICES ASSUME TempInit PROVE Accountable
  OBVIOUS
<1>1. \A n \in Node : up[n] = {} /\ ~node_up[n]
  BY DEF TempInit, KeyInit
<1>2. \A n \in Node : temps(n) = {} /\ ~InStep(n)
  BY <1>1 DEF temps, InStep
<1>3. faults.loss = MaxLoss
  BY DEF TempInit
<1>4. \A n \in Node : Missing(n)
  BY <1>2 DEF Missing
<1>5. \A n \in Node : Air(n)
  <2>1. IsFiniteSet({}) /\ Cardinality({}) = 0 /\ 0 <= AirCap
    BY FS_EmptySet, TempBounds
  <2> QED  BY <1>2, <2>1 DEF Air
<1> QED  BY <1>3, <1>4, <1>5, TempBounds DEF Accountable

\* The next measurement is understood whenever node and root are in step and no
\* measurement is in flight, as long as packets in flight and lost packets
\* together fit into PQC_TEMP_RX_COUNTER_WINDOW: whatever packets of the handshake
\* are repeated, delayed and mistaken for others, handshakes given up and
\* restarts included.
THEOREM MeasurementsUnderstood ==
  ASSUME WindowSuffices
  PROVE  TempSpec => []TempUnderstood
<1>1. ChannelInv /\ Accountable => TempUnderstood
  <2> SUFFICES ASSUME ChannelInv, Accountable, NEW n \in Node, InStep(n), temps(n) = {}
               PROVE  tx_counter[n] - rx_counter[n] \in 0 .. PQC_TEMP_RX_COUNTER_WINDOW - 1
    BY DEF TempUnderstood
  <2>1. Cardinality(ahead(n)) = 0
    BY FS_EmptySet DEF ahead
  <2>2. /\ tx_counter[n] \in Nat /\ rx_counter[n] \in Nat /\ faults.loss \in Nat
        /\ faults.loss <= MaxLoss
    BY DEF ChannelInv, SenderInv, SenderTypes, ReceiverInv, ReceiverTypes, OtherTypes, Faults,
           Accountable
  <2>3. rx_counter[n] <= tx_counter[n] /\ tx_counter[n] - rx_counter[n] <= 0 + (MaxLoss - faults.loss)
    BY <2>1 DEF Accountable, Missing
  <2> QED  BY <2>2, <2>3, TempBounds, WindowAssumption DEF WindowSuffices
<1>2. ChannelInv /\ ChannelInv' /\ Accountable /\ [TempNext]_tempVars => Accountable'
  BY AccountStep
<1> QED  BY <1>1, <1>2, AccountStarts, ChannelStarts, ChannelStep, PTL DEF TempSpec
=============================================================================
