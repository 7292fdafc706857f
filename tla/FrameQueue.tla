------------------------------ MODULE FrameQueue ------------------------------
(***************************************************************************)
(* What the receive side of the radio driver promises to the layer above:  *)
(* a first-in first-out queue of Capacity frames.  A frame that arrives is *)
(* queued unless the queue is full; nothing else loses one.                *)
(***************************************************************************)
EXTENDS Naturals, Sequences

CONSTANT Capacity

VARIABLES
  arrived,    \* frames received so far; a frame is its number
  queue,
  delivered   \* the last frame handed to the MAC layer

queueVars == <<arrived, queue, delivered>>

QueueInit == arrived = 0 /\ queue = <<>> /\ delivered = 0

Arrive ==
  /\ arrived' = arrived + 1
  /\ \/ Len(queue) < Capacity /\ queue' = Append(queue, arrived + 1)
     \/ Len(queue) = Capacity /\ UNCHANGED queue
  /\ UNCHANGED delivered

Deliver ==
  /\ queue # <<>>
  /\ queue' = Tail(queue)
  /\ delivered' = Head(queue)
  /\ UNCHANGED arrived

\* A caller whose buffer is too small for the frame loses it.
Discard ==
  /\ queue # <<>>
  /\ queue' = Tail(queue)
  /\ UNCHANGED <<arrived, delivered>>

QueueSpec == QueueInit /\ [][Arrive \/ Deliver \/ Discard]_queueVars
=============================================================================
