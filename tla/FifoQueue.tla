------------------------------ MODULE FifoQueue ------------------------------
(***************************************************************************)
(* What a request queue promises to a node: a bounded first-in first-out   *)
(* channel.  A producer appends one request at a time, the control loop    *)
(* takes a batch from the head, and clearing discards a batch from the     *)
(* head without delivering it.  Nothing is reordered, duplicated or        *)
(* altered.  SharedMemoryQueue is shown to implement it (ShmQueue).        *)
(***************************************************************************)
EXTENDS Naturals, Sequences

CONSTANTS
  Capacity,   \* most requests the queue may hold
  Item        \* the requests

VARIABLES
  queue,      \* accepted requests nobody has taken yet, oldest first
  delivered   \* every request handed to the control loop, in that order

Init ==
  /\ queue = << >>
  /\ delivered = << >>

Put ==
  \E item \in Item :
    /\ Len(queue) < Capacity
    /\ queue' = Append(queue, item)
    /\ UNCHANGED delivered

Take ==
  \E n \in 1 .. Len(queue) :
    /\ delivered' = delivered \o SubSeq(queue, 1, n)
    /\ queue' = SubSeq(queue, n + 1, Len(queue))

Discard ==
  \E n \in 0 .. Len(queue) :
    /\ queue' = SubSeq(queue, n + 1, Len(queue))
    /\ UNCHANGED delivered

Next == Put \/ Take \/ Discard

Spec == Init /\ [][Next]_<<queue, delivered>>
=============================================================================
