------------------------------- MODULE Queues -------------------------------
(***************************************************************************)
(* What a bounded queue does with a value, on the sequence of the values   *)
(* it holds (oldest first).  BoundedQueue states RingBuffer's promise with *)
(* these operators and CommandBus builds its three lanes from them.        *)
(***************************************************************************)
EXTENDS Naturals, Sequences

\* A queue with no room that may not drop its oldest value refuses the push.
Refuses(q, capacity, dropsOldest) == Len(q) = capacity /\ ~dropsOldest

\* The queue after an accepted push: the oldest value makes room if need be.
Enqueue(q, capacity, v) == Append(IF Len(q) = capacity THEN Tail(q) ELSE q, v)

\* A counter that sticks at its maximum.
SaturatingIncrement(n, max) == IF n < max THEN n + 1 ELSE n
=============================================================================
