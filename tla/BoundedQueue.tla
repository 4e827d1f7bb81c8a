---------------------------- MODULE BoundedQueue ----------------------------
(***************************************************************************)
(* What auk::core::RingBuffer promises its callers: a first-in first-out   *)
(* queue of at most Capacity values which, when full, either refuses a     *)
(* push or gives up its oldest value and counts it.                        *)
(***************************************************************************)
EXTENDS Queues

CONSTANTS
    Value,        \* the element type T
    NoValue,      \* what `out' holds when a call did not write it
    Capacity,
    DroppedMax    \* where dropped() saturates: UINT32_MAX in the code

VARIABLES
    dropsOldest,   \* the OverflowPolicy, fixed for the life of a queue
    queue,    \* the values held, oldest first
    dropped,  \* values given up so far
    reply     \* result and out parameter of the last call

Reply(result, out) == [result |-> result, out |-> out]

Init ==
    /\ dropsOldest \in BOOLEAN
    /\ queue = <<>>
    /\ dropped = 0
    /\ reply = Reply("Ok", NoValue)

Push(v) ==
    IF Refuses(queue, Capacity, dropsOldest)
    THEN /\ reply' = Reply("Full", NoValue)
         /\ UNCHANGED <<queue, dropped>>
    ELSE /\ queue' = Enqueue(queue, Capacity, v)
         /\ dropped' = IF Len(queue) = Capacity
                       THEN SaturatingIncrement(dropped, DroppedMax) ELSE dropped
         /\ reply' = Reply("Ok", NoValue)

Pop ==
    \/ /\ queue = <<>>
       /\ reply' = Reply("Empty", NoValue)
       /\ UNCHANGED <<queue, dropped>>
    \/ /\ queue # <<>>
       /\ reply' = Reply("Ok", Head(queue))
       /\ queue' = Tail(queue)
       /\ UNCHANGED dropped

Peek ==
    /\ reply' = IF queue = <<>> THEN Reply("Empty", NoValue)
                ELSE Reply("Ok", Head(queue))
    /\ UNCHANGED <<queue, dropped>>

Clear ==
    /\ queue' = <<>>
    /\ UNCHANGED <<dropped, reply>>

Next ==
    /\ (\E v \in Value : Push(v)) \/ Pop \/ Peek \/ Clear
    /\ UNCHANGED dropsOldest

Spec == Init /\ [][Next]_<<dropsOldest, queue, dropped, reply>>
=============================================================================
