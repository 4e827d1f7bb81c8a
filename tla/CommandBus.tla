----------------------------- MODULE CommandBus -----------------------------
(***************************************************************************)
(* auk::core::CommandBus: three bounded lanes in front of the dispatch     *)
(* loop.  Each lane is a RingBuffer, used here through the queue that      *)
(* RingBuffer implements.  A post and a take are one step each: of two     *)
(* calls on one lane that overlap this module says nothing, RingBufferIsr  *)
(* does.                                                                   *)
(***************************************************************************)
EXTENDS Integers, Queues

CONSTANTS
    HighCapacity,   \* 16 in the code
    LowCapacity,    \* 8 in the code
    DroppedMax      \* where the drop counter saturates

ASSUME BusAssumption ==
    /\ HighCapacity \in Nat \ {0}
    /\ LowCapacity \in Nat \ {0}
    /\ DroppedMax \in Nat

NormalCapacity == 1

EmptyBus == [high |-> <<>>, normal |-> <<>>, low |-> <<>>,
             highOverflowed |-> FALSE, dropped |-> 0]

Buses(Command) ==
    [high : Seq(Command), normal : Seq(Command), low : Seq(Command),
     highOverflowed : BOOLEAN, dropped : 0 .. DroppedMax]

BusType(Command) ==
    {b \in Buses(Command) : /\ Len(b.high) <= HighCapacity
                            /\ Len(b.normal) <= NormalCapacity
                            /\ Len(b.low) <= LowCapacity}

\* dropped() adds two saturating counters and saturates the sum, which is one
\* saturating count of the pushes that overwrote in either lane.
DroppedAfter(bus, lane, capacity) ==
    IF Len(lane) = capacity THEN SaturatingIncrement(bus.dropped, DroppedMax)
    ELSE bus.dropped

\* A plausible slip: the latch follows the last result instead of sticking.
Mut_PostHigh_LatchClears(bus, c) ==
    IF Refuses(bus.high, HighCapacity, FALSE)
    THEN [bus EXCEPT !.highOverflowed = TRUE]
    ELSE [bus EXCEPT !.high = Enqueue(@, HighCapacity, c), !.highOverflowed = FALSE]

\* A post to the safety lane that finds it full is lost, and remembered.
PostHigh(bus, c) ==
    IF Refuses(bus.high, HighCapacity, FALSE)
    THEN [bus EXCEPT !.highOverflowed = TRUE]
    ELSE [bus EXCEPT !.high = Enqueue(@, HighCapacity, c)]

PostNormal(bus, c) ==
    [bus EXCEPT !.normal  = Enqueue(@, NormalCapacity, c),
                !.dropped = DroppedAfter(bus, bus.normal, NormalCapacity)]

PostLow(bus, c) ==
    [bus EXCEPT !.low     = Enqueue(@, LowCapacity, c),
                !.dropped = DroppedAfter(bus, bus.low, LowCapacity)]

Post(bus, c) ==
    CASE c.priority = "High"   -> PostHigh(bus, c)
      [] c.priority = "Normal" -> PostNormal(bus, c)
      [] c.priority = "Low"    -> PostLow(bus, c)
=============================================================================
