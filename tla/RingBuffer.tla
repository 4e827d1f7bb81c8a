----------------------------- MODULE RingBuffer -----------------------------
(***************************************************************************)
(* auk::core::RingBuffer (include/auk/core/ring_buffer.hpp) as its members *)
(* are written, called from one context.  It implements BoundedQueue.      *)
(* RingBufferIsr models the same code with its two sides interleaved.      *)
(***************************************************************************)
EXTENDS Naturals, Sequences

CONSTANTS
    Value, NoValue,
    Capacity,
    DroppedMax

ASSUME RingAssumption ==
    /\ Capacity \in Nat \ {0}     \* the static_assert
    /\ DroppedMax \in Nat
    /\ NoValue \notin Value

VARIABLES
    dropsOldest,   \* the OverflowPolicy, fixed for the life of a buffer
    slots,    \* slots_, from 0
    head,     \* index of the oldest element
    tail,     \* index the next push will write to
    count,
    dropped,
    reply     \* result and out parameter of the last call

vars == <<dropsOldest, slots, head, tail, count, dropped, reply>>

Index == 0 .. Capacity - 1

Reply(result, out) == [result |-> result, out |-> out]

\* Type invariant: both indices stay inside slots_ and count_ within the capacity
\* (ring_buffer.hpp:143-147).
TypeOK ==
    /\ dropsOldest \in BOOLEAN
    /\ slots \in [Index -> Value \cup {NoValue}]
    /\ head \in Index
    /\ tail \in Index
    /\ count \in 0 .. Capacity
    /\ dropped \in 0 .. DroppedMax
    /\ reply \in [result : {"Ok", "Full", "Empty"}, out : Value \cup {NoValue}]

-----------------------------------------------------------------------------
NextIndex(i) == IF i + 1 = Capacity THEN 0 ELSE i + 1

Init ==
    /\ dropsOldest \in BOOLEAN
    /\ slots = [i \in Index |-> NoValue]
    /\ head = 0
    /\ tail = 0
    /\ count = 0
    /\ dropped = 0
    /\ reply = Reply("Ok", NoValue)

\* The tail of push(), shared by its two branches.
Store(v) ==
    /\ slots' = [slots EXCEPT ![tail] = v]
    /\ tail' = NextIndex(tail)
    /\ reply' = Reply("Ok", NoValue)

PushRefused ==
    /\ count = Capacity
    /\ ~dropsOldest
    /\ reply' = Reply("Full", NoValue)
    /\ UNCHANGED <<slots, head, tail, count, dropped>>

\* A plausible slip: the oldest element is retired without moving its index.
Mut_PushOverwriting_HeadStays(v) ==
    /\ count = Capacity
    /\ dropsOldest
    /\ dropped' = IF dropped = DroppedMax THEN dropped ELSE dropped + 1
    /\ Store(v)
    /\ UNCHANGED <<head, count>>

\* A plausible slip: the drop counter is not saturated.
Mut_PushOverwriting_CountWraps(v) ==
    /\ count = Capacity
    /\ dropsOldest
    /\ head' = NextIndex(head)
    /\ dropped' = dropped + 1
    /\ Store(v)
    /\ UNCHANGED count

\* --count_ for the retired element, then ++count_ for the new one.
PushOverwriting(v) ==
    /\ count = Capacity
    /\ dropsOldest
    /\ head' = NextIndex(head)
    /\ dropped' = IF dropped = DroppedMax THEN dropped ELSE dropped + 1
    /\ Store(v)
    /\ UNCHANGED count

PushStored(v) ==
    /\ count # Capacity
    /\ Store(v)
    /\ count' = count + 1
    /\ UNCHANGED <<head, dropped>>

PopEmpty ==
    /\ count = 0
    /\ reply' = Reply("Empty", NoValue)
    /\ UNCHANGED <<slots, head, tail, count, dropped>>

\* A plausible slip: popping from the end that is written.
Mut_PopStored_ReadsTail ==
    /\ count # 0
    /\ reply' = Reply("Ok", slots[tail])
    /\ head' = NextIndex(head)
    /\ count' = count - 1
    /\ UNCHANGED <<slots, tail, dropped>>

PopStored ==
    /\ count # 0
    /\ reply' = Reply("Ok", slots[head])
    /\ head' = NextIndex(head)
    /\ count' = count - 1
    /\ UNCHANGED <<slots, tail, dropped>>

Peek ==
    /\ reply' = IF count = 0 THEN Reply("Empty", NoValue) ELSE Reply("Ok", slots[head])
    /\ UNCHANGED <<slots, head, tail, count, dropped>>

\* The old elements stay in the slots; dropped_ is a lifetime statistic.
Clear ==
    /\ head' = 0
    /\ tail' = 0
    /\ count' = 0
    /\ UNCHANGED <<slots, dropped, reply>>

Next ==
    /\ \/ \E v \in Value : PushRefused \/ PushOverwriting(v) \/ PushStored(v)
       \/ PopEmpty
       \/ PopStored
       \/ Peek
       \/ Clear
    /\ UNCHANGED dropsOldest

Spec == Init /\ [][Next]_vars

-----------------------------------------------------------------------------
\* The two indices never drift apart: the write index is always count elements
\* after the read index, through every wrap, overwrite and clear
\* (ring_buffer.hpp:79-82).
IndicesAgree == tail = IF head + count < Capacity
                       THEN head + count ELSE head + count - Capacity

\* The elements held, oldest first.
Contents == [i \in 1 .. count |-> slots[(head + i - 1) % Capacity]]

Abstract == INSTANCE BoundedQueue WITH queue <- Contents

\* The ring implements the bounded queue: same replies, same order, same drops
\* (ring_buffer.hpp:25-41, 63-68, 98-99, 125-126).
ImplementsQueue == Abstract!Spec
=============================================================================
