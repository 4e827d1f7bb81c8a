--------------------------- MODULE RingBufferIsr ---------------------------
(***************************************************************************)
(* The safety lane's RingBuffer (Reject policy) with its two sides         *)
(* interleaved: the loop's calls are split into their memory accesses, and *)
(* an interrupt's push runs to completion between any two of them.         *)
(*                                                                         *)
(* The members are plain, so a build may take the value of count_ that     *)
(* "--count_" and "++count_" change from the check at the top of the call  *)
(* or read it again: ReloadOrKeep leaves both open.  Stores are in source  *)
(* order.                                                                  *)
(***************************************************************************)
EXTENDS Integers, Sequences

CONSTANTS
    Value, NoValue,
    Capacity,
    LoopPushes,   \* the loop posts to the lane as well (an "E" line)
    MaxHeld       \* bound: accepted values not yet popped

ASSUME IsrRingAssumption ==
    /\ Capacity \in Nat \ {0}
    /\ LoopPushes \in BOOLEAN
    /\ MaxHeld \in Nat
    /\ NoValue \notin Value

VARIABLES
    slots, head, tail, count,   \* the members
    pc,                         \* next access of the loop's call, or "idle"
    reg,                        \* the loop's copy of count_
    item                        \* the value the loop's call moves

\* Ghost variables.
VARIABLES
    pending,    \* the values accepted and not yet popped, oldest first
    clobbered,  \* a store to count_ has overwritten an interrupt's store
    crossed     \* an interrupt has pushed in the middle of the loop's push

ring   == <<slots, head, tail, count>>
ghosts == <<pending, clobbered, crossed>>
vars   == <<ring, pc, reg, item, ghosts>>

Index == 0 .. Capacity - 1

InPop  == {"copy", "advanceHead", "decrement", "storeLess"}
InPush == {"write", "advanceTail", "increment", "storeMore"}

\* Type invariant: whatever the interleaving, no access leaves slots_ and count_
\* never underflows (ring_buffer.hpp:100-111, 143-147).  It may exceed the
\* capacity when the loop and an interrupt both push.
TypeOK ==
    /\ slots \in [Index -> Value \cup {NoValue}]
    /\ head \in Index
    /\ tail \in Index
    /\ count \in Nat
    /\ pc \in {"idle"} \cup InPop \cup InPush
    /\ reg \in Nat
    /\ item \in Value \cup {NoValue}
    /\ pending \in Seq(Value)
    /\ clobbered \in BOOLEAN
    /\ crossed \in BOOLEAN

NextIndex(i) == IF i + 1 = Capacity THEN 0 ELSE i + 1

Init ==
    /\ slots = [i \in Index |-> NoValue]
    /\ head = 0
    /\ tail = 0
    /\ count = 0
    /\ pc = "idle"
    /\ reg = 0
    /\ item = NoValue
    /\ pending = <<>>
    /\ clobbered = FALSE
    /\ crossed = FALSE

-----------------------------------------------------------------------------
\* An interrupt posts; a full lane refuses and nothing here changes.
IsrPush ==
    /\ count # Capacity
    /\ Len(pending) < MaxHeld
    /\ \E v \in Value :
          /\ slots' = [slots EXCEPT ![tail] = v]
          /\ pending' = Append(pending, v)
    /\ tail' = NextIndex(tail)
    /\ count' = count + 1
    /\ crossed' = (crossed \/ pc \in InPush)
    /\ UNCHANGED <<head, pc, reg, item, clobbered>>

\* The loop's store of what it computed from its copy of count_.
StoreCount(value) ==
    /\ count' = value
    /\ clobbered' = (clobbered \/ reg # count)
    /\ pc' = "idle"
    /\ UNCHANGED <<slots, head, tail, reg, item, crossed>>

ReloadOrKeep(from, to) ==
    /\ pc = from
    /\ pc' = to
    /\ reg' \in {reg, count}
    /\ UNCHANGED <<ring, item, ghosts>>

\* Nothing to read: the call changes nothing.
PopEmpty ==
    /\ pc = "idle"
    /\ count = 0
    /\ UNCHANGED vars

\* A plausible slip: popping without looking whether there is anything.
Mut_PopBegin_Unchecked ==
    /\ pc = "idle"
    /\ pc' = "copy"
    /\ reg' = count
    /\ UNCHANGED <<ring, item, ghosts>>

PopBegin ==
    /\ pc = "idle"
    /\ count # 0
    /\ pc' = "copy"
    /\ reg' = count
    /\ UNCHANGED <<ring, item, ghosts>>

\* A plausible slip: the slot is read after the index has moved on.
Mut_PopCopy_Late ==
    /\ pc = "copy"
    /\ pc' = "advanceHead"
    /\ item' = slots[NextIndex(head)]
    /\ UNCHANGED <<ring, reg, ghosts>>

PopCopy ==
    /\ pc = "copy"
    /\ pc' = "advanceHead"
    /\ item' = slots[head]
    /\ UNCHANGED <<ring, reg, ghosts>>

PopAdvance ==
    /\ pc = "advanceHead"
    /\ pc' = "decrement"
    /\ head' = NextIndex(head)
    /\ UNCHANGED <<slots, tail, count, reg, item, ghosts>>

PopDecrement == ReloadOrKeep("decrement", "storeLess")

PopStore ==
    /\ pc = "storeLess"
    /\ StoreCount(reg - 1)
    /\ pending' = IF pending = <<>> THEN pending ELSE Tail(pending)

PushBegin ==
    /\ LoopPushes
    /\ pc = "idle"
    /\ count # Capacity
    /\ Len(pending) < MaxHeld
    /\ pc' = "write"
    /\ reg' = count
    /\ item' \in Value
    /\ UNCHANGED <<ring, ghosts>>

PushWrite ==
    /\ pc = "write"
    /\ pc' = "advanceTail"
    /\ slots' = [slots EXCEPT ![tail] = item]
    /\ UNCHANGED <<head, tail, count, reg, item, ghosts>>

PushAdvance ==
    /\ pc = "advanceTail"
    /\ pc' = "increment"
    /\ tail' = NextIndex(tail)
    /\ UNCHANGED <<slots, head, count, reg, item, ghosts>>

PushIncrement == ReloadOrKeep("increment", "storeMore")

PushStore ==
    /\ pc = "storeMore"
    /\ StoreCount(reg + 1)
    /\ pending' = Append(pending, item)

LoopPop  == PopEmpty \/ PopBegin \/ PopCopy \/ PopAdvance \/ PopDecrement \/ PopStore
LoopPush == PushBegin \/ PushWrite \/ PushAdvance \/ PushIncrement \/ PushStore

Next == IsrPush \/ LoopPop \/ LoopPush

Spec == Init /\ [][Next]_vars

-----------------------------------------------------------------------------
Faithful ==
    /\ count = Len(pending)
    /\ pc = "idle" => \A i \in 1 .. count : slots[(head + i - 1) % Capacity] = pending[i]
    /\ pc \in InPop \ {"copy"} => item = Head(pending)

\* As long as no store to count_ crosses an interrupt's, and no interrupt
\* strikes in the middle of a push of the loop, the lane holds exactly what was
\* accepted, a pop yields the oldest, and a push is refused exactly when Capacity
\* elements are pending, at whatever other access the interrupt strikes: those
\* two windows are all the platform has to mask for a call to be as good as one
\* step (ring_buffer.hpp:32-34, 71, 100-111).
TwoWindows == ~clobbered /\ ~crossed => Faithful

-----------------------------------------------------------------------------
(* A claim of the documentation that the code does not meet.                *)

\* "safe for exactly one producer and one consumer, which may be an ISR and a
\* thread respectively" (ring_buffer.hpp:32-34).
SafeForOneProducer == Faithful
=============================================================================
