------------------------ MODULE RingBufferIsrProofs -------------------------
(***************************************************************************)
(* The safety lane with an interrupt's push between any two accesses of    *)
(* the loop: its type invariant and its faithfulness outside the two       *)
(* windows, for every capacity, element type and bound.                    *)
(***************************************************************************)
EXTENDS RingBufferIsr, SequenceTheorems, TLAPS

Held == Value \cup {NoValue}

\* A pop in progress has seen a value, in its copy of count_ and in count_ itself,
\* which interrupts only raise; a push in progress has a value to store.
BoundsInv ==
    /\ pc \in InPop  => reg # 0 /\ count # 0
    /\ pc \in InPush => item \in Value

\* Where the value k places behind the one at `from' is.
Place(from, k) == IF from + k < Capacity THEN from + k ELSE from + k - Capacity

\* The pop in progress has moved head_ past the value it takes.
Taken == IF pc \in {"decrement", "storeLess"} THEN 1 ELSE 0

\* The push in progress has moved tail_ past the value it stores.
Stored == IF pc \in {"increment", "storeMore"} THEN 1 ELSE 0

\* Between any two accesses outside the windows: count_ counts what is pending, the
\* two indices are that many slots apart but for what the call in progress has
\* moved already, every pending value that head_ has not passed is in its slot,
\* and the value being popped or pushed is where the call left it.
LaneInv ==
    /\ count = Len(pending) /\ count <= Capacity
    /\ pc \in InPush => count # Capacity
    /\ tail = Place(head, count - Taken + Stored)
    /\ \A i \in 1 .. count - Taken : slots[Place(head, i - 1)] = pending[i + Taken]
    /\ pc \in InPop \ {"copy"} => item = pending[1]
    /\ pc \in {"advanceTail", "increment", "storeMore"} => slots[Place(head, count)] = item

Clean == ~clobbered /\ ~crossed

IInv == TypeOK /\ BoundsInv /\ (Clean => LaneInv)

-----------------------------------------------------------------------------
(* Types *)

LEMMA NextIndexType ==
    ASSUME NEW i \in Index
    PROVE  NextIndex(i) \in Index
  BY IsrRingAssumption DEF NextIndex, Index

\* The one thing two of the actions do: take the count again or keep the copy.
LEMMA ReloadType ==
    ASSUME TypeOK, BoundsInv, NEW from, NEW to \in InPop \cup InPush, ReloadOrKeep(from, to),
           (from \in InPop) <=> (to \in InPop), (from \in InPush) <=> (to \in InPush)
    PROVE  TypeOK' /\ BoundsInv'
  BY DEF ReloadOrKeep, TypeOK, BoundsInv, ring, ghosts

LEMMA TypeInit == Init => TypeOK /\ BoundsInv
<1> SUFFICES ASSUME Init PROVE TypeOK /\ BoundsInv
  OBVIOUS
<1>1. slots \in [Index -> Value \cup {NoValue}]
  BY DEF Init
<1>2. head \in Index /\ tail \in Index /\ count \in Nat /\ reg \in Nat
  BY IsrRingAssumption DEF Init, Index
<1>3. pending \in Seq(Value)
  BY DEF Init
<1> QED BY <1>1, <1>2, <1>3 DEF Init, TypeOK, BoundsInv, InPop, InPush

LEMMA TypeStep == TypeOK /\ BoundsInv /\ [Next]_vars => TypeOK' /\ BoundsInv'
<1> SUFFICES ASSUME TypeOK, BoundsInv, [Next]_vars
             PROVE  TypeOK' /\ BoundsInv'
  OBVIOUS
<1>1. CASE IsrPush
  <2>1. PICK v \in Value : slots' = [slots EXCEPT ![tail] = v] /\ pending' = Append(pending, v)
    BY <1>1 DEF IsrPush
  <2>2. slots' \in [Index -> Value \cup {NoValue}] /\ pending' \in Seq(Value)
    BY <2>1 DEF TypeOK
  <2>3. tail' \in Index
    BY <1>1, NextIndexType DEF IsrPush, TypeOK
  <2>4. crossed' \in BOOLEAN
    BY <1>1 DEF IsrPush
  <2>5. /\ count' = count + 1 /\ UNCHANGED <<head, pc, reg, item, clobbered>>
    BY <1>1 DEF IsrPush
  <2> QED BY <2>2, <2>3, <2>4, <2>5 DEF TypeOK, BoundsInv
<1>2. CASE PopEmpty
  BY <1>2 DEF PopEmpty, vars, ring, ghosts, TypeOK, BoundsInv
<1>3. CASE PopBegin
  BY <1>3 DEF PopBegin, ring, ghosts, TypeOK, BoundsInv, InPop, InPush
<1>4. CASE PopCopy
  BY <1>4 DEF PopCopy, ring, ghosts, TypeOK, BoundsInv, InPop, InPush
<1>5. CASE PopAdvance
  BY <1>5, NextIndexType DEF PopAdvance, ghosts, TypeOK, BoundsInv, InPop, InPush
<1>6. CASE PopDecrement
  BY <1>6, ReloadType DEF PopDecrement, InPop, InPush
<1>7. CASE PopStore
  <2>1. reg - 1 \in Nat
    BY <1>7 DEF PopStore, TypeOK, BoundsInv, InPop
  <2>2. pending' \in Seq(Value)
    BY <1>7 DEF PopStore, TypeOK
  <2>3. clobbered' \in BOOLEAN
    BY <1>7 DEF PopStore, StoreCount
  <2> QED BY <1>7, <2>1, <2>2, <2>3 DEF PopStore, StoreCount, TypeOK, BoundsInv, InPop, InPush
<1>8. CASE PushBegin
  BY <1>8 DEF PushBegin, ring, ghosts, TypeOK, BoundsInv, InPop, InPush
<1>9. CASE PushWrite
  BY <1>9 DEF PushWrite, ghosts, TypeOK, BoundsInv, InPop, InPush
<1>10. CASE PushAdvance
  BY <1>10, NextIndexType DEF PushAdvance, ghosts, TypeOK, BoundsInv, InPop, InPush
<1>11. CASE PushIncrement
  BY <1>11, ReloadType DEF PushIncrement, InPop, InPush
<1>12. CASE PushStore
  <2>1. item \in Value
    BY <1>12 DEF PushStore, BoundsInv, InPush
  <2>2. pending' \in Seq(Value)
    BY <1>12, <2>1 DEF PushStore, TypeOK
  <2>3. clobbered' \in BOOLEAN
    BY <1>12 DEF PushStore, StoreCount
  <2> QED BY <1>12, <2>2, <2>3 DEF PushStore, StoreCount, TypeOK, BoundsInv, InPop, InPush
<1>13. CASE UNCHANGED vars
  BY <1>13 DEF vars, ring, ghosts, TypeOK, BoundsInv
<1> QED
  BY <1>1, <1>2, <1>3, <1>4, <1>5, <1>6, <1>7, <1>8, <1>9, <1>10, <1>11, <1>12, <1>13
     DEF Next, LoopPop, LoopPush

\* Whatever the interleaving, no access leaves slots_ and count_ never underflows
\* (ring_buffer.hpp:100-111, 143-147).
THEOREM TypeCorrect == Spec => []TypeOK
<1>1. Spec => [](TypeOK /\ BoundsInv)
  BY TypeInit, TypeStep, PTL DEF Spec
<1> QED BY <1>1, PTL

-----------------------------------------------------------------------------
(* Places *)

LEMMA PlaceType ==
    ASSUME NEW from \in Index, NEW k \in 0 .. Capacity
    PROVE  Place(from, k) \in Index
  BY IsrRingAssumption DEF Place, Index

LEMMA FirstPlace ==
    ASSUME NEW from \in Index
    PROVE  Place(from, 0) = from
  BY IsrRingAssumption DEF Place, Index

\* One more place, at either end.
LEMMA PlaceAfter ==
    ASSUME NEW from \in Index, NEW k \in 0 .. Capacity - 1
    PROVE  Place(from, k + 1) = NextIndex(Place(from, k))
  BY IsrRingAssumption DEF Place, NextIndex, Index

LEMMA PlaceNext ==
    ASSUME NEW from \in Index, NEW k \in 0 .. Capacity - 1
    PROVE  Place(NextIndex(from), k) = Place(from, k + 1)
  BY IsrRingAssumption DEF Place, NextIndex, Index

LEMMA PlacesDiffer ==
    ASSUME NEW from \in Index, NEW i \in Nat, NEW k \in Nat, i < k, k < Capacity
    PROVE  Place(from, i) # Place(from, k)
  BY IsrRingAssumption DEF Place, Index

\* A store into the slot behind the last pending value disturbs none of them.
LEMMA StoreBehind ==
    ASSUME TypeOK, NEW n \in Nat, n < Capacity, NEW v \in Value,
           slots' = [slots EXCEPT ![Place(head, n)] = v]
    PROVE  /\ \A i \in 1 .. n : slots'[Place(head, i - 1)] = slots[Place(head, i - 1)]
           /\ slots'[Place(head, n)] = v
<1> USE IsrRingAssumption
<1>1. head \in Index /\ slots \in [Index -> Held] /\ n \in 0 .. Capacity
  BY DEF TypeOK, Held
<1>2. Place(head, n) \in Index
  BY <1>1, PlaceType
<1>3. ASSUME NEW i \in 1 .. n
      PROVE  slots'[Place(head, i - 1)] = slots[Place(head, i - 1)]
  <2>1. i - 1 \in Nat /\ i - 1 < n /\ i - 1 \in 0 .. Capacity
    OBVIOUS
  <2>2. Place(head, i - 1) # Place(head, n) /\ Place(head, i - 1) \in Index
    BY <1>1, <2>1, PlacesDiffer, PlaceType
  <2> QED BY <1>1, <2>2
<1> QED BY <1>1, <1>2, <1>3

-----------------------------------------------------------------------------
(* The lane *)

\* A push of an interrupt while the loop is not pushing.
LEMMA LaneIsrPush ==
    ASSUME TypeOK, BoundsInv, LaneInv, IsrPush, Clean'
    PROVE  LaneInv'
<1> USE IsrRingAssumption
<1>1. PICK v \in Value : slots' = [slots EXCEPT ![tail] = v] /\ pending' = Append(pending, v)
  BY DEF IsrPush
<1>2. /\ pc \notin InPush /\ pc' = pc /\ head' = head /\ item' = item
      /\ count' = count + 1 /\ count \in Nat /\ count < Capacity /\ tail' = NextIndex(tail)
      /\ head \in Index
  <2>1. pc \notin InPush
    BY Zenon DEF IsrPush, Clean
  <2> QED BY <2>1 DEF IsrPush, LaneInv, TypeOK
<1> DEFINE n == count - Taken
<1>3. /\ Stored = 0 /\ Stored' = 0 /\ Taken' = Taken /\ Taken \in {0, 1}
      /\ n \in Nat /\ n < Capacity
  <2>1. Stored = 0 /\ Stored' = 0 /\ Taken' = Taken
    BY <1>2 DEF Stored, Taken, InPush
  <2>2. Taken \in {0, 1} /\ (Taken = 1 => count # 0)
    BY DEF Taken, InPop, BoundsInv
  <2> QED BY <1>2, <2>1, <2>2
<1>4. tail = Place(head, n) /\ count - Taken + Stored = n
      /\ count' - Taken' + Stored' = n + 1 /\ count' - Taken' = n + 1
  BY <1>2, <1>3 DEF LaneInv
<1>5. /\ Len(pending') = count'
      /\ \A i \in 1 .. count : pending'[i] = pending[i]
      /\ pending'[count + 1] = v
  <2>1. pending \in Seq(Value) /\ Len(pending) = count
    BY DEF TypeOK, LaneInv
  <2> QED BY <1>1, <1>2, <2>1, AppendProperties
<1>6. tail' = Place(head', count' - Taken' + Stored')
  <2> HIDE DEF n
  <2>1. n \in 0 .. Capacity - 1
    BY <1>3
  <2> QED BY <1>2, <1>4, <2>1, PlaceAfter
<1>7. /\ \A i \in 1 .. n : slots'[Place(head, i - 1)] = slots[Place(head, i - 1)]
      /\ slots'[Place(head, n)] = v
  <2> HIDE DEF n
  <2> QED BY <1>1, <1>3, <1>4, StoreBehind
<1>8. ASSUME NEW i \in 1 .. count' - Taken'
      PROVE  slots'[Place(head', i - 1)] = pending'[i + Taken']
  <2>1. CASE i = n + 1
    <3>1. i - 1 = n /\ i + Taken = count + 1
      BY <1>2, <1>3, <2>1
    <3> QED BY <1>2, <1>3, <1>5, <1>7, <3>1
  <2>2. CASE i # n + 1
    <3>1. i \in 1 .. n /\ i + Taken \in 1 .. count
      BY <1>2, <1>3, <1>4, <2>2
    <3>2. slots[Place(head, i - 1)] = pending[i + Taken]
      BY <3>1 DEF LaneInv
    <3> QED BY <1>2, <1>3, <1>5, <1>7, <3>1, <3>2
  <2> QED BY <2>1, <2>2
<1>9. pc' \in InPop \ {"copy"} => item' = pending'[1]
  <2> SUFFICES ASSUME pc \in InPop \ {"copy"} PROVE item' = pending'[1]
    BY <1>2
  <2>1. 1 \in 1 .. count
    BY <1>2 DEF BoundsInv
  <2> QED BY <1>2, <1>5, <2>1 DEF LaneInv
<1>10. pc' \notin InPush /\ pc' \notin {"advanceTail", "increment", "storeMore"}
  BY <1>2 DEF InPush
<1>11. count' = Len(pending') /\ count' <= Capacity
  BY <1>2, <1>5
<1> QED BY <1>6, <1>8, <1>9, <1>10, <1>11 DEF LaneInv

\* The steps of a pop.
LEMMA LanePop ==
    ASSUME TypeOK, BoundsInv, LaneInv, LoopPop, Clean'
    PROVE  LaneInv'
<1> USE IsrRingAssumption
<1>0. /\ count \in Nat /\ head \in Index /\ pending \in Seq(Value) /\ Len(pending) = count
      /\ count <= Capacity
  BY DEF TypeOK, LaneInv
<1>1. CASE PopEmpty
  BY <1>1 DEF PopEmpty, vars, ring, ghosts, LaneInv, Taken, Stored
<1>2. CASE PopBegin
  BY <1>2 DEF PopBegin, ring, ghosts, LaneInv, Taken, Stored, InPop, InPush
<1>3. CASE PopCopy
  <2>1. slots[head] = pending[1]
    <3>1. 1 \in 1 .. count - Taken /\ Taken = 0 /\ 1 - 1 = 0
      BY <1>0, <1>3 DEF PopCopy, Taken, BoundsInv, InPop
    <3>2. slots[Place(head, 1 - 1)] = pending[1 + Taken]
      BY <3>1 DEF LaneInv
    <3> QED BY <1>0, <3>1, <3>2, FirstPlace
  <2> QED BY <1>3, <2>1 DEF PopCopy, ring, ghosts, LaneInv, Taken, Stored, InPop, InPush
<1>4. CASE PopAdvance
  <2>1. /\ pc = "advanceHead" /\ pc' = "decrement" /\ head' = NextIndex(head)
        /\ UNCHANGED <<slots, tail, count, item, pending>>
        /\ Taken = 0 /\ Stored = 0 /\ Taken' = 1 /\ Stored' = 0 /\ count # 0
    BY <1>4 DEF PopAdvance, ghosts, Taken, Stored, BoundsInv, InPop
  <2>2. tail' = Place(head', count' - Taken' + Stored')
    <3>1. tail = Place(head, count) /\ count' - Taken' + Stored' = count - 1
          /\ count - 1 \in 0 .. Capacity - 1 /\ (count - 1) + 1 = count
      BY <1>0, <2>1 DEF LaneInv
    <3> QED BY <1>0, <2>1, <3>1, PlaceNext
  <2>3. ASSUME NEW i \in 1 .. count' - Taken'
        PROVE  slots'[Place(head', i - 1)] = pending'[i + Taken']
    <3>1. i - 1 \in 0 .. Capacity - 1 /\ (i - 1) + 1 = i /\ (i + 1) - 1 = i
          /\ i + 1 \in 1 .. count - Taken
      BY <1>0, <2>1
    <3>2. Place(head', i - 1) = Place(head, i)
      BY <1>0, <2>1, <3>1, PlaceNext
    <3>3. slots[Place(head, i)] = pending[i + 1 + Taken]
      BY <3>1 DEF LaneInv
    <3>4. i + 1 + Taken = i + Taken'
      BY <2>1
    <3> QED BY <2>1, <3>2, <3>3, <3>4
  <2> QED BY <2>1, <2>2, <2>3 DEF LaneInv, InPop, InPush
<1>5. CASE PopDecrement
  BY <1>5 DEF PopDecrement, ReloadOrKeep, ring, ghosts, LaneInv, Taken, Stored, InPop, InPush
<1>6. CASE PopStore
  <2>0. reg = count
    BY <1>6, Zenon DEF PopStore, StoreCount, Clean
  <2>1. /\ pc = "storeLess" /\ pc' = "idle" /\ reg = count /\ count' = count - 1
        /\ UNCHANGED <<slots, head, tail, item>>
        /\ Taken = 1 /\ Stored = 0 /\ Taken' = 0 /\ Stored' = 0 /\ count # 0
    BY <1>6, <2>0 DEF PopStore, StoreCount, Taken, Stored, BoundsInv, InPop
  <2>2. pending # <<>>
    BY <1>0, <2>1
  <2>3. /\ pending' = Tail(pending) /\ Len(pending') = count - 1
        /\ \A i \in 1 .. count - 1 : pending'[i] = pending[i + 1]
    BY <1>0, <1>6, <2>2, HeadTailProperties DEF PopStore
  <2>4. tail' = Place(head', count' - Taken' + Stored')
    <3>1. count' - Taken' + Stored' = count - Taken + Stored
      BY <1>0, <2>1
    <3> QED BY <2>1, <3>1 DEF LaneInv
  <2>5. ASSUME NEW i \in 1 .. count' - Taken'
        PROVE  slots'[Place(head', i - 1)] = pending'[i + Taken']
    <3>1. i \in 1 .. count - 1 /\ i \in 1 .. count - Taken /\ i + Taken' = i /\ i + Taken = i + 1
      BY <1>0, <2>1
    <3>2. slots[Place(head, i - 1)] = pending[i + Taken]
      BY <3>1 DEF LaneInv
    <3> QED BY <2>1, <2>3, <3>1, <3>2
  <2>6. count' = Len(pending') /\ count' <= Capacity
    BY <1>0, <2>1, <2>3
  <2> QED BY <2>1, <2>4, <2>5, <2>6 DEF LaneInv, InPop, InPush
<1> QED BY <1>1, <1>2, <1>3, <1>4, <1>5, <1>6 DEF LoopPop

\* The steps of a push of the loop.
LEMMA LanePush ==
    ASSUME TypeOK, BoundsInv, LaneInv, LoopPush, Clean'
    PROVE  LaneInv'
<1> USE IsrRingAssumption
<1>0. /\ count \in Nat /\ head \in Index /\ pending \in Seq(Value) /\ Len(pending) = count
      /\ count <= Capacity
  BY DEF TypeOK, LaneInv
<1>1. CASE PushBegin
  BY <1>1 DEF PushBegin, ring, ghosts, LaneInv, Taken, Stored, InPop, InPush
<1>2. CASE PushWrite
  <2>1. /\ pc = "write" /\ pc' = "advanceTail"
        /\ UNCHANGED <<head, tail, count, item, pending>> /\ slots' = [slots EXCEPT ![tail] = item]
        /\ Taken = 0 /\ Stored = 0 /\ Taken' = 0 /\ Stored' = 0 /\ item \in Value
        /\ count < Capacity
    BY <1>0, <1>2 DEF PushWrite, ghosts, Taken, Stored, BoundsInv, InPush, LaneInv
  <2>2. tail = Place(head, count)
    BY <1>0, <2>1 DEF LaneInv
  <2>3. /\ \A i \in 1 .. count : slots'[Place(head, i - 1)] = slots[Place(head, i - 1)]
        /\ slots'[Place(head, count)] = item
    BY <1>0, <2>1, <2>2, StoreBehind
  <2>4. \A i \in 1 .. count' - Taken' : slots'[Place(head', i - 1)] = pending'[i + Taken']
    BY <1>0, <2>1, <2>3 DEF LaneInv
  <2>5. tail' = Place(head', count' - Taken' + Stored')
    BY <1>0, <2>1, <2>2
  <2> QED BY <1>0, <2>1, <2>3, <2>4, <2>5 DEF LaneInv, InPop, InPush
<1>3. CASE PushAdvance
  <2>1. /\ pc = "advanceTail" /\ pc' = "increment" /\ tail' = NextIndex(tail)
        /\ UNCHANGED <<slots, head, count, item, pending>>
        /\ Taken = 0 /\ Stored = 0 /\ Taken' = 0 /\ Stored' = 1 /\ count \in 0 .. Capacity - 1
    BY <1>0, <1>3 DEF PushAdvance, ghosts, Taken, Stored, InPush, LaneInv
  <2>2. tail' = Place(head, count + 1)
    BY <1>0, <2>1, PlaceAfter DEF LaneInv
  <2> QED BY <1>0, <2>1, <2>2 DEF LaneInv, InPop, InPush
<1>4. CASE PushIncrement
  BY <1>4 DEF PushIncrement, ReloadOrKeep, ring, ghosts, LaneInv, Taken, Stored, InPop, InPush
<1>5. CASE PushStore
  <2>0. reg = count
    BY <1>5, Zenon DEF PushStore, StoreCount, Clean
  <2>1. /\ pc = "storeMore" /\ pc' = "idle" /\ reg = count /\ count' = count + 1
        /\ UNCHANGED <<slots, head, tail, item>> /\ pending' = Append(pending, item)
        /\ Taken = 0 /\ Stored = 1 /\ Taken' = 0 /\ Stored' = 0 /\ count < Capacity
        /\ item \in Value
    BY <1>0, <1>5, <2>0 DEF PushStore, StoreCount, Taken, Stored, BoundsInv, InPush, LaneInv
  <2>2. /\ Len(pending') = count + 1
        /\ \A i \in 1 .. count : pending'[i] = pending[i]
        /\ pending'[count + 1] = item
    BY <1>0, <2>1, AppendProperties
  <2>3. tail' = Place(head', count' - Taken' + Stored')
    <3>1. count' - Taken' + Stored' = count - Taken + Stored
      BY <1>0, <2>1
    <3> QED BY <2>1, <3>1 DEF LaneInv
  <2>4. ASSUME NEW i \in 1 .. count' - Taken'
        PROVE  slots'[Place(head', i - 1)] = pending'[i + Taken']
    <3>1. CASE i = count + 1
      <4>1. slots[Place(head, count)] = item /\ i - 1 = count /\ i + Taken' = count + 1
        BY <1>0, <2>1, <3>1 DEF LaneInv
      <4> QED BY <2>1, <2>2, <4>1
    <3>2. CASE i # count + 1
      <4>1. i \in 1 .. count /\ i \in 1 .. count - Taken /\ i + Taken' = i /\ i + Taken = i
        BY <1>0, <2>1, <3>2
      <4>2. slots[Place(head, i - 1)] = pending[i + Taken]
        BY <4>1 DEF LaneInv
      <4> QED BY <2>1, <2>2, <4>1, <4>2
    <3> QED BY <3>1, <3>2
  <2>5. count' = Len(pending') /\ count' <= Capacity
    BY <1>0, <2>1, <2>2
  <2> QED BY <2>1, <2>3, <2>4, <2>5 DEF LaneInv, InPop, InPush
<1> QED BY <1>1, <1>2, <1>3, <1>4, <1>5 DEF LoopPush

\* The windows, once hit, stay on record.
LEMMA CleanBefore ==
    ASSUME [Next]_vars, Clean'
    PROVE  Clean
<1>1. ASSUME UNCHANGED ghosts
      PROVE  Clean
  BY <1>1, Zenon DEF ghosts, Clean
<1>2. ASSUME NEW value, StoreCount(value)
      PROVE  Clean
  BY <1>2, Zenon DEF StoreCount, Clean
<1>3. CASE IsrPush
  BY <1>3, Zenon DEF IsrPush, Clean
<1>4. CASE LoopPop
  BY <1>1, <1>2, <1>4 DEF LoopPop, PopEmpty, PopBegin, PopCopy, PopAdvance, PopDecrement,
                          PopStore, ReloadOrKeep, vars
<1>5. CASE LoopPush
  BY <1>1, <1>2, <1>5 DEF LoopPush, PushBegin, PushWrite, PushAdvance, PushIncrement,
                          PushStore, ReloadOrKeep
<1>6. CASE UNCHANGED vars
  BY <1>1, <1>6 DEF vars
<1> QED BY <1>3, <1>4, <1>5, <1>6 DEF Next

LEMMA InitIInv == Init => IInv
<1> SUFFICES ASSUME Init PROVE IInv
  OBVIOUS
<1>1. LaneInv
  <2>1. /\ count = 0 /\ pending = <<>> /\ head = 0 /\ tail = 0 /\ Taken = 0 /\ Stored = 0 /\ pc = "idle"
        /\ 0 \in Index
    BY IsrRingAssumption DEF Init, Taken, Stored, Index
  <2>2. tail = Place(head, count - Taken + Stored)
    BY <2>1, FirstPlace
  <2> QED BY <2>1, <2>2, IsrRingAssumption DEF LaneInv, InPop, InPush
<1> QED BY <1>1, TypeInit DEF IInv

LEMMA NextIInv == IInv /\ [Next]_vars => IInv'
<1> SUFFICES ASSUME IInv, [Next]_vars PROVE IInv'
  OBVIOUS
<1>1. TypeOK' /\ BoundsInv'
  BY TypeStep DEF IInv
<1>2. ASSUME Clean' PROVE LaneInv'
  <2>1. TypeOK /\ BoundsInv /\ LaneInv
    BY <1>2, CleanBefore DEF IInv
  <2>2. CASE IsrPush
    BY <1>2, <2>1, <2>2, LaneIsrPush
  <2>3. CASE LoopPop
    BY <1>2, <2>1, <2>3, LanePop
  <2>4. CASE LoopPush
    BY <1>2, <2>1, <2>4, LanePush
  <2>5. CASE UNCHANGED vars
    BY <2>1, <2>5 DEF vars, ring, ghosts, LaneInv, Taken, Stored
  <2> QED BY <2>2, <2>3, <2>4, <2>5 DEF Next
<1> QED BY <1>1, <1>2 DEF IInv

LEMMA WrapOnce ==
    ASSUME NEW n \in Nat, n < Capacity + Capacity
    PROVE  n % Capacity = IF n < Capacity THEN n ELSE n - Capacity
  BY IsrRingAssumption

\* The places are the remainders that Faithful counts in.
LEMMA PlaceIsRemainder ==
    ASSUME NEW from \in Index, NEW i \in 1 .. Capacity
    PROVE  (from + i - 1) % Capacity = Place(from, i - 1)
<1> USE IsrRingAssumption
<1> DEFINE n == from + i - 1
<1>1. n \in Nat /\ n < Capacity + Capacity
  BY DEF Index
<1>2. n % Capacity = IF n < Capacity THEN n ELSE n - Capacity
  <2> HIDE DEF n
  <2> QED BY <1>1, WrapOnce
<1>3. Place(from, i - 1) = IF n < Capacity THEN n ELSE n - Capacity
  BY DEF Place, Index
<1> QED BY <1>2, <1>3

\* Outside the two windows the lane holds exactly what was accepted, a push is
\* refused exactly when Capacity values are pending and a pop yields the oldest,
\* wherever else the interrupt strikes (ring_buffer.hpp:32-34, 71, 100-111).
THEOREM FaithfulOutsideTwoWindows == Spec => []TwoWindows
<1>1. IInv => TwoWindows
  <2> SUFFICES ASSUME IInv, Clean PROVE Faithful
    BY DEF TwoWindows, Clean
  <2>1. LaneInv /\ TypeOK /\ BoundsInv
    BY DEF IInv
  <2>2. ASSUME pc = "idle", NEW i \in 1 .. count
        PROVE  slots[(head + i - 1) % Capacity] = pending[i]
    <3>1. Taken = 0 /\ head \in Index /\ count \in Nat /\ count <= Capacity
      BY <2>1, <2>2 DEF Taken, TypeOK, LaneInv
    <3>2. i \in 1 .. count - Taken /\ i + Taken = i /\ i \in 1 .. Capacity
      BY <3>1, IsrRingAssumption
    <3>3. slots[Place(head, i - 1)] = pending[i + Taken]
      BY <2>1, <3>2 DEF LaneInv
    <3> QED BY <3>1, <3>2, <3>3, PlaceIsRemainder
  <2>3. ASSUME pc \in InPop \ {"copy"}
        PROVE  item = Head(pending)
    <3>1. pending \in Seq(Value) /\ pending # <<>>
      BY <2>1, <2>3 DEF TypeOK, BoundsInv, LaneInv
    <3> QED BY <2>1, <2>3, <3>1 DEF LaneInv
  <2> QED BY <2>1, <2>2, <2>3 DEF Faithful, LaneInv
<1> QED BY <1>1, InitIInv, NextIInv, PTL DEF Spec
=============================================================================
