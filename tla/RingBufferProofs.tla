-------------------------- MODULE RingBufferProofs --------------------------
(***************************************************************************)
(* The ring buffer's type and index invariants, and that it implements the *)
(* bounded queue, for every capacity, policy and element type.             *)
(***************************************************************************)
EXTENDS RingBuffer, SequenceTheorems, TLAPS

\* TypeOK and IndicesAgree are inductive together: count names the number of
\* steps from head to tail, and each call moves count with the index it moves.
IInv == TypeOK /\ IndicesAgree

\* The compare-and-wrap successor stays in the array.
LEMMA NextIndexType ==
    ASSUME NEW i \in Index
    PROVE  NextIndex(i) \in Index
  BY RingAssumption DEF NextIndex, Index

\* Storing a value keeps the slots, the write index and the reply well typed.
LEMMA StoreType ==
    ASSUME TypeOK, NEW v \in Value, Store(v)
    PROVE  /\ slots' \in [Index -> Value \cup {NoValue}]
           /\ tail' \in Index
           /\ reply' \in [result : {"Ok", "Full", "Empty"}, out : Value \cup {NoValue}]
<1>1. slots' \in [Index -> Value \cup {NoValue}]
  BY DEF TypeOK, Store
<1>2. tail' \in Index
  BY NextIndexType DEF TypeOK, Store
<1>3. reply' \in [result : {"Ok", "Full", "Empty"}, out : Value \cup {NoValue}]
  BY DEF Store, Reply
<1> QED BY <1>1, <1>2, <1>3

\* The constructor establishes the invariant.
LEMMA InitIInv == Init => IInv
<1> SUFFICES ASSUME Init PROVE IInv
  OBVIOUS
<1>1. slots \in [Index -> Value \cup {NoValue}]
  BY DEF Init
<1>2. reply \in [result : {"Ok", "Full", "Empty"}, out : Value \cup {NoValue}]
  BY DEF Init, Reply
<1>3. /\ head \in Index /\ tail \in Index /\ count \in 0 .. Capacity
      /\ dropped \in 0 .. DroppedMax
  BY RingAssumption DEF Init, Index
<1>4. IndicesAgree
  BY RingAssumption DEF Init, IndicesAgree
<1>5. dropsOldest \in BOOLEAN
  BY DEF Init
<1> QED BY <1>1, <1>2, <1>3, <1>4, <1>5 DEF IInv, TypeOK

\* Every call preserves it.
LEMMA NextIInv == IInv /\ [Next]_vars => IInv'
<1> SUFFICES ASSUME IInv, [Next]_vars PROVE IInv'
  OBVIOUS
<1> USE RingAssumption
<1>0. dropsOldest' \in BOOLEAN
  BY DEF Next, vars, IInv, TypeOK
<1>1. CASE PushRefused
  <2>1. TypeOK'
    BY <1>0, <1>1 DEF PushRefused, IInv, TypeOK, Reply
  <2>2. IndicesAgree'
    BY <1>1 DEF PushRefused, IInv, IndicesAgree
  <2> QED BY <2>1, <2>2 DEF IInv
<1>2. ASSUME NEW v \in Value, PushOverwriting(v) PROVE IInv'
  <2>1. /\ slots' \in [Index -> Value \cup {NoValue}]
        /\ tail' \in Index
        /\ reply' \in [result : {"Ok", "Full", "Empty"}, out : Value \cup {NoValue}]
    BY <1>2, StoreType DEF PushOverwriting, IInv
  <2>2. head' \in Index /\ count' \in 0 .. Capacity
    BY <1>2, NextIndexType DEF PushOverwriting, IInv, TypeOK
  <2>3. dropped' \in 0 .. DroppedMax
    BY <1>2 DEF PushOverwriting, IInv, TypeOK
  <2>4. IndicesAgree'
    BY <1>2 DEF PushOverwriting, Store, NextIndex, IInv, TypeOK, Index, IndicesAgree
  <2> QED BY <1>0, <2>1, <2>2, <2>3, <2>4 DEF IInv, TypeOK
<1>3. ASSUME NEW v \in Value, PushStored(v) PROVE IInv'
  <2>1. /\ slots' \in [Index -> Value \cup {NoValue}]
        /\ tail' \in Index
        /\ reply' \in [result : {"Ok", "Full", "Empty"}, out : Value \cup {NoValue}]
    BY <1>3, StoreType DEF PushStored, IInv
  <2>2. head' \in Index /\ count' \in 0 .. Capacity /\ dropped' \in 0 .. DroppedMax
    BY <1>3 DEF PushStored, IInv, TypeOK
  <2>3. IndicesAgree'
    BY <1>3 DEF PushStored, Store, NextIndex, IInv, TypeOK, Index, IndicesAgree
  <2> QED BY <1>0, <2>1, <2>2, <2>3 DEF IInv, TypeOK
<1>4. CASE PopEmpty
  <2>1. TypeOK'
    BY <1>0, <1>4 DEF PopEmpty, IInv, TypeOK, Reply
  <2>2. IndicesAgree'
    BY <1>4 DEF PopEmpty, IInv, IndicesAgree
  <2> QED BY <2>1, <2>2 DEF IInv
<1>5. CASE PopStored
  <2>1. reply' \in [result : {"Ok", "Full", "Empty"}, out : Value \cup {NoValue}]
    BY <1>5 DEF PopStored, IInv, TypeOK, Reply
  <2>2. /\ slots' \in [Index -> Value \cup {NoValue}]
        /\ tail' \in Index /\ dropped' \in 0 .. DroppedMax
    BY <1>5 DEF PopStored, IInv, TypeOK
  <2>3. head' \in Index /\ count' \in 0 .. Capacity
    BY <1>5, NextIndexType DEF PopStored, IInv, TypeOK
  <2>4. IndicesAgree'
    BY <1>5 DEF PopStored, NextIndex, IInv, TypeOK, Index, IndicesAgree
  <2> QED BY <1>0, <2>1, <2>2, <2>3, <2>4 DEF IInv, TypeOK
<1>6. CASE Peek
  <2>1. TypeOK'
    BY <1>0, <1>6 DEF Peek, IInv, TypeOK, Reply
  <2>2. IndicesAgree'
    BY <1>6 DEF Peek, IInv, IndicesAgree
  <2> QED BY <2>1, <2>2 DEF IInv
<1>7. CASE Clear
  <2>1. TypeOK'
    BY <1>0, <1>7 DEF Clear, IInv, TypeOK, Index
  <2>2. IndicesAgree'
    BY <1>7 DEF Clear, IndicesAgree
  <2> QED BY <2>1, <2>2 DEF IInv
<1>8. CASE UNCHANGED vars
  BY <1>8 DEF vars, IInv, TypeOK, IndicesAgree
<1> QED BY <1>1, <1>2, <1>3, <1>4, <1>5, <1>6, <1>7, <1>8 DEF Next

\* The members keep their types: neither index leaves the array and the count
\* never exceeds the capacity (ring_buffer.hpp:53-55, 135-141).
THEOREM TypeCorrect == Spec => []TypeOK
<1>1. IInv => TypeOK
  BY DEF IInv
<1> QED BY <1>1, InitIInv, NextIInv, PTL DEF Spec

\* The read and write indices never drift apart (ring_buffer.hpp:79-82).
THEOREM IndicesAlwaysAgree == Spec => []IndicesAgree
<1>1. IInv => IndicesAgree
  BY DEF IInv
<1> QED BY <1>1, InitIInv, NextIInv, PTL DEF Spec

-----------------------------------------------------------------------------
(* Refinement of the bounded queue *)

Held == Value \cup {NoValue}

\* Where the value k places behind the oldest one is.
Place(from, k) == IF from + k < Capacity THEN from + k ELSE from + k - Capacity

\* One remainder is one compare-and-wrap for numbers below twice the capacity.
LEMMA WrapOnce ==
    ASSUME NEW n \in Nat, n < Capacity + Capacity
    PROVE  n % Capacity = IF n < Capacity THEN n ELSE n - Capacity
  BY RingAssumption

LEMMA PlaceType ==
    ASSUME NEW from \in Index, NEW k \in 0 .. Capacity
    PROVE  Place(from, k) \in Index
  BY RingAssumption DEF Place, Index

\* The contents are a sequence as long as the count, found place by place.
ContentsShape ==
    /\ Contents \in Seq(Held)
    /\ Len(Contents) = count
    /\ \A i \in 1 .. count : Contents[i] = slots[Place(head, i - 1)]

LEMMA ShapeHolds == TypeOK => ContentsShape
<1> SUFFICES ASSUME TypeOK PROVE ContentsShape
  OBVIOUS
<1> USE RingAssumption
<1>1. \A i \in 1 .. count : (head + i - 1) % Capacity = Place(head, i - 1)
  <2> TAKE i \in 1 .. count
  <2> DEFINE n == head + i - 1
  <2>1. n \in Nat /\ n < Capacity + Capacity /\ n = head + (i - 1)
    BY DEF TypeOK, Index
  <2>2. n % Capacity = IF n < Capacity THEN n ELSE n - Capacity
    <3> HIDE DEF n
    <3> QED BY <2>1, WrapOnce
  <2>3. Place(head, i - 1) = IF n < Capacity THEN n ELSE n - Capacity
    BY DEF Place, TypeOK, Index
  <2> QED BY <2>2, <2>3
<1>2. Contents = [i \in 1 .. count |-> slots[Place(head, i - 1)]]
  BY <1>1 DEF Contents
<1>3. \A i \in 1 .. count : slots[Place(head, i - 1)] \in Held
  BY PlaceType DEF TypeOK, Held
<1>4. count \in Nat
  BY DEF TypeOK
<1>5. Contents \in [1 .. count -> Held]
  BY <1>2, <1>3
<1>6. Contents \in Seq(Held)
  BY <1>4, <1>5
<1>7. Len(Contents) = count
  BY <1>4, <1>5
<1> QED BY <1>2, <1>6, <1>7 DEF ContentsShape

LEMMA ShapeHoldsNext == TypeOK' => ContentsShape'
  BY ShapeHolds, PTL

LEMMA PlaceNext ==
    ASSUME NEW from \in Index, NEW k \in 0 .. Capacity - 1
    PROVE  Place(NextIndex(from), k) = Place(from, k + 1)
  BY RingAssumption DEF Place, NextIndex, Index

LEMMA PlacesDiffer ==
    ASSUME NEW from \in Index, NEW i \in Nat, NEW k \in Nat, i < k, k < Capacity
    PROVE  Place(from, i) # Place(from, k)
  BY RingAssumption DEF Place, Index

\* The value to be popped or peeked is the oldest one.
LEMMA HeadIsOldest ==
    ASSUME TypeOK, count # 0
    PROVE  Contents # <<>> /\ Head(Contents) = slots[head]
<1>1. ContentsShape
  BY ShapeHolds
<1>2. 1 \in 1 .. count
  BY DEF TypeOK
<1>3. Place(head, 0) = head
  BY RingAssumption DEF Place, TypeOK, Index
<1>4. Contents[1] = slots[head]
  BY <1>1, <1>2, <1>3 DEF ContentsShape
<1> QED BY <1>1, <1>2, <1>4 DEF ContentsShape

LEMMA EmptyContents ==
    ASSUME TypeOK
    PROVE  count = 0 <=> Contents = <<>>
  BY ShapeHolds DEF ContentsShape, TypeOK

\* A pop removes the oldest value and leaves the others in their places.
LEMMA PopContents ==
    ASSUME TypeOK, TypeOK', count # 0,
           head' = NextIndex(head), count' = count - 1, slots' = slots
    PROVE  Contents' = Tail(Contents)
<1> USE RingAssumption
<1>1. ContentsShape /\ ContentsShape'
  BY ShapeHolds, ShapeHoldsNext
<1>2. Contents # <<>>
  BY HeadIsOldest
<1>3. /\ Tail(Contents) \in Seq(Held)
      /\ Len(Tail(Contents)) = count - 1
      /\ \A i \in 1 .. count - 1 : Tail(Contents)[i] = Contents[i + 1]
  BY <1>1, <1>2, HeadTailProperties DEF ContentsShape
<1>4. \A i \in 1 .. count - 1 : Contents'[i] = Tail(Contents)[i]
  <2> TAKE i \in 1 .. count - 1
  <2>1. Contents'[i] = slots[Place(NextIndex(head), i - 1)]
    BY <1>1 DEF ContentsShape
  <2>2. i - 1 \in 0 .. Capacity - 1 /\ (i - 1) + 1 = i /\ (i + 1) - 1 = i /\ i + 1 \in 1 .. count
    BY DEF TypeOK
  <2>3. Place(NextIndex(head), i - 1) = Place(head, i)
    BY <2>2, PlaceNext DEF TypeOK
  <2>4. Contents[i + 1] = slots[Place(head, i)]
    BY <1>1, <2>2 DEF ContentsShape
  <2> QED BY <1>3, <2>1, <2>3, <2>4
<1>5. Contents' \in Seq(Held) /\ Len(Contents') = count - 1
  BY <1>1 DEF ContentsShape
<1> QED BY <1>3, <1>4, <1>5, SeqEqual

\* A push into a ring with room appends.
LEMMA PushContents ==
    ASSUME IInv, TypeOK', NEW v \in Value, count # Capacity,
           Store(v), head' = head, count' = count + 1
    PROVE  Contents' = Append(Contents, v)
<1> USE RingAssumption
<1>1. ContentsShape /\ ContentsShape'
  BY ShapeHolds, ShapeHoldsNext DEF IInv
<1>2. /\ Append(Contents, v) \in Seq(Held)
      /\ Len(Append(Contents, v)) = count + 1
      /\ \A i \in 1 .. count : Append(Contents, v)[i] = Contents[i]
      /\ Append(Contents, v)[count + 1] = v
  <2>1. v \in Held
    BY DEF Held
  <2> QED BY <1>1, <2>1, AppendProperties DEF ContentsShape
<1>3. /\ count \in Nat /\ count < Capacity
      /\ tail = Place(head, count) /\ tail \in Index /\ head \in Index
      /\ slots' = [slots EXCEPT ![tail] = v]
      /\ slots \in [Index -> Held]
  BY DEF IInv, TypeOK, IndicesAgree, Place, Store, Held
<1>4. \A i \in 1 .. count : Contents'[i] = Contents[i]
  <2> TAKE i \in 1 .. count
  <2>1. i - 1 \in Nat /\ i - 1 < count /\ i - 1 \in 0 .. Capacity /\ i \in 1 .. count + 1
    BY <1>3
  <2>2. Contents'[i] = slots'[Place(head, i - 1)]
    BY <1>1, <2>1 DEF ContentsShape, Place
  <2>3. Place(head, i - 1) # tail
    BY <1>3, <2>1, PlacesDiffer
  <2>4. Place(head, i - 1) \in Index
    BY <1>3, <2>1, PlaceType
  <2>5. slots'[Place(head, i - 1)] = slots[Place(head, i - 1)]
    BY <1>3, <2>3, <2>4
  <2> QED BY <1>1, <2>2, <2>5 DEF ContentsShape
<1>5. Contents'[count + 1] = v
  <2>1. Contents'[count + 1] = slots'[Place(head, count)]
    BY <1>1, <1>3 DEF ContentsShape, Place
  <2> QED BY <1>3, <2>1
<1>6. Contents' \in Seq(Held) /\ Len(Contents') = count + 1
  BY <1>1 DEF ContentsShape
<1>7. \A i \in 1 .. count + 1 : Contents'[i] = Append(Contents, v)[i]
  <2> TAKE i \in 1 .. count + 1
  <2>1. i \in 1 .. count \/ i = count + 1
    BY <1>3
  <2> QED BY <1>2, <1>4, <1>5, <2>1
<1> QED BY <1>2, <1>6, <1>7, SeqEqual

\* A push into a full ring gives up the oldest value for the new one: the write
\* index has caught up with the read index, and both move on.
LEMMA OverwriteContents ==
    ASSUME IInv, TypeOK', NEW v \in Value, count = Capacity,
           Store(v), head' = NextIndex(head), count' = count
    PROVE  Contents' = Append(Tail(Contents), v)
<1> USE RingAssumption
<1>1. ContentsShape /\ ContentsShape' /\ Contents # <<>>
  BY ShapeHolds, ShapeHoldsNext, HeadIsOldest DEF IInv
<1>2. /\ Tail(Contents) \in Seq(Held)
      /\ Len(Tail(Contents)) = Capacity - 1
      /\ \A i \in 1 .. Capacity - 1 : Tail(Contents)[i] = Contents[i + 1]
  BY <1>1, HeadTailProperties DEF ContentsShape
<1>3. /\ Append(Tail(Contents), v) \in Seq(Held)
      /\ Len(Append(Tail(Contents), v)) = Capacity
      /\ \A i \in 1 .. Capacity - 1 : Append(Tail(Contents), v)[i] = Contents[i + 1]
      /\ Append(Tail(Contents), v)[Capacity] = v
  <2>1. v \in Held
    BY DEF Held
  <2>2. Capacity - 1 + 1 = Capacity
    OBVIOUS
  <2> QED BY <1>2, <2>1, <2>2, AppendProperties
<1>4. /\ tail = head /\ head \in Index
      /\ slots' = [slots EXCEPT ![head] = v]
      /\ slots \in [Index -> Held]
      /\ Place(head, 0) = head /\ Place(head, Capacity) = head
  <2>1. head \in Index /\ slots \in [Index -> Held] /\ slots' = [slots EXCEPT ![tail] = v]
    BY DEF IInv, TypeOK, Store, Held
  <2>2. Place(head, 0) = head /\ Place(head, Capacity) = head
    BY <2>1 DEF Place, Index
  <2>3. tail = Place(head, Capacity)
    BY DEF IInv, IndicesAgree, Place
  <2> QED BY <2>1, <2>2, <2>3
<1>5. \A i \in 1 .. Capacity - 1 : Contents'[i] = Contents[i + 1]
  <2> TAKE i \in 1 .. Capacity - 1
  <2>1. /\ i \in 1 .. Capacity /\ i \in Nat /\ 0 < i /\ i < Capacity /\ i - 1 \in 0 .. Capacity - 1
        /\ (i - 1) + 1 = i /\ (i + 1) - 1 = i /\ i + 1 \in 1 .. Capacity /\ i \in 0 .. Capacity
    OBVIOUS
  <2>2. Contents'[i] = slots'[Place(NextIndex(head), i - 1)]
    BY <1>1, <2>1 DEF ContentsShape, Place
  <2>3. Place(NextIndex(head), i - 1) = Place(head, i)
    BY <1>4, <2>1, PlaceNext
  <2>4. Place(head, i) # head
    BY <1>4, <2>1, PlacesDiffer
  <2>5. Place(head, i) \in Index
    BY <1>4, <2>1, PlaceType
  <2>6. slots'[Place(head, i)] = slots[Place(head, i)]
    BY <1>4, <2>4, <2>5
  <2>7. Contents[i + 1] = slots[Place(head, i)]
    BY <1>1, <2>1 DEF ContentsShape
  <2> QED BY <2>2, <2>3, <2>6, <2>7
<1>6. Contents'[Capacity] = v
  <2>1. Capacity - 1 \in 0 .. Capacity - 1 /\ (Capacity - 1) + 1 = Capacity /\ Capacity \in 1 .. Capacity
    OBVIOUS
  <2>2. Contents'[Capacity] = slots'[Place(NextIndex(head), Capacity - 1)]
    BY <1>1, <2>1 DEF ContentsShape, Place
  <2>3. Place(NextIndex(head), Capacity - 1) = Place(head, Capacity)
    BY <1>4, <2>1, PlaceNext
  <2> QED BY <1>4, <2>2, <2>3
<1>7. Contents' \in Seq(Held) /\ Len(Contents') = Capacity
  BY <1>1 DEF ContentsShape
<1>8. \A i \in 1 .. Capacity : Contents'[i] = Append(Tail(Contents), v)[i]
  <2> TAKE i \in 1 .. Capacity
  <2>1. i \in 1 .. Capacity - 1 \/ i = Capacity
    OBVIOUS
  <2> QED BY <1>3, <1>5, <1>6, <2>1
<1> QED BY <1>3, <1>7, <1>8, SeqEqual

\* The empty ring of the constructor is the empty queue.
LEMMA InitRefines == Init => Abstract!Init
<1> SUFFICES ASSUME Init PROVE Abstract!Init
  OBVIOUS
<1>1. TypeOK
  BY InitIInv DEF IInv
<1>2. Contents = <<>>
  BY <1>1, EmptyContents DEF Init
<1> QED BY <1>2 DEF Init, Abstract!Init, Reply, Abstract!Reply

\* Every call is the corresponding call of the queue.
LEMMA StepRefines ==
    ASSUME IInv, IInv', [Next]_vars
    PROVE  [Abstract!Next]_<<dropsOldest, Contents, dropped, reply>>
<1> USE RingAssumption
<1>1. TypeOK /\ TypeOK' /\ ContentsShape
  BY ShapeHolds DEF IInv
<1>2. Len(Contents) = count
  BY <1>1 DEF ContentsShape
<1>3. ASSUME slots' = slots, head' = head, count' = count
      PROVE  Contents' = Contents
  BY <1>3 DEF Contents
<1>4. ASSUME NEW v \in Value, PushRefused
      PROVE  Abstract!Push(v)
  BY <1>2, <1>3, <1>4 DEF PushRefused, Reply, Abstract!Push, Abstract!Refuses, Abstract!Reply
<1>5. ASSUME NEW v \in Value, PushOverwriting(v)
      PROVE  Abstract!Push(v)
  <2>1. Contents' = Append(Tail(Contents), v)
    BY <1>1, <1>5, OverwriteContents DEF PushOverwriting
  <2>2. ~Abstract!Refuses(Contents, Capacity, dropsOldest)
    BY <1>5 DEF PushOverwriting, Abstract!Refuses
  <2>3. Abstract!Enqueue(Contents, Capacity, v) = Append(Tail(Contents), v)
    BY <1>2, <1>5 DEF PushOverwriting, Abstract!Enqueue
  <2>4. dropped' = Abstract!SaturatingIncrement(dropped, DroppedMax)
    BY <1>1, <1>5 DEF PushOverwriting, Abstract!SaturatingIncrement, TypeOK
  <2>5. Len(Contents) = Capacity /\ reply' = Abstract!Reply("Ok", NoValue)
    BY <1>2, <1>5 DEF PushOverwriting, Store, Reply, Abstract!Reply
  <2> QED BY <2>1, <2>2, <2>3, <2>4, <2>5 DEF Abstract!Push
<1>6. ASSUME NEW v \in Value, PushStored(v)
      PROVE  Abstract!Push(v)
  <2>1. Contents' = Append(Contents, v)
    BY <1>1, <1>6, PushContents DEF PushStored
  <2>2. ~Abstract!Refuses(Contents, Capacity, dropsOldest)
    BY <1>2, <1>6 DEF PushStored, Abstract!Refuses
  <2>3. Abstract!Enqueue(Contents, Capacity, v) = Append(Contents, v)
    BY <1>2, <1>6 DEF PushStored, Abstract!Enqueue
  <2>4. Len(Contents) # Capacity /\ dropped' = dropped /\ reply' = Abstract!Reply("Ok", NoValue)
    BY <1>2, <1>6 DEF PushStored, Store, Reply, Abstract!Reply
  <2> QED BY <2>1, <2>2, <2>3, <2>4 DEF Abstract!Push
<1>7. ASSUME PopEmpty PROVE Abstract!Pop
  <2>1. Contents = <<>> /\ Contents' = Contents
    BY <1>1, <1>3, <1>7, EmptyContents DEF PopEmpty
  <2> QED BY <1>7, <2>1 DEF PopEmpty, Reply, Abstract!Pop, Abstract!Reply
<1>8. ASSUME PopStored PROVE Abstract!Pop
  <2>1. Contents # <<>> /\ Head(Contents) = slots[head]
    BY <1>1, <1>8, HeadIsOldest DEF PopStored
  <2>2. Contents' = Tail(Contents)
    BY <1>1, <1>8, PopContents DEF PopStored
  <2> QED BY <1>8, <2>1, <2>2 DEF PopStored, Reply, Abstract!Pop, Abstract!Reply
<1>9. ASSUME Peek PROVE Abstract!Peek
  <2>1. Contents' = Contents
    BY <1>3, <1>9 DEF Peek
  <2>2. (count = 0) <=> (Contents = <<>>)
    BY <1>1, EmptyContents
  <2>3. count # 0 => Head(Contents) = slots[head]
    BY <1>1, HeadIsOldest
  <2> QED BY <1>9, <2>1, <2>2, <2>3 DEF Peek, Reply, Abstract!Peek, Abstract!Reply
<1>10. ASSUME Clear PROVE Abstract!Clear
  <2>1. Contents' = <<>>
    BY <1>10 DEF Clear, Contents
  <2> QED BY <1>10, <2>1 DEF Clear, Abstract!Clear
<1>11. CASE UNCHANGED vars
  BY <1>3, <1>11 DEF vars
<1>12. CASE Next
  <2>1. (\E v \in Value : Abstract!Push(v)) \/ Abstract!Pop \/ Abstract!Peek \/ Abstract!Clear
    BY <1>4, <1>5, <1>6, <1>7, <1>8, <1>9, <1>10, <1>12 DEF Next
  <2> QED BY <1>12, <2>1 DEF Next, Abstract!Next
<1> QED BY <1>11, <1>12

\* The ring implements the bounded queue: every call gives the reply that the
\* queue would give, in the same order and with the same values dropped, however
\* the indices have wrapped (ring_buffer.hpp:25-41, 63-68, 98-99, 125-126).
THEOREM RingImplementsQueue == Spec => ImplementsQueue
<1> USE DEF ImplementsQueue
<1>1. IInv /\ [Next]_vars => [Abstract!Next]_<<dropsOldest, Contents, dropped, reply>>
  BY NextIInv, StepRefines
<1> QED BY <1>1, InitIInv, InitRefines, NextIInv, PTL DEF Spec, Abstract!Spec
=============================================================================
