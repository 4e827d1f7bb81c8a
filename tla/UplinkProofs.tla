---------------------------- MODULE UplinkProofs ----------------------------
(***************************************************************************)
(* The uplink's buffers, the age of what it posts, and that it is a        *)
(* command channel, for every capacity, chunk size and set of lines.       *)
(***************************************************************************)
EXTENDS Uplink, SequenceTheorems, FiniteSetTheorems, TLAPS

Buffers ==
    /\ rx \in Text /\ Len(rx) <= RxCapacity
    /\ chunk \in Text /\ Len(chunk) <= ChunkSize
    /\ line \in Text /\ Len(line) < LineCapacity
    /\ \A i \in 1 .. Len(line) : line[i] \notin Terminator
    /\ link_up \in BOOLEAN
    /\ lost \in 0 .. MaxLost

AgeType == [marked : Nat, reads : 0 .. ReadsPerTimeout + 1, outage : BOOLEAN]

\* Bytes watched are in flight; without an outage since then, each read of the link
\* has taken a chunk of them or all that were left in the receive buffer.
AgeInv ==
    /\ age \in AgeType
    /\ age.marked <= Len(chunk) + Len(rx)
    /\ age.marked = 0 => age.reads = 0 /\ ~age.outage
    /\ age.marked > 0 /\ ~age.outage =>
          /\ link_up
          /\ age.reads <= ReadsPerTimeout
          /\ \/ age.marked <= Len(chunk)
             \/ age.marked - Len(chunk) + age.reads * ChunkSize <= RxCapacity

-----------------------------------------------------------------------------
(* Numbers and sequences *)

LEMMA MinOfTwo ==
    ASSUME NEW a \in Int, NEW b \in Int
    PROVE  Min({a, b}) = IF a <= b THEN a ELSE b
<1> DEFINE m == IF a <= b THEN a ELSE b
<1>1. m \in {a, b} /\ \A y \in {a, b} : m <= y
  OBVIOUS
<1>2. \A x \in {a, b} : (\A y \in {a, b} : x <= y) => x = m
  OBVIOUS
<1> HIDE DEF m
<1>3. Min({a, b}) \in {a, b} /\ \A y \in {a, b} : Min({a, b}) <= y
  BY <1>1 DEF Min
<1>4. Min({a, b}) = m
  BY <1>2, <1>3
<1> QED BY <1>4 DEF m

LEMMA MaxOfTwo ==
    ASSUME NEW a \in Int, NEW b \in Int
    PROVE  Max({a, b}) = IF a <= b THEN b ELSE a
<1> DEFINE m == IF a <= b THEN b ELSE a
<1>1. m \in {a, b} /\ \A y \in {a, b} : m >= y
  OBVIOUS
<1>2. \A x \in {a, b} : (\A y \in {a, b} : x >= y) => x = m
  OBVIOUS
<1> HIDE DEF m
<1>3. Max({a, b}) \in {a, b} /\ \A y \in {a, b} : Max({a, b}) >= y
  BY <1>1 DEF Max
<1>4. Max({a, b}) = m
  BY <1>2, <1>3
<1> QED BY <1>4 DEF m

LEMMA Capacities ==
    /\ LineCapacity \in Nat \ {0} /\ ChunkSize \in Nat \ {0} /\ RxCapacity \in Nat \ {0}
    /\ ReadsPerTimeout \in Nat \ {0} /\ MaxLost \in Nat
    /\ RxCapacity <= ReadsPerTimeout * ChunkSize
    /\ \A l \in HostLines : l.text \in Text /\ Len(l.text) <= RxCapacity
  BY UplinkAssumption

LEMMA TextFacts ==
    ASSUME NEW t \in Text
    PROVE  /\ Len(t) \in Nat /\ DOMAIN t = 1 .. Len(t)
           /\ \A i \in 1 .. Len(t) : t[i] \in STRING
           /\ t # <<>> => Len(t) > 0
  BY DEF Text

LEMMA PartOf ==
    ASSUME NEW t \in Text, NEW m \in Int, NEW n \in Int, 1 <= m, n <= Len(t)
    PROVE  /\ SubSeq(t, m, n) \in Text
           /\ Len(SubSeq(t, m, n)) = IF m <= n THEN n - m + 1 ELSE 0
           /\ \A i \in 1 .. n - m + 1 : SubSeq(t, m, n)[i] = t[m + i - 1]
<1>1. \A i \in m .. n : t[i] \in STRING
  BY TextFacts
<1> QED BY <1>1, SubSeqProperties DEF Text

LEMMA Joined ==
    ASSUME NEW t \in Text, NEW u \in Text
    PROVE  t \o u \in Text /\ Len(t \o u) = Len(t) + Len(u)
  BY ConcatProperties DEF Text

LEMMA Removed ==
    ASSUME NEW t \in Text, NEW i \in DOMAIN t
    PROVE  RemoveAt(t, i) \in Text /\ Len(RemoveAt(t, i)) = Len(t) - 1
<1>1. i \in 1 .. Len(t) /\ Len(t) \in Nat
  BY TextFacts
<1>2. /\ SubSeq(t, 1, i - 1) \in Text /\ Len(SubSeq(t, 1, i - 1)) = i - 1
      /\ SubSeq(t, i + 1, Len(t)) \in Text /\ Len(SubSeq(t, i + 1, Len(t))) = Len(t) - i
  <2>1. /\ SubSeq(t, 1, i - 1) \in Text
        /\ Len(SubSeq(t, 1, i - 1)) = IF 1 <= i - 1 THEN (i - 1) - 1 + 1 ELSE 0
    BY <1>1, PartOf
  <2>2. /\ SubSeq(t, i + 1, Len(t)) \in Text
        /\ Len(SubSeq(t, i + 1, Len(t))) = IF i + 1 <= Len(t) THEN Len(t) - (i + 1) + 1 ELSE 0
    BY <1>1, PartOf
  <2> QED BY <1>1, <2>1, <2>2
<1> QED BY <1>1, <1>2, Joined DEF RemoveAt

LEMMA Longer ==
    ASSUME NEW t \in Text, NEW c \in STRING
    PROVE  /\ Append(t, c) \in Text /\ Len(Append(t, c)) = Len(t) + 1
           /\ \A i \in 1 .. Len(t) : Append(t, c)[i] = t[i]
           /\ Append(t, c)[Len(t) + 1] = c
<1>1. ASSUME NEW S, NEW u \in Seq(S), NEW d \in S
      PROVE  /\ Append(u, d) \in Seq(S) /\ Len(Append(u, d)) = Len(u) + 1
             /\ \A i \in 1 .. Len(u) : Append(u, d)[i] = u[i]
             /\ Append(u, d)[Len(u) + 1] = d
  OBVIOUS
<1> QED BY <1>1, Zenon DEF Text

LEMMA Shortened ==
    ASSUME NEW t \in Text, t # <<>>
    PROVE  /\ Head(t) \in STRING /\ Tail(t) \in Text /\ Len(Tail(t)) = Len(t) - 1
           /\ \A i \in 1 .. Len(t) - 1 : Tail(t)[i] = t[i + 1]
           /\ Head(t) = t[1]
  BY HeadTailProperties, TextFacts DEF Text

-----------------------------------------------------------------------------
(* The buffers *)

\* What a read takes.
LEMMA Taken ==
    ASSUME Buffers, ReadLink
    PROVE  /\ Count \in Nat /\ Count <= ChunkSize /\ Count <= Len(rx)
           /\ link_up => Count = ChunkSize \/ Count = Len(rx)
           /\ chunk' \in Text /\ Len(chunk') = Count
           /\ rx' \in Text /\ Len(rx') = Len(rx) - Count
<1>1. rx \in Text /\ Len(rx) \in Nat /\ ChunkSize \in Nat
  BY TextFacts, Capacities DEF Buffers
<1>2. Count = IF link_up THEN IF ChunkSize <= Len(rx) THEN ChunkSize ELSE Len(rx) ELSE 0
  BY <1>1, MinOfTwo DEF Count
<1>3. /\ Count \in Nat /\ Count <= ChunkSize /\ Count <= Len(rx)
      /\ link_up => Count = ChunkSize \/ Count = Len(rx)
  BY <1>1, <1>2
<1> DEFINE n == Count
<1>4. n \in Nat /\ n <= Len(rx)
  BY <1>3
<1> HIDE DEF n
<1>5. /\ SubSeq(rx, 1, n) \in Text
      /\ Len(SubSeq(rx, 1, n)) = IF 1 <= n THEN n - 1 + 1 ELSE 0
  BY <1>1, <1>4, PartOf
<1>6. /\ SubSeq(rx, n + 1, Len(rx)) \in Text
      /\ Len(SubSeq(rx, n + 1, Len(rx))) = IF n + 1 <= Len(rx) THEN Len(rx) - (n + 1) + 1 ELSE 0
  BY <1>1, <1>4, PartOf
<1>7. /\ SubSeq(rx, 1, n) \in Text /\ Len(SubSeq(rx, 1, n)) = n
      /\ SubSeq(rx, n + 1, Len(rx)) \in Text
      /\ Len(SubSeq(rx, n + 1, Len(rx))) = Len(rx) - n
  BY <1>1, <1>4, <1>5, <1>6
<1>8. chunk' = SubSeq(rx, 1, n) /\ rx' = SubSeq(rx, n + 1, Len(rx))
  BY DEF ReadLink, n
<1> QED BY <1>3, <1>7, <1>8 DEF n

\* The line holds no line end and keeps room for the character after it.
LEMMA LineGrows ==
    ASSUME NEW l \in Text, Len(l) < LineCapacity, NEW c \in STRING,
           \A i \in 1 .. Len(l) : l[i] \notin Terminator
    PROVE  /\ AfterCharacter(l, c) \in Text /\ Len(AfterCharacter(l, c)) < LineCapacity
           /\ \A i \in 1 .. Len(AfterCharacter(l, c)) : AfterCharacter(l, c)[i] \notin Terminator
<1>1. CASE c \in Terminator \/ Len(l) + 1 >= LineCapacity
  <2>1. AfterCharacter(l, c) = <<>>
    BY <1>1 DEF AfterCharacter
  <2>2. <<>> \in Text /\ Len(<<>>) = 0 /\ 1 .. 0 = {}
    BY DEF Text
  <2> QED BY <2>1, <2>2, Capacities
<1>2. CASE ~(c \in Terminator \/ Len(l) + 1 >= LineCapacity)
  <2>1. AfterCharacter(l, c) = Append(l, c)
    BY <1>2 DEF AfterCharacter
  <2>2. /\ Append(l, c) \in Text /\ Len(Append(l, c)) = Len(l) + 1
        /\ \A i \in 1 .. Len(l) : Append(l, c)[i] = l[i]
        /\ Append(l, c)[Len(l) + 1] = c
    BY Longer
  <2>3. Len(l) \in Nat
    BY TextFacts
  <2>4. ASSUME NEW i \in 1 .. Len(l) + 1 PROVE Append(l, c)[i] \notin Terminator
    <3>1. i \in 1 .. Len(l) \/ i = Len(l) + 1
      BY <2>3
    <3> QED BY <1>2, <2>2, <3>1
  <2> QED BY <1>2, <2>1, <2>2, <2>3, <2>4, Capacities
<1> QED BY <1>1, <1>2

LEMMA BuffersInit == Init => Buffers
<1>1. <<>> \in Text /\ Len(<<>>) = 0 /\ 1 .. 0 = {}
  BY DEF Text
<1>2. Init => rx = <<>> /\ chunk = <<>> /\ line = <<>> /\ lost = 0 /\ link_up \in BOOLEAN
  BY Zenon DEF Init
<1> QED BY <1>1, <1>2, Capacities DEF Buffers

LEMMA Moves ==
    [Next]_vars => \/ \E request \in HostLines : Send(request)
                   \/ LoseByte \/ ToggleLink \/ Mark \/ ReadLink \/ TakeCharacter
                   \/ UNCHANGED vars
  BY Zenon DEF Next

LEMMA BuffersStep == Buffers /\ [Next]_vars => Buffers'
<1> SUFFICES ASSUME Buffers, [Next]_vars PROVE Buffers'
  OBVIOUS
<1>0. /\ Len(rx) \in Nat /\ Len(chunk) \in Nat /\ Len(line) \in Nat
      /\ rx \in Text /\ chunk \in Text /\ line \in Text
      /\ lost \in Nat /\ lost <= MaxLost /\ link_up \in BOOLEAN
      /\ Len(rx) <= RxCapacity
  BY TextFacts, Capacities DEF Buffers
<1>1. ASSUME NEW request \in HostLines, Send(request) PROVE Buffers'
  <2>1. rx' \in Text /\ Len(rx') <= RxCapacity
    BY <1>0, <1>1, Joined, Capacities DEF Send
  <2>2. UNCHANGED <<link_up, chunk, line, lost>>
    BY <1>1 DEF Send
  <2> QED BY <2>1, <2>2 DEF Buffers
<1>2. CASE LoseByte
  <2>1. PICK i \in DOMAIN rx : rx' = RemoveAt(rx, i)
    BY <1>2 DEF LoseByte
  <2>2. rx' \in Text /\ Len(rx') = Len(rx) - 1
    BY <1>0, <2>1, Removed
  <2>3. lost' = lost + 1 /\ lost < MaxLost /\ UNCHANGED <<link_up, chunk, line>>
    BY <1>2 DEF LoseByte
  <2>4. lost' \in 0 .. MaxLost /\ Len(rx') <= RxCapacity
    BY <1>0, <2>2, <2>3, Capacities
  <2> QED BY <2>2, <2>3, <2>4 DEF Buffers
<1>3. CASE ToggleLink
  BY <1>3, Zenon DEF ToggleLink, Buffers
<1>4. CASE Mark \/ UNCHANGED vars
  <2>1. UNCHANGED <<rx, link_up, chunk, line, lost>>
    BY <1>4 DEF Mark, vars
  <2> QED BY <2>1 DEF Buffers
<1>5. CASE ReadLink
  <2>1. /\ chunk' \in Text /\ Len(chunk') <= ChunkSize
        /\ rx' \in Text /\ Len(rx') <= RxCapacity
    BY <1>0, <1>5, Taken, Capacities
  <2>2. UNCHANGED <<link_up, line, lost>>
    BY <1>5 DEF ReadLink
  <2> QED BY <2>1, <2>2 DEF Buffers
<1>6. CASE TakeCharacter
  <2>1. chunk # <<>> /\ line' = AfterCharacter(line, Head(chunk)) /\ chunk' = Tail(chunk)
        /\ UNCHANGED <<rx, link_up, lost>>
    BY <1>6 DEF TakeCharacter
  <2>2. /\ Head(chunk) \in STRING
        /\ Tail(chunk) \in Text /\ Len(Tail(chunk)) = Len(chunk) - 1
    BY <1>0, <2>1, Shortened
  <2>3. chunk' \in Text /\ Len(chunk') <= ChunkSize
    BY <1>0, <2>1, <2>2, Capacities DEF Buffers
  <2>4. /\ line' \in Text /\ Len(line') < LineCapacity
        /\ \A i \in 1 .. Len(line') : line'[i] \notin Terminator
    BY <2>1, <2>2, LineGrows DEF Buffers
  <2> QED BY <2>1, <2>3, <2>4 DEF Buffers
<1> QED BY <1>1, <1>2, <1>3, <1>4, <1>5, <1>6, Moves

-----------------------------------------------------------------------------
(* The age *)

LEMMA AgeFields ==
    ASSUME NEW m \in Nat, NEW r \in 0 .. ReadsPerTimeout + 1, NEW o \in BOOLEAN
    PROVE  /\ Age(m, r, o) \in AgeType
           /\ Age(m, r, o).marked = m
           /\ m = 0 => Age(m, r, o).reads = 0 /\ ~Age(m, r, o).outage
           /\ m > 0 => Age(m, r, o).reads = r
           /\ m > 0 => Age(m, r, o).outage = o
<1>1. 0 \in 0 .. ReadsPerTimeout + 1
  BY Capacities
<1> DEFINE reads  == IF m = 0 THEN 0 ELSE r
           outage == m > 0 /\ o
<1>2. Age(m, r, o) = [marked |-> m, reads |-> reads, outage |-> outage]
  BY DEF Age
<1>3. reads \in 0 .. ReadsPerTimeout + 1 /\ (m = 0 => reads = 0) /\ (m > 0 => reads = r)
  BY <1>1
<1>4. outage \in BOOLEAN /\ (m = 0 => ~(m > 0))
  OBVIOUS
<1>5. m > 0 => outage = o
  BY Zenon
<1> HIDE DEF reads
<1>6. m = 0 => ~outage
  BY <1>4, Zenon
<1> HIDE DEF outage
<1> QED BY <1>2, <1>3, <1>4, <1>5, <1>6 DEF AgeType

LEMMA AgeInit == Init => AgeInv
<1>1. Init => age = Age(0, 0, FALSE)
  BY Zenon DEF Init
<1>2. /\ Age(0, 0, FALSE) \in AgeType /\ Age(0, 0, FALSE).marked = 0
      /\ Age(0, 0, FALSE).reads = 0 /\ ~Age(0, 0, FALSE).outage
  <2>1. 0 \in 0 .. ReadsPerTimeout + 1 /\ 0 \in Nat /\ FALSE \in BOOLEAN /\ 0 = 0
    BY Capacities
  <2> QED BY <2>1, AgeFields, Zenon
<1> SUFFICES ASSUME Init PROVE AgeInv
  OBVIOUS
<1>3. Len(chunk) \in Nat /\ Len(rx) \in Nat
  BY BuffersInit, TextFacts DEF Buffers
<1> DEFINE a == Age(0, 0, FALSE)
<1>4. age = a /\ a \in AgeType /\ a.marked = 0 /\ a.reads = 0 /\ ~a.outage
  BY <1>1, <1>2
<1> HIDE DEF a
<1>5. 0 <= Len(chunk) + Len(rx) /\ ~(0 > 0)
  BY <1>3
<1> QED BY <1>4, <1>5, Zenon DEF AgeInv

\* Fewer bytes watched, or more bytes behind them, disturb nothing.
LEMMA AgeKept ==
    ASSUME AgeInv, Buffers, Buffers', NEW m \in Nat,
           age' = Age(m, age.reads, age.outage) \/ (age' = age /\ m = age.marked),
           m <= age.marked, m <= Len(chunk') + Len(rx'), link_up' = link_up,
           m = 0 \/ Len(chunk) <= Len(chunk') \/ age.marked - Len(chunk) >= m - Len(chunk')
    PROVE  AgeInv'
<1>1. /\ age \in AgeType /\ age.marked \in Nat /\ age.reads \in 0 .. ReadsPerTimeout + 1
      /\ age.outage \in BOOLEAN
      /\ age.marked = 0 => age.reads = 0 /\ ~age.outage
  BY DEF AgeInv, AgeType
<1>2. /\ Len(chunk) \in Nat /\ Len(chunk') \in Nat /\ Len(rx) \in Nat /\ Len(rx') \in Nat
      /\ age.reads \in Nat /\ ReadsPerTimeout \in Nat /\ RxCapacity \in Nat
      /\ age.reads * ChunkSize \in Nat
  <2>1. \A t \in Text : Len(t) \in Nat
    BY TextFacts
  <2>2. rx \in Text /\ chunk \in Text /\ rx' \in Text /\ chunk' \in Text
    BY DEF Buffers
  <2>3. age.reads \in Nat /\ ReadsPerTimeout \in Nat /\ RxCapacity \in Nat /\ ChunkSize \in Nat
    BY <1>1, Capacities
  <2> QED BY <2>1, <2>2, <2>3
<1>3. /\ age' \in AgeType /\ age'.marked = m
      /\ m = 0 => age'.reads = 0 /\ ~age'.outage
      /\ m > 0 => age'.reads = age.reads
      /\ m > 0 => age'.outage = age.outage
  BY <1>1, AgeFields
<1>4. ASSUME m > 0, ~age'.outage
      PROVE  /\ link_up' /\ age'.reads <= ReadsPerTimeout
             /\ \/ m <= Len(chunk')
                \/ m - Len(chunk') + age'.reads * ChunkSize <= RxCapacity
  <2>1. age.marked > 0 /\ ~age.outage /\ age'.reads = age.reads
    BY <1>1, <1>3, <1>4
  <2>2. /\ link_up /\ age.reads <= ReadsPerTimeout
        /\ \/ age.marked <= Len(chunk)
           \/ age.marked - Len(chunk) + age.reads * ChunkSize <= RxCapacity
    BY <2>1 DEF AgeInv
  <2> DEFINE p == age.reads * ChunkSize
  <2>3. age'.reads * ChunkSize = p
    BY <2>1
  <2>4. p \in Nat
    BY <1>2
  <2> HIDE DEF p
  <2>5. age.marked <= Len(chunk) \/ age.marked - Len(chunk) + p <= RxCapacity
    BY <2>2 DEF p
  <2>6. m <= Len(chunk') \/ m - Len(chunk') + p <= RxCapacity
    <3> DEFINE c == Len(chunk)
               d == Len(chunk')
               k == age.marked
    <3>1. c \in Nat /\ d \in Nat /\ k \in Nat /\ m \in Nat /\ RxCapacity \in Nat
      BY <1>1, <1>2
    <3>2. /\ m <= k
          /\ m = 0 \/ c <= d \/ k - c >= m - d
          /\ k <= c \/ k - c + p <= RxCapacity
      BY <1>2, <2>5, Zenon
    <3> HIDE DEF c, d, k
    <3>3. m <= d \/ m - d + p <= RxCapacity
      BY <1>4, <2>4, <3>1, <3>2
    <3> QED BY <3>3 DEF d
  <2> QED BY <2>1, <2>2, <2>3, <2>6
<1> QED BY <1>2, <1>3, <1>4 DEF AgeInv

\* A chunk at a time, the receive buffer is read out within the timeout.
LEMMA AgeRead == ASSUME AgeInv, Buffers, Buffers', ReadLink PROVE AgeInv'
<1> DEFINE m == age.marked
           r == age.reads
           s == Min({r + 1, ReadsPerTimeout + 1})
<1>1. /\ m \in Nat /\ r \in Nat /\ r <= ReadsPerTimeout + 1 /\ age.outage \in BOOLEAN
      /\ ReadsPerTimeout \in Nat /\ ChunkSize \in Nat /\ RxCapacity \in Nat
      /\ RxCapacity <= ReadsPerTimeout * ChunkSize
  BY Capacities DEF AgeInv, AgeType
<1>2. s = (IF r <= ReadsPerTimeout THEN r + 1 ELSE ReadsPerTimeout + 1)
  <2>1. Min({r + 1, ReadsPerTimeout + 1}) =
           IF r + 1 <= ReadsPerTimeout + 1 THEN r + 1 ELSE ReadsPerTimeout + 1
    BY <1>1, MinOfTwo
  <2> QED BY <1>1, <2>1
<1>3. /\ chunk = <<>> /\ Len(chunk) = 0
      /\ age' = Age(m, s, age.outage) /\ link_up' = link_up
  BY DEF ReadLink
<1> HIDE DEF s
<1>4. s \in 0 .. ReadsPerTimeout + 1
  BY <1>1, <1>2
<1>5. /\ age' \in AgeType /\ age'.marked = m
      /\ m = 0 => age'.reads = 0 /\ ~age'.outage
      /\ m > 0 => age'.reads = s
      /\ m > 0 => age'.outage = age.outage
  BY <1>1, <1>3, <1>4, AgeFields
<1>6. /\ Count \in Nat /\ Count <= ChunkSize /\ Count <= Len(rx)
      /\ link_up => Count = ChunkSize \/ Count = Len(rx)
      /\ Len(chunk') = Count /\ Len(rx') = Len(rx) - Count
      /\ Len(rx) \in Nat /\ m <= 0 + Len(rx)
  <2>1. Len(rx) \in Nat /\ m <= 0 + Len(rx)
    BY <1>3, TextFacts DEF AgeInv, Buffers
  <2> QED BY <2>1, Taken
<1>7. m <= Len(chunk') + Len(rx')
  BY <1>1, <1>6
<1>8. ASSUME m > 0, ~age'.outage
      PROVE  /\ link_up' /\ age'.reads <= ReadsPerTimeout
             /\ \/ m <= Len(chunk')
                \/ m - Len(chunk') + age'.reads * ChunkSize <= RxCapacity
  <2>1. ~age.outage /\ age'.reads = s
    BY <1>5, <1>8
  <2>2. /\ link_up /\ r <= ReadsPerTimeout
        /\ m <= 0 \/ m - 0 + r * ChunkSize <= RxCapacity
    BY <1>3, <1>8, <2>1 DEF AgeInv
  <2>3. m + r * ChunkSize <= RxCapacity
    <3>1. r * ChunkSize \in Nat
      BY <1>1
    <3> QED BY <1>1, <1>8, <2>2, <3>1
  <2>4. r # ReadsPerTimeout
    <3> SUFFICES ASSUME r = ReadsPerTimeout PROVE FALSE
      OBVIOUS
    <3> DEFINE p == ReadsPerTimeout * ChunkSize
    <3>1. p \in Nat /\ m + p <= RxCapacity /\ RxCapacity <= p
      BY <1>1, <2>3
    <3> HIDE DEF p
    <3> QED BY <1>1, <1>8, <3>1
  <2>5. s = r + 1 /\ s <= ReadsPerTimeout
    BY <1>1, <1>2, <2>2, <2>4
  <2> DEFINE p == r * ChunkSize
             q == s * ChunkSize
  <2>6. p \in Nat /\ q = p + ChunkSize /\ m + p <= RxCapacity
    <3>1. \A x, c \in Nat : x * c \in Nat /\ (x + 1) * c = x * c + c
      OBVIOUS
    <3>2. r \in Nat /\ ChunkSize \in Nat
      BY <1>1
    <3>3. (r + 1) * ChunkSize = r * ChunkSize + ChunkSize /\ r * ChunkSize \in Nat
      BY <3>1, <3>2
    <3> QED BY <2>3, <2>5, <3>3, Zenon
  <2> HIDE DEF p, q
  <2>7. m <= Count \/ m - Count + q <= RxCapacity
    <3>1. \A c, n \in Nat : (c = ChunkSize \/ c = n) /\ m <= 0 + n
                               => m <= c \/ m - c + q <= RxCapacity
      BY <1>1, <2>6
    <3> QED BY <1>6, <2>2, <3>1, Zenon
  <2> QED BY <1>3, <1>6, <2>1, <2>2, <2>5, <2>7 DEF q
<1> QED BY <1>5, <1>7, <1>8 DEF AgeInv

LEMMA AgeStep == AgeInv /\ Buffers /\ [Next]_vars => AgeInv'
<1> SUFFICES ASSUME AgeInv, Buffers, [Next]_vars PROVE AgeInv'
  OBVIOUS
<1>0. /\ Buffers' /\ rx \in Text /\ rx' \in Text /\ chunk \in Text
      /\ Len(rx) \in Nat /\ Len(chunk) \in Nat /\ Len(rx') \in Nat /\ Len(chunk') \in Nat
      /\ Len(rx) <= RxCapacity /\ RxCapacity \in Nat /\ link_up \in BOOLEAN
      /\ age.marked \in Nat /\ age.reads \in 0 .. ReadsPerTimeout + 1
      /\ age.outage \in BOOLEAN /\ age.marked <= Len(chunk) + Len(rx)
  <2>1. Buffers'
    BY BuffersStep
  <2>2. \A t \in Text : Len(t) \in Nat
    BY TextFacts
  <2>3. /\ rx \in Text /\ rx' \in Text /\ chunk \in Text /\ chunk' \in Text
        /\ Len(rx) <= RxCapacity /\ link_up \in BOOLEAN
    BY <2>1 DEF Buffers
  <2>4. /\ age.marked \in Nat /\ age.reads \in 0 .. ReadsPerTimeout + 1
        /\ age.outage \in BOOLEAN /\ age.marked <= Len(chunk) + Len(rx)
    BY DEF AgeInv, AgeType
  <2> QED BY <2>1, <2>2, <2>3, <2>4, Capacities
<1>1. ASSUME NEW request \in HostLines, Send(request) PROVE AgeInv'
  <2>1. rx' = rx \o request.text /\ UNCHANGED <<link_up, chunk, age>>
    BY <1>1 DEF Send
  <2>2. Len(rx') >= Len(rx)
    <3>1. request.text \in Text /\ Len(request.text) \in Nat
      BY Capacities, TextFacts
    <3> QED BY <1>0, <2>1, <3>1, Joined
  <2> DEFINE m == age.marked
  <2>3. /\ m \in Nat /\ age' = age /\ m = age.marked /\ m <= age.marked
        /\ m <= Len(chunk') + Len(rx') /\ link_up' = link_up /\ Len(chunk) <= Len(chunk')
    BY <1>0, <2>1, <2>2
  <2> HIDE DEF m
  <2> QED BY <1>0, <2>3, AgeKept
<1>2. CASE LoseByte
  <2>1. PICK i \in DOMAIN rx :
           /\ rx' = RemoveAt(rx, i)
           /\ age' = IF Len(chunk) + i > age.marked THEN age
                     ELSE Age(age.marked - 1, age.reads, age.outage)
    BY <1>2 DEF LoseByte
  <2>2. UNCHANGED <<link_up, chunk>>
    BY <1>2 DEF LoseByte
  <2>3. i \in 1 .. Len(rx) /\ Len(rx') = Len(rx) - 1
    BY <1>0, <2>1, Removed, TextFacts
  <2> DEFINE m == IF Len(chunk) + i > age.marked THEN age.marked ELSE age.marked - 1
  <2>4. /\ m \in Nat /\ m <= age.marked
        /\ m <= Len(chunk') + Len(rx') /\ link_up' = link_up /\ Len(chunk) <= Len(chunk')
    BY <1>0, <2>2, <2>3
  <2>5. age' = Age(m, age.reads, age.outage) \/ (age' = age /\ m = age.marked)
    BY <2>1
  <2> HIDE DEF m
  <2> QED BY <1>0, <2>4, <2>5, AgeKept
<1>3. CASE ToggleLink
  <2>1. age' = Age(age.marked, age.reads, TRUE) /\ UNCHANGED <<rx, chunk>>
    BY <1>3, Zenon DEF ToggleLink
  <2>2. /\ age' \in AgeType /\ age'.marked = age.marked
        /\ age.marked = 0 => age'.reads = 0 /\ ~age'.outage
        /\ age.marked > 0 => age'.outage = TRUE
    BY <1>0, <2>1, AgeFields
  <2> QED BY <1>0, <2>1, <2>2 DEF AgeInv
<1>4. CASE Mark
  <2>1. age' = Age(Len(chunk \o rx), 0, ~link_up) /\ UNCHANGED <<rx, chunk, link_up>>
    BY <1>4, Zenon DEF Mark
  <2> DEFINE m == Len(chunk \o rx)
             o == ~link_up
  <2>2. m = Len(chunk) + Len(rx) /\ m \in Nat /\ o \in BOOLEAN /\ 0 \in 0 .. ReadsPerTimeout + 1
    BY <1>0, Joined, Capacities
  <2> HIDE DEF m, o
  <2>3. age' = Age(m, 0, o)
    BY <2>1 DEF m, o
  <2>4. /\ age' \in AgeType /\ age'.marked = m
        /\ m = 0 => age'.reads = 0 /\ ~age'.outage
        /\ m > 0 => age'.reads = 0
        /\ m > 0 => age'.outage = o
    BY <2>2, <2>3, AgeFields
  <2>5. m > 0 /\ ~age'.outage => link_up' /\ age'.reads = 0
    BY <2>1, <2>4, Zenon DEF o
  <2>6. 0 <= ReadsPerTimeout /\ 0 * ChunkSize = 0
    BY Capacities
  <2> QED BY <1>0, <2>1, <2>2, <2>4, <2>5, <2>6 DEF AgeInv
<1>5. CASE ReadLink
  BY <1>0, <1>5, AgeRead
<1>6. CASE TakeCharacter
  <2>1. /\ chunk # <<>> /\ chunk' = Tail(chunk) /\ UNCHANGED <<rx, link_up>>
        /\ age' = Age(Max({age.marked - 1, 0}), age.reads, age.outage)
    BY <1>6 DEF TakeCharacter
  <2>2. Len(chunk') = Len(chunk) - 1
    BY <1>0, <2>1, Shortened
  <2> DEFINE m == Max({age.marked - 1, 0})
  <2>3. m = IF age.marked - 1 <= 0 THEN 0 ELSE age.marked - 1
    BY <1>0, MaxOfTwo
  <2> HIDE DEF m
  <2>4. /\ m \in Nat /\ m <= age.marked /\ m <= Len(chunk') + Len(rx')
        /\ m = 0 \/ age.marked - Len(chunk) >= m - Len(chunk')
    BY <1>0, <2>1, <2>2, <2>3
  <2>5. age' = Age(m, age.reads, age.outage)
    BY <2>1 DEF m
  <2> QED BY <1>0, <2>1, <2>4, <2>5, AgeKept
<1>7. CASE UNCHANGED vars
  BY <1>7 DEF vars, AgeInv
<1> QED BY <1>1, <1>2, <1>3, <1>4, <1>5, <1>6, <1>7, Moves

LEMMA UplinkInvariant == Spec => [](Buffers /\ AgeInv)
<1>1. Init => Buffers /\ AgeInv
  BY BuffersInit, AgeInit
<1>2. Buffers /\ AgeInv /\ [Next]_vars => (Buffers /\ AgeInv)'
  BY BuffersStep, AgeStep
<1> QED BY <1>1, <1>2, PTL DEF Spec

\* Every write is inside line_, the chunk and the receive buffer, no line end is
\* taken for a character of a line, and the bytes watched are in flight
\* (robot.cpp:239-262).
THEOREM TypeCorrect == Spec => []TypeOK
<1>1. Buffers /\ AgeInv => TypeOK
  <2> SUFFICES ASSUME Buffers, AgeInv PROVE TypeOK
    OBVIOUS
  <2>1. ToSet(line) \cap Terminator = {}
    BY TextFacts DEF Buffers, ToSet
  <2>2. age.marked \in 0 .. Len(chunk \o rx)
    BY TextFacts, Joined DEF Buffers, AgeInv, AgeType
  <2> QED BY <2>1, <2>2 DEF TypeOK, Buffers, AgeInv, AgeType
<1> QED BY <1>1, UplinkInvariant, PTL

\* A command older than the command timeout is posted as a new one only after the
\* link has been down: a full receive buffer is read out within the timeout
\* (robot.cpp:59-62, 244).
THEOREM OnlyOutagesAge == Spec => StaleOnlyAfterOutage
<1>1. AgeInv /\ [Next]_vars => [TakeCharacter /\ StampedLate => age.outage]_vars
  <2> SUFFICES ASSUME AgeInv, age.marked > 0, age.reads > ReadsPerTimeout
               PROVE  age.outage
    BY DEF StampedLate
  <2>1. age.reads \in Int /\ ReadsPerTimeout \in Int
    BY Capacities DEF AgeInv, AgeType
  <2> QED BY <2>1 DEF AgeInv
<1> QED BY <1>1, UplinkInvariant, PTL DEF Spec, StaleOnlyAfterOutage

-----------------------------------------------------------------------------
(* What comes of the bytes in flight *)

\* Induction over the numbers, for a set of them.
LEMMA AllNumbers ==
    ASSUME NEW S, 0 \in S, \A n \in Nat : n \in S => n + 1 \in S
    PROVE  Nat \subseteq S
<1> SUFFICES ASSUME Nat \ S # {} PROVE FALSE
  OBVIOUS
<1> DEFINE Missing == {0 .. n : n \in Nat \ S}
<1>1. Missing \subseteq FiniteSubsetsOf(Nat) /\ Missing # {}
  <2>1. \A n \in Nat : 0 .. n \in SUBSET Nat /\ IsFiniteSet(0 .. n)
    BY FS_Interval
  <2> QED BY <2>1 DEF FiniteSubsetsOf
<1>2. PICK m \in Missing : \A k \in Missing : ~(<<k, m>> \in StrictSubsetOrdering(Nat))
  <2> HIDE DEF Missing
  <2> QED BY <1>1, FS_StrictSubsetOrderingWellFounded, WFMin
<1>3. PICK n \in Nat \ S : m = 0 .. n
  BY <1>2
<1>4. n - 1 \in Nat \ S
  <2>1. n # 0
    BY <1>3
  <2>2. n - 1 \in Nat /\ n = (n - 1) + 1
    BY <1>3, <2>1
  <2> QED BY <1>3, <2>2
<1>5. 0 .. n - 1 \in Missing
  BY <1>4
<1>6. <<0 .. n - 1, 0 .. n>> \in StrictSubsetOrdering(Nat)
  <2>1. n \in 0 .. n /\ n \notin 0 .. n - 1 /\ 0 .. n - 1 \subseteq 0 .. n
    BY <1>3
  <2>2. 0 .. n - 1 \subseteq Nat /\ 0 .. n \subseteq Nat
    BY <1>3
  <2> QED BY <2>1, <2>2 DEF StrictSubsetOrdering
<1> QED BY <1>2, <1>3, <1>5, <1>6

\* Induction over the texts, for a set of them.
LEMMA AllTexts ==
    ASSUME NEW S, <<>> \in S, \A t \in Text : t # <<>> /\ Tail(t) \in S => t \in S
    PROVE  Text \subseteq S
<1> DEFINE Lengths == {n \in Nat : \A t \in Text : Len(t) = n => t \in S}
<1>1. 0 \in Lengths
  BY TextFacts
<1>2. ASSUME NEW n \in Nat, n \in Lengths PROVE n + 1 \in Lengths
  <2>1. ASSUME NEW t \in Text, Len(t) = n + 1 PROVE t \in S
    <3>1. t # <<>>
      BY <2>1
    <3>2. Tail(t) \in Text /\ Len(Tail(t)) = n
      BY <2>1, <3>1, Shortened
    <3> QED BY <1>2, <3>1, <3>2
  <2> QED BY <2>1
<1> HIDE DEF Lengths
<1>3. Nat \subseteq Lengths
  BY <1>1, <1>2, AllNumbers
<1> QED BY <1>3, TextFacts DEF Lengths

\* What no bytes do.
Untouched == [l \in Text |-> [line |-> l, commands |-> <<>>]]

UpTo(n) == {t \in Text : Len(t) <= n}

\* Reading's equation, for texts of at most n characters.
Reads(g, n) ==
    g = [bytes \in UpTo(n) |->
            IF bytes = <<>> THEN Untouched ELSE Before(Head(bytes), g[Tail(bytes)])]

LEMMA ReadsAt ==
    ASSUME NEW n \in Nat, NEW g, Reads(g, n), NEW t \in UpTo(n)
    PROVE  /\ g[t] = IF t = <<>> THEN Untouched ELSE Before(Head(t), g[Tail(t)])
           /\ t # <<>> => Tail(t) \in UpTo(n) /\ Tail(t) \in UpTo(Len(t) - 1)
<1> DEFINE h == [bytes \in UpTo(n) |->
            IF bytes = <<>> THEN Untouched ELSE Before(Head(bytes), g[Tail(bytes)])]
<1>1. g = h
  BY DEF Reads
<1>2. h[t] = IF t = <<>> THEN Untouched ELSE Before(Head(t), g[Tail(t)])
  OBVIOUS
<1> HIDE DEF h
<1>3. g[t] = h[t]
  BY <1>1
<1> QED BY <1>2, <1>3, Shortened, TextFacts DEF UpTo

\* Two that satisfy it agree where both do.
LEMMA ReadsAgree ==
    ASSUME NEW m \in Nat, NEW n \in Nat, NEW g, NEW h, Reads(g, m), Reads(h, n)
    PROVE  \A t \in UpTo(m) \cap UpTo(n) : g[t] = h[t]
<1> DEFINE Same == {t \in Text : t \in UpTo(m) \cap UpTo(n) => g[t] = h[t]}
<1>1. <<>> \in Same
  <2>1. <<>> \in Text /\ Len(<<>>) = 0
    BY DEF Text
  <2>2. <<>> \in UpTo(m) \cap UpTo(n)
    BY <2>1 DEF UpTo
  <2> QED BY <2>1, <2>2, ReadsAt
<1>2. ASSUME NEW t \in Text, t # <<>>, Tail(t) \in Same PROVE t \in Same
  <2> SUFFICES ASSUME t \in UpTo(m) \cap UpTo(n) PROVE g[t] = h[t]
    OBVIOUS
  <2>1. Tail(t) \in UpTo(m) \cap UpTo(n)
    BY <1>2, ReadsAt
  <2>2. g[Tail(t)] = h[Tail(t)]
    BY <1>2, <2>1
  <2> QED BY <1>2, <2>2, ReadsAt
<1> HIDE DEF Same
<1>3. Text \subseteq Same
  BY <1>1, <1>2, AllTexts
<1> QED BY <1>3 DEF Same, UpTo

LEMMA ReadsExist == \A n \in Nat : \E g : Reads(g, n)
<1> DEFINE Known == {n \in Nat : \E g : Reads(g, n)}
<1>1. 0 \in Known
  <2> DEFINE g == [bytes \in UpTo(0) |-> Untouched]
  <2>1. \A t \in UpTo(0) : t = <<>>
    BY TextFacts DEF UpTo
  <2> DEFINE h == [bytes \in UpTo(0) |->
                     IF bytes = <<>> THEN Untouched ELSE Before(Head(bytes), g[Tail(bytes)])]
  <2>2. \A t \in UpTo(0) : g[t] = h[t]
    <3> SUFFICES ASSUME NEW t \in UpTo(0) PROVE g[t] = h[t]
      OBVIOUS
    <3>1. t = <<>>
      BY <2>1
    <3> QED BY <3>1
  <2>3. g = h
    BY <2>2
  <2> HIDE DEF g
  <2>4. Reads(g, 0)
    BY <2>3 DEF Reads
  <2> QED BY <2>4
<1>2. ASSUME NEW n \in Nat, n \in Known PROVE n + 1 \in Known
  <2>1. PICK g : Reads(g, n)
    BY <1>2
  <2> DEFINE h == [bytes \in UpTo(n + 1) |->
                     IF bytes = <<>> THEN Untouched ELSE Before(Head(bytes), g[Tail(bytes)])]
  <2>2. ASSUME NEW t \in UpTo(n + 1), t # <<>> PROVE h[Tail(t)] = g[Tail(t)]
    <3>1. Tail(t) \in UpTo(n) /\ Tail(t) \in UpTo(n + 1)
      BY <2>2, Shortened, TextFacts DEF UpTo
    <3>2. \A u \in UpTo(n) :
             g[u] = IF u = <<>> THEN Untouched ELSE Before(Head(u), g[Tail(u)])
      BY <2>1, ReadsAt
    <3>3. \A u \in UpTo(n + 1) :
             h[u] = IF u = <<>> THEN Untouched ELSE Before(Head(u), g[Tail(u)])
      OBVIOUS
    <3> HIDE DEF h
    <3> QED BY <3>1, <3>2, <3>3
  <2>3. Reads(h, n + 1)
    <3> DEFINE k == [bytes \in UpTo(n + 1) |->
                     IF bytes = <<>> THEN Untouched ELSE Before(Head(bytes), h[Tail(bytes)])]
    <3>1. h = k
      <4>1. \A t \in UpTo(n + 1) : h[t] = k[t]
        <5> SUFFICES ASSUME NEW t \in UpTo(n + 1) PROVE h[t] = k[t]
          OBVIOUS
        <5>1. CASE t = <<>>
          BY <5>1
        <5>2. CASE t # <<>>
          <6>1. h[t] = Before(Head(t), g[Tail(t)])
            BY <5>2
          <6>2. h[Tail(t)] = g[Tail(t)]
            BY <2>2, <5>2
          <6> HIDE DEF h
          <6>3. k[t] = Before(Head(t), h[Tail(t)])
            BY <5>2
          <6> QED BY <6>1, <6>2, <6>3
        <5> QED BY <5>1, <5>2
      <4> QED BY <4>1
    <3> HIDE DEF h
    <3> QED BY <3>1 DEF Reads
  <2> QED BY <2>3
<1> HIDE DEF Known
<1>3. Nat \subseteq Known
  BY <1>1, <1>2, AllNumbers
<1> QED BY <1>3 DEF Known

\* Reading satisfies its equation.
LEMMA ReadingIs ==
    Reading = [bytes \in Text |-> IF bytes = <<>> THEN Untouched
                                  ELSE Before(Head(bytes), Reading[Tail(bytes)])]
<1> DEFINE Of(n) == CHOOSE g : Reads(g, n)
           f == [bytes \in Text |-> Of(Len(bytes))[bytes]]
           e(g) == [bytes \in Text |-> IF bytes = <<>> THEN Untouched
                                       ELSE Before(Head(bytes), g[Tail(bytes)])]
<1>1. \A n \in Nat : Reads(Of(n), n)
  BY ReadsExist
<1> HIDE DEF Of
<1>2. ASSUME NEW t \in Text PROVE f[t] = e(f)[t]
  <2> DEFINE n == Len(t)
  <2>1. n \in Nat /\ t \in UpTo(n)
    BY TextFacts DEF UpTo
  <2>2. f[t] = Of(n)[t]
    OBVIOUS
  <2>3. Of(n)[t] = IF t = <<>> THEN Untouched ELSE Before(Head(t), Of(n)[Tail(t)])
    BY <1>1, <2>1, ReadsAt
  <2>4. CASE t = <<>>
    BY <2>2, <2>3, <2>4
  <2>5. CASE t # <<>>
    <3>1. /\ Tail(t) \in Text /\ Len(Tail(t)) \in Nat /\ Len(Tail(t)) = n - 1
          /\ Tail(t) \in UpTo(Len(Tail(t))) \cap UpTo(n)
      BY <2>1, <2>5, Shortened, TextFacts DEF UpTo
    <3>2. Of(Len(Tail(t)))[Tail(t)] = Of(n)[Tail(t)]
      BY <1>1, <2>1, <3>1, ReadsAgree
    <3>3. f[Tail(t)] = Of(Len(Tail(t)))[Tail(t)]
      BY <3>1
    <3>4. f[t] = Before(Head(t), f[Tail(t)])
      BY <2>2, <2>3, <2>5, <3>2, <3>3
    <3> HIDE DEF f
    <3> QED BY <2>5, <3>4
  <2> QED BY <2>4, <2>5
<1>3. f = e(f)
  BY <1>2
<1> HIDE DEF f
<1>4. \E g : g = e(g)
  BY <1>3
<1>5. Reading = CHOOSE g : g = e(g)
  BY DEF Reading, Untouched
<1> QED BY <1>4, <1>5

\* The commands there are, and what can come of bytes.
Commands == {CHOOSE x \in Parse(l) : TRUE : l \in Text}
Outcome  == [line : Text, commands : Seq(Commands)]

LEMMA Posts ==
    ASSUME NEW l \in Text, NEW c
    PROVE  /\ PostedBy(l, c) \in Seq(Commands)
           /\ Len(PostedBy(l, c)) \in 0 .. 1
           /\ c \notin Terminator => PostedBy(l, c) = <<>>
<1>1. <<>> \in Seq(Commands) /\ Len(<<>>) = 0
  OBVIOUS
<1>2. CASE c \in Terminator /\ Parse(l) # {}
  <2> DEFINE x == CHOOSE x \in Parse(l) : TRUE
  <2>1. PostedBy(l, c) = <<x>>
    BY <1>2 DEF PostedBy, OneOrNone
  <2>2. x \in Commands
    BY DEF Commands
  <2> HIDE DEF x
  <2>3. <<x>> \in Seq(Commands) /\ Len(<<x>>) = 1
    BY <2>2
  <2> QED BY <1>2, <2>1, <2>3
<1>3. CASE ~(c \in Terminator /\ Parse(l) # {})
  <2>1. PostedBy(l, c) = <<>>
    BY <1>3 DEF PostedBy, OneOrNone
  <2> QED BY <1>1, <2>1
<1> QED BY <1>2, <1>3

LEMMA NextLine ==
    ASSUME NEW l \in Text, NEW c \in STRING
    PROVE  AfterCharacter(l, c) \in Text
<1>1. Append(l, c) \in Text
  BY Longer
<1>2. <<>> \in Text
  BY DEF Text
<1> QED BY <1>1, <1>2 DEF AfterCharacter

LEMMA ReadNothing ==
    /\ <<>> \in Text
    /\ Reading[<<>>] = Untouched
    /\ \A l \in Text : Reading[<<>>][l].line = l /\ Reading[<<>>][l].commands = <<>>
<1> DEFINE e == [bytes \in Text |-> IF bytes = <<>> THEN Untouched
                                    ELSE Before(Head(bytes), Reading[Tail(bytes)])]
<1>1. <<>> \in Text
  BY DEF Text
<1>2. e[<<>>] = Untouched
  BY <1>1
<1>3. Reading = e
  BY ReadingIs
<1> HIDE DEF e
<1>4. Reading[<<>>] = Untouched
  BY <1>2, <1>3
<1> QED BY <1>1, <1>4 DEF Untouched

LEMMA ReadSome ==
    ASSUME NEW b \in Text, b # <<>>, NEW l \in Text
    PROVE  Reading[b][l] = [Reading[Tail(b)][AfterCharacter(l, Head(b))]
                              EXCEPT !.commands = PostedBy(l, Head(b)) \o @]
<1> DEFINE e == [bytes \in Text |-> IF bytes = <<>> THEN Untouched
                                    ELSE Before(Head(bytes), Reading[Tail(bytes)])]
<1>1. e[b] = Before(Head(b), Reading[Tail(b)])
  OBVIOUS
<1>2. Reading = e
  BY ReadingIs
<1> HIDE DEF e
<1>3. Reading[b] = Before(Head(b), Reading[Tail(b)])
  BY <1>1, <1>2
<1> QED BY <1>3 DEF Before

\* The first of some bytes.
LEMMA FirstByte ==
    ASSUME NEW b \in Text, b # <<>>, NEW l \in Text,
           Reading[Tail(b)][AfterCharacter(l, Head(b))] \in Outcome
    PROVE  /\ Reading[b][l] \in Outcome
           /\ Reading[b][l].line = Reading[Tail(b)][AfterCharacter(l, Head(b))].line
           /\ Reading[b][l].commands = PostedBy(l, Head(b))
                \o Reading[Tail(b)][AfterCharacter(l, Head(b))].commands
<1> DEFINE r == Reading[Tail(b)][AfterCharacter(l, Head(b))]
           p == PostedBy(l, Head(b))
<1>1. Reading[b][l] = [r EXCEPT !.commands = p \o @]
  BY ReadSome
<1>2. p \in Seq(Commands)
  BY Posts
<1> HIDE DEF r, p
<1>3. r \in Outcome
  BY DEF r
<1>4. p \o r.commands \in Seq(Commands)
  BY <1>2, <1>3, ConcatProperties DEF Outcome
<1>5. /\ [r EXCEPT !.commands = p \o @] \in Outcome
      /\ [r EXCEPT !.commands = p \o @].line = r.line
      /\ [r EXCEPT !.commands = p \o @].commands = p \o r.commands
  BY <1>3, <1>4 DEF Outcome
<1> QED BY <1>1, <1>5 DEF r, p

LEMMA Outcomes == \A b \in Text : \A l \in Text : Reading[b][l] \in Outcome
<1> DEFINE S == {b \in Text : \A l \in Text : Reading[b][l] \in Outcome}
<1>1. <<>> \in S
  <2>1. <<>> \in Text /\ <<>> \in Seq(Commands)
    BY DEF Text
  <2>2. \A l \in Text : [line |-> l, commands |-> <<>>] \in Outcome
    BY <2>1 DEF Outcome
  <2>3. Reading[<<>>] = Untouched
    BY ReadNothing
  <2> QED BY <2>1, <2>2, <2>3 DEF Untouched
<1>2. ASSUME NEW b \in Text, b # <<>>, Tail(b) \in S PROVE b \in S
  <2>1. \A l \in Text : AfterCharacter(l, Head(b)) \in Text
    BY <1>2, Shortened, NextLine
  <2>2. \A l \in Text : Reading[Tail(b)][AfterCharacter(l, Head(b))] \in Outcome
    BY <1>2, <2>1
  <2> QED BY <1>2, <2>2, FirstByte
<1> HIDE DEF S
<1>3. Text \subseteq S
  BY <1>1, <1>2, AllTexts
<1> QED BY <1>3 DEF S

\* What comes of the first of some bytes, and of the others after it.
LEMMA ReadFirst ==
    ASSUME NEW b \in Text, b # <<>>, NEW l \in Text
    PROVE  /\ AfterCharacter(l, Head(b)) \in Text
           /\ Reading[b][l].line = Reading[Tail(b)][AfterCharacter(l, Head(b))].line
           /\ Reading[b][l].commands = PostedBy(l, Head(b))
                \o Reading[Tail(b)][AfterCharacter(l, Head(b))].commands
<1>1. AfterCharacter(l, Head(b)) \in Text /\ Tail(b) \in Text
  BY Shortened, NextLine
<1> QED BY <1>1, Outcomes, FirstByte

LEMMA OutcomeParts ==
    ASSUME NEW b \in Text, NEW l \in Text
    PROVE  Reading[b][l].line \in Text /\ Reading[b][l].commands \in Seq(Commands)
  BY Outcomes DEF Outcome

LEMMA JoinedFirst ==
    ASSUME NEW t \in Text, t # <<>>, NEW u \in Text
    PROVE  t \o u # <<>> /\ Head(t \o u) = Head(t) /\ Tail(t \o u) = Tail(t) \o u
<1>1. /\ t \o u \in Text /\ Len(t \o u) = Len(t) + Len(u) /\ Len(t) \in Nat \ {0} /\ Len(u) \in Nat
      /\ \A i \in 1 .. Len(t) + Len(u) :
            (t \o u)[i] = IF i <= Len(t) THEN t[i] ELSE u[i - Len(t)]
  BY TextFacts, ConcatProperties DEF Text
<1>2. t \o u # <<>>
  BY <1>1
<1>3. Head(t \o u) = Head(t)
  BY <1>1, <1>2, Shortened
<1>4. /\ Tail(t) \in Text /\ Len(Tail(t)) = Len(t) - 1
      /\ \A i \in 1 .. Len(t) - 1 : Tail(t)[i] = t[i + 1]
  BY Shortened
<1>5. /\ Tail(t) \o u \in Text /\ Len(Tail(t) \o u) = Len(t) - 1 + Len(u)
      /\ \A i \in 1 .. Len(t) - 1 + Len(u) :
            (Tail(t) \o u)[i] = IF i <= Len(t) - 1 THEN Tail(t)[i] ELSE u[i - (Len(t) - 1)]
  BY <1>4, ConcatProperties DEF Text
<1>6. /\ Tail(t \o u) \in Text /\ Len(Tail(t \o u)) = Len(t) + Len(u) - 1
      /\ \A i \in 1 .. Len(t) + Len(u) - 1 : Tail(t \o u)[i] = (t \o u)[i + 1]
  <2> DEFINE v == t \o u
  <2>1. v \in Text /\ v # <<>> /\ Len(v) = Len(t) + Len(u)
    BY <1>1, <1>2
  <2> HIDE DEF v
  <2>2. /\ Tail(v) \in Text /\ Len(Tail(v)) = Len(v) - 1
        /\ \A i \in 1 .. Len(v) - 1 : Tail(v)[i] = v[i + 1]
    BY <2>1, Shortened
  <2> QED BY <2>1, <2>2 DEF v
<1>7. ASSUME NEW i \in 1 .. Len(t) - 1 + Len(u)
      PROVE  Tail(t \o u)[i] = (Tail(t) \o u)[i]
  <2>1. i \in 1 .. Len(t) + Len(u) - 1 /\ i + 1 \in 1 .. Len(t) + Len(u)
    BY <1>1
  <2>2. Tail(t \o u)[i] = IF i + 1 <= Len(t) THEN t[i + 1] ELSE u[i + 1 - Len(t)]
    BY <1>1, <1>6, <2>1
  <2>3. CASE i + 1 <= Len(t)
    <3>1. i \in 1 .. Len(t) - 1 /\ i <= Len(t) - 1
      BY <1>1, <2>3
    <3> QED BY <1>4, <1>5, <2>2, <2>3, <3>1
  <2>4. CASE ~(i + 1 <= Len(t))
    <3>1. ~(i <= Len(t) - 1) /\ i + 1 - Len(t) = i - (Len(t) - 1)
      BY <1>1, <2>4
    <3> QED BY <1>5, <2>2, <2>4, <3>1
  <2> QED BY <2>3, <2>4
<1>8. Tail(t \o u) = Tail(t) \o u
  <2>1. Len(Tail(t \o u)) = Len(Tail(t) \o u) /\ Len(Tail(t \o u)) = Len(t) - 1 + Len(u)
    BY <1>1, <1>5, <1>6
  <2> QED BY <1>5, <1>6, <1>7, <2>1, SeqEqual DEF Text
<1> QED BY <1>2, <1>3, <1>8

\* Bytes in two parts: the second part finds the line the first one left.
LEMMA ReadBoth ==
    \A b \in Text, d \in Text : \A l \in Text :
       /\ Reading[b \o d][l].line = Reading[d][Reading[b][l].line].line
       /\ Reading[b \o d][l].commands =
             Reading[b][l].commands \o Reading[d][Reading[b][l].line].commands
<1> SUFFICES ASSUME NEW d \in Text
             PROVE  \A b \in Text : \A l \in Text :
                /\ Reading[b \o d][l].line = Reading[d][Reading[b][l].line].line
                /\ Reading[b \o d][l].commands =
                      Reading[b][l].commands \o Reading[d][Reading[b][l].line].commands
  OBVIOUS
<1> DEFINE S == {b \in Text : \A l \in Text :
                   /\ Reading[b \o d][l].line = Reading[d][Reading[b][l].line].line
                   /\ Reading[b \o d][l].commands =
                         Reading[b][l].commands \o Reading[d][Reading[b][l].line].commands}
<1>1. <<>> \in S
  <2>1. <<>> \in Text /\ <<>> \o d = d
    BY ConcatEmptySeq DEF Text
  <2>2. ASSUME NEW l \in Text
        PROVE  /\ Reading[<<>>][l].line = l
               /\ Reading[<<>>][l].commands \o Reading[d][l].commands = Reading[d][l].commands
    <3>1. Reading[<<>>][l].line = l /\ Reading[<<>>][l].commands = <<>>
      BY ReadNothing
    <3>2. Reading[d][l].commands \in Seq(Commands)
      BY OutcomeParts
    <3> QED BY <3>1, <3>2, ConcatEmptySeq
  <2> QED BY <2>1, <2>2
<1>2. ASSUME NEW b \in Text, b # <<>>, Tail(b) \in S PROVE b \in S
  <2> SUFFICES ASSUME NEW l \in Text
               PROVE  /\ Reading[b \o d][l].line = Reading[d][Reading[b][l].line].line
                      /\ Reading[b \o d][l].commands =
                            Reading[b][l].commands \o Reading[d][Reading[b][l].line].commands
    OBVIOUS
  <2> DEFINE k == AfterCharacter(l, Head(b))
             p == PostedBy(l, Head(b))
  <2>1. b \o d \in Text /\ b \o d # <<>> /\ Head(b \o d) = Head(b) /\ Tail(b \o d) = Tail(b) \o d
    BY <1>2, Joined, JoinedFirst
  <2>2. /\ Reading[b \o d][l].line = Reading[Tail(b) \o d][k].line
        /\ Reading[b \o d][l].commands = p \o Reading[Tail(b) \o d][k].commands
    <3> DEFINE v == b \o d
    <3>1. v \in Text /\ v # <<>>
      BY <2>1
    <3> HIDE DEF v
    <3>2. /\ Reading[v][l].line = Reading[Tail(v)][AfterCharacter(l, Head(v))].line
          /\ Reading[v][l].commands =
                PostedBy(l, Head(v)) \o Reading[Tail(v)][AfterCharacter(l, Head(v))].commands
      BY <3>1, ReadFirst
    <3>3. Head(v) = Head(b) /\ Tail(v) = Tail(b) \o d
      BY <2>1 DEF v
    <3> QED BY <3>2, <3>3 DEF v
  <2>3. /\ k \in Text /\ Reading[b][l].line = Reading[Tail(b)][k].line
        /\ Reading[b][l].commands = p \o Reading[Tail(b)][k].commands
    BY <1>2, ReadFirst
  <2>4. p \in Seq(Commands)
    BY Posts
  <2> HIDE DEF k, p
  <2>5. /\ Reading[Tail(b) \o d][k].line = Reading[d][Reading[Tail(b)][k].line].line
        /\ Reading[Tail(b) \o d][k].commands =
              Reading[Tail(b)][k].commands \o Reading[d][Reading[Tail(b)][k].line].commands
    BY <1>2, <2>3
  <2> DEFINE x == Reading[Tail(b)][k].commands
             y == Reading[d][Reading[Tail(b)][k].line].commands
  <2>6. x \in Seq(Commands) /\ y \in Seq(Commands)
    BY <1>2, <2>3, Shortened, OutcomeParts
  <2> HIDE DEF x, y
  <2>7. (p \o x) \o y = p \o (x \o y)
    BY <2>4, <2>6
  <2> QED BY <2>2, <2>3, <2>5, <2>7 DEF x, y
<1> HIDE DEF S
<1>3. Text \subseteq S
  BY <1>1, <1>2, AllTexts
<1> QED BY <1>3 DEF S

-----------------------------------------------------------------------------
(* Lines *)

\* Two outcomes that differ in one command at most, and that at the front.
Alike(x, y) ==
    \E q, r, w \in Seq(Commands) :
       Len(q) \in 0 .. 1 /\ Len(r) \in 0 .. 1 /\ x = q \o w /\ y = r \o w

\* The first line end makes all lines alike.
LEMMA LinesMeet ==
    \A b \in Text : \A l, m \in Text : Alike(Reading[b][l].commands, Reading[b][m].commands)
<1> DEFINE S == {b \in Text : \A l, m \in Text :
                   Alike(Reading[b][l].commands, Reading[b][m].commands)}
<1>1. <<>> \in S
  <2>1. Alike(<<>>, <<>>)
    <3>1. <<>> \in Seq(Commands) /\ Len(<<>>) \in 0 .. 1 /\ <<>> = <<>> \o <<>>
      OBVIOUS
    <3> QED BY <3>1 DEF Alike
  <2> QED BY <2>1, ReadNothing
<1>2. ASSUME NEW b \in Text, b # <<>>, Tail(b) \in S PROVE b \in S
  <2> SUFFICES ASSUME NEW l \in Text, NEW m \in Text
               PROVE  Alike(Reading[b][l].commands, Reading[b][m].commands)
    OBVIOUS
  <2> DEFINE c == Head(b)
             k == AfterCharacter(l, c)
             n == AfterCharacter(m, c)
             p == PostedBy(l, c)
             q == PostedBy(m, c)
  <2>1. /\ k \in Text /\ n \in Text
        /\ Reading[b][l].commands = p \o Reading[Tail(b)][k].commands
        /\ Reading[b][m].commands = q \o Reading[Tail(b)][n].commands
    BY <1>2, ReadFirst
  <2>2. /\ p \in Seq(Commands) /\ Len(p) \in 0 .. 1
        /\ q \in Seq(Commands) /\ Len(q) \in 0 .. 1
        /\ c \notin Terminator => p = <<>> /\ q = <<>>
    BY Posts
  <2>3. c \in Terminator => k = n
    BY DEF AfterCharacter
  <2>4. /\ Reading[Tail(b)][k].commands \in Seq(Commands)
        /\ Reading[Tail(b)][n].commands \in Seq(Commands)
    BY <1>2, <2>1, Shortened, OutcomeParts
  <2>5. Alike(Reading[Tail(b)][k].commands, Reading[Tail(b)][n].commands)
    <3> HIDE DEF k, n
    <3> QED BY <1>2, <2>1
  <2> HIDE DEF c, k, n, p, q
  <2>6. CASE c \in Terminator
    BY <2>1, <2>2, <2>3, <2>4, <2>6 DEF Alike
  <2>7. CASE c \notin Terminator
    BY <2>1, <2>2, <2>4, <2>5, <2>7, ConcatEmptySeq
  <2> QED BY <2>6, <2>7
<1> HIDE DEF S
<1>3. Text \subseteq S
  BY <1>1, <1>2, AllTexts
<1> QED BY <1>3 DEF S

NoEnds(b)   == \A i \in 1 .. Len(b) : b[i] \notin Terminator
OnlyEnds(b) == \A i \in 1 .. Len(b) : b[i] \in Terminator

LEMMA EndsOfTail ==
    ASSUME NEW b \in Text, b # <<>>
    PROVE  /\ NoEnds(b) => Head(b) \notin Terminator /\ NoEnds(Tail(b))
           /\ OnlyEnds(b) => Head(b) \in Terminator /\ OnlyEnds(Tail(b))
<1>1. 1 \in 1 .. Len(b) /\ \A i \in 1 .. Len(b) - 1 : i + 1 \in 1 .. Len(b)
  BY TextFacts
<1>2. /\ Head(b) = b[1] /\ Len(Tail(b)) = Len(b) - 1
      /\ \A i \in 1 .. Len(b) - 1 : Tail(b)[i] = b[i + 1]
  BY Shortened
<1> QED BY <1>1, <1>2 DEF NoEnds, OnlyEnds

\* Without a line end nothing is posted.
LEMMA NothingInside ==
    \A b \in Text : NoEnds(b) => \A l \in Text : Reading[b][l].commands = <<>>
<1> DEFINE S == {b \in Text : NoEnds(b) => \A l \in Text : Reading[b][l].commands = <<>>}
<1>1. <<>> \in S
  BY ReadNothing
<1>2. ASSUME NEW b \in Text, b # <<>>, Tail(b) \in S PROVE b \in S
  <2> SUFFICES ASSUME NoEnds(b), NEW l \in Text PROVE Reading[b][l].commands = <<>>
    OBVIOUS
  <2>1. Head(b) \notin Terminator /\ NoEnds(Tail(b))
    BY <1>2, EndsOfTail
  <2> DEFINE k == AfterCharacter(l, Head(b))
             p == PostedBy(l, Head(b))
  <2>2. k \in Text /\ Reading[b][l].commands = p \o Reading[Tail(b)][k].commands
    BY <1>2, ReadFirst
  <2>3. p = <<>>
    BY <2>1, Posts
  <2> HIDE DEF k, p
  <2>4. Reading[Tail(b)][k].commands = <<>>
    BY <1>2, <2>1, <2>2
  <2> QED BY <2>2, <2>3, <2>4
<1> HIDE DEF S
<1>3. Text \subseteq S
  BY <1>1, <1>2, AllTexts
<1> QED BY <1>3 DEF S

LEMMA HeadMoves ==
    ASSUME NEW l \in Text, NEW b \in Text, b # <<>>
    PROVE  Append(l, Head(b)) \o Tail(b) = l \o b
<1> DEFINE h == Head(b)
           t == Tail(b)
<1>1. h \in STRING /\ t \in Text /\ h = b[1] /\ 1 \in 1 .. Len(b) /\ Len(b) \in 1 .. Len(b)
  BY Shortened, TextFacts
<1>2. <<h>> \o t = b
  <2>1. t = SubSeq(b, 2, Len(b))
    BY TailIsSubSeq DEF Text
  <2>2. SubSeq(b, 1, Len(b)) = <<b[1]>> \o SubSeq(b, 1 + 1, Len(b))
    BY <1>1, SubSeqRecursiveFirst DEF Text
  <2>3. SubSeq(b, 1, Len(b)) = b
    BY SubSeqFull DEF Text
  <2> QED BY <1>1, <2>1, <2>2, <2>3
<1> HIDE DEF h, t
<1>3. Append(l, h) = l \o <<h>> /\ <<h>> \in Text
  BY <1>1, AppendIsConcat DEF Text
<1>4. (l \o <<h>>) \o t = l \o (<<h>> \o t)
  BY <1>1, <1>3 DEF Text
<1> QED BY <1>2, <1>3, <1>4 DEF h, t

\* A text that fits is on the line when it has been read.
LEMMA WholeTextRead ==
    \A b \in Text : NoEnds(b) => \A l \in Text :
       Len(l) + Len(b) < LineCapacity => Reading[b][l].line = l \o b
<1> DEFINE S == {b \in Text : NoEnds(b) => \A l \in Text :
                   Len(l) + Len(b) < LineCapacity => Reading[b][l].line = l \o b}
<1>1. <<>> \in S
  BY ReadNothing, ConcatEmptySeq DEF Text
<1>2. ASSUME NEW b \in Text, b # <<>>, Tail(b) \in S PROVE b \in S
  <2> SUFFICES ASSUME NoEnds(b), NEW l \in Text, Len(l) + Len(b) < LineCapacity
               PROVE  Reading[b][l].line = l \o b
    OBVIOUS
  <2>1. Head(b) \notin Terminator /\ NoEnds(Tail(b))
    BY <1>2, EndsOfTail
  <2>2. /\ Len(l) \in Nat /\ Len(b) \in Nat \ {0} /\ LineCapacity \in Nat
        /\ Head(b) \in STRING /\ Tail(b) \in Text /\ Len(Tail(b)) = Len(b) - 1
    BY <1>2, TextFacts, Shortened, Capacities
  <2> DEFINE k == AfterCharacter(l, Head(b))
  <2>3. k = Append(l, Head(b))
    BY <2>1, <2>2 DEF AfterCharacter
  <2>4. k \in Text /\ Len(k) = Len(l) + 1
    <3>1. Append(l, Head(b)) \in Text /\ Len(Append(l, Head(b))) = Len(l) + 1
      BY <2>2, Longer, Zenon
    <3> QED BY <2>3, <3>1, Zenon
  <2>5. Reading[b][l].line = Reading[Tail(b)][k].line
    BY <1>2, ReadFirst
  <2>6. k \o Tail(b) = l \o b
    BY <1>2, <2>3, HeadMoves
  <2> HIDE DEF k
  <2>7. \A m \in Text : Len(m) + Len(Tail(b)) < LineCapacity =>
           Reading[Tail(b)][m].line = m \o Tail(b)
    BY <1>2, <2>1
  <2>8. Len(k) + Len(Tail(b)) < LineCapacity
    BY <2>2, <2>4
  <2> QED BY <2>4, <2>5, <2>6, <2>7, <2>8
<1> HIDE DEF S
<1>3. Text \subseteq S
  BY <1>1, <1>2, AllTexts
<1> QED BY <1>3 DEF S

LEMMA NothingIsNoCommand == Parse(<<>>) = {}
<1>1. <<>> \in Text
  BY DEF Text
<1>2. Trimmed[<<>>] = {}
  BY <1>1 DEF Trimmed
<1>3. BeforeBlanks(<<>>) = <<>>
  BY DEF BeforeBlanks, SelectLastInSeq
<1> QED BY <1>2, <1>3 DEF Parse

\* Line ends on an empty line are nothing.
LEMMA NothingFromEnds ==
    \A b \in Text : OnlyEnds(b) =>
       Reading[b][<<>>].line = <<>> /\ Reading[b][<<>>].commands = <<>>
<1> DEFINE S == {b \in Text : OnlyEnds(b) =>
                   Reading[b][<<>>].line = <<>> /\ Reading[b][<<>>].commands = <<>>}
<1>1. <<>> \in S
  BY ReadNothing
<1>2. ASSUME NEW b \in Text, b # <<>>, Tail(b) \in S PROVE b \in S
  <2> SUFFICES ASSUME OnlyEnds(b)
               PROVE  Reading[b][<<>>].line = <<>> /\ Reading[b][<<>>].commands = <<>>
    OBVIOUS
  <2>1. Head(b) \in Terminator /\ OnlyEnds(Tail(b))
    BY <1>2, EndsOfTail
  <2> DEFINE k == AfterCharacter(<<>>, Head(b))
             p == PostedBy(<<>>, Head(b))
  <2>2. k = <<>>
    BY <2>1 DEF AfterCharacter
  <2>3. p = <<>>
    BY NothingIsNoCommand DEF PostedBy, OneOrNone
  <2>4. /\ Reading[b][<<>>].line = Reading[Tail(b)][k].line
        /\ Reading[b][<<>>].commands = p \o Reading[Tail(b)][k].commands
    BY <1>2, ReadFirst, ReadNothing
  <2> HIDE DEF k, p
  <2> QED BY <1>2, <2>1, <2>2, <2>3, <2>4
<1> HIDE DEF S
<1>3. Text \subseteq S
  BY <1>1, <1>2, AllTexts
<1> QED BY <1>3 DEF S

\* A line of the host's: at most one command comes of it, the one it means if it
\* fits and nothing is in front of it, and nothing is left of it.
LEMMA LineRead ==
    ASSUME NEW request \in HostLines, NEW l \in Text
    PROVE  /\ Reading[request.text][l].line = <<>>
           /\ Len(Reading[request.text][l].commands) \in 0 .. 1
           /\ l = <<>> /\ request.fits => Reading[request.text][l].commands = request.means
<1> DEFINE t == request.text
<1>1. t \in Text /\ Len(t) \in Nat
  BY Capacities, TextFacts
<1>2. PICK n \in 0 .. Len(t) - 1 :
         /\ \A i \in 1 .. Len(t) : t[i] \in Terminator <=> i > n
         /\ request.fits => /\ n < LineCapacity
                            /\ request.means = OneOrNone(Parse(SubSeq(t, 1, n)))
  BY HostAssumption
<1> HIDE DEF t
<1> DEFINE b == SubSeq(t, 1, n)
           e == SubSeq(t, n + 1, Len(t))
<1>3. /\ b \in Text /\ Len(b) = n /\ \A i \in 1 .. n : b[i] = t[i]
      /\ e \in Text /\ Len(e) = Len(t) - n /\ \A i \in 1 .. Len(t) - n : e[i] = t[n + i]
  <2>1. /\ b \in Text /\ Len(b) = IF 1 <= n THEN n - 1 + 1 ELSE 0
        /\ \A i \in 1 .. n - 1 + 1 : b[i] = t[1 + i - 1]
    BY <1>1, <1>2, PartOf
  <2>2. /\ e \in Text /\ Len(e) = IF n + 1 <= Len(t) THEN Len(t) - (n + 1) + 1 ELSE 0
        /\ \A i \in 1 .. Len(t) - (n + 1) + 1 : e[i] = t[n + 1 + i - 1]
    BY <1>1, <1>2, PartOf
  <2> HIDE DEF b, e
  <2>3. Len(b) = n /\ \A i \in 1 .. n : b[i] = t[i]
    BY <1>2, <2>1
  <2>4. Len(e) = Len(t) - n /\ \A i \in 1 .. Len(t) - n : e[i] = t[n + i]
    BY <1>1, <1>2, <2>2
  <2> QED BY <2>1, <2>2, <2>3, <2>4
<1>4. t = b \o e
  <2>1. 1 \in 1 .. Len(t) + 1 /\ n \in 1 - 1 .. Len(t) /\ Len(t) \in n .. Len(t)
    BY <1>1, <1>2
  <2>2. b \o e = SubSeq(t, 1, Len(t))
    BY <1>1, <2>1, ConcatAdjacentSubSeq DEF Text
  <2> QED BY <1>1, <2>2, SubSeqFull DEF Text
<1>5. request.fits => request.means = OneOrNone(Parse(b))
  BY <1>2
<1> HIDE DEF b, e
<1>6. NoEnds(b)
  BY <1>1, <1>2, <1>3 DEF NoEnds
<1>7. OnlyEnds(e) /\ e # <<>>
  <2>1. ASSUME NEW i \in 1 .. Len(t) - n PROVE e[i] \in Terminator
    <3>1. n + i \in 1 .. Len(t) /\ n + i > n
      BY <1>1, <1>2
    <3> QED BY <1>2, <1>3, <3>1
  <2>2. Len(e) # 0
    BY <1>1, <1>2, <1>3
  <2> QED BY <1>3, <2>1, <2>2 DEF OnlyEnds
<1> DEFINE k == Reading[b][l].line
           h == Head(e)
           p == PostedBy(k, h)
<1>8. /\ k \in Text /\ Reading[b][l].commands = <<>>
      /\ Reading[t][l].line = Reading[e][k].line
      /\ Reading[t][l].commands = <<>> \o Reading[e][k].commands
  <2>1. k \in Text /\ Reading[b][l].commands = <<>>
    BY <1>3, <1>6, OutcomeParts, NothingInside
  <2>2. /\ Reading[b \o e][l].line = Reading[e][k].line
        /\ Reading[b \o e][l].commands = Reading[b][l].commands \o Reading[e][k].commands
    BY <1>3, ReadBoth
  <2> QED BY <1>4, <2>1, <2>2
<1>9. l = <<>> /\ request.fits => k = b
  <2>1. ASSUME l = <<>>, request.fits PROVE k = b
    <3>1. <<>> \o b = b
      BY <1>3, ConcatEmptySeq DEF Text
    <3>2. <<>> \in Text /\ Len(<<>>) + Len(b) < LineCapacity
      BY <1>2, <1>3, <2>1, ReadNothing
    <3> QED BY <1>3, <1>6, <2>1, <3>1, <3>2, WholeTextRead
  <2> QED BY <2>1
<1> HIDE DEF k
<1>10. /\ h \in Terminator /\ OnlyEnds(Tail(e)) /\ Tail(e) \in Text
  BY <1>3, <1>7, EndsOfTail, Shortened
<1>11. AfterCharacter(k, h) = <<>>
  BY <1>10 DEF AfterCharacter
<1>12. /\ Reading[e][k].line = Reading[Tail(e)][AfterCharacter(k, h)].line
       /\ Reading[e][k].commands = p \o Reading[Tail(e)][AfterCharacter(k, h)].commands
  BY <1>3, <1>7, <1>8, ReadFirst
<1>13. Reading[Tail(e)][<<>>].line = <<>> /\ Reading[Tail(e)][<<>>].commands = <<>>
  BY <1>10, NothingFromEnds
<1>14. p \in Seq(Commands) /\ Len(p) \in 0 .. 1 /\ p = OneOrNone(Parse(k))
  BY <1>8, <1>10, Posts DEF PostedBy
<1> HIDE DEF h, p
<1>15. Reading[t][l].line = <<>> /\ Reading[t][l].commands = p
  <2>1. <<>> \o (p \o <<>>) = p
    BY <1>14, ConcatEmptySeq
  <2> QED BY <1>8, <1>11, <1>12, <1>13, <2>1
<1> QED BY <1>5, <1>9, <1>14, <1>15 DEF t

-----------------------------------------------------------------------------
(* The uplink's steps are the channel's *)

\* coming is what comes of the bytes in flight.
Foreseen == coming = Reading[chunk \o rx][line]

LEMMA ForeseenInit == Init => Foreseen
<1> SUFFICES ASSUME Init PROVE Foreseen
  OBVIOUS
<1>1. coming = Reading[rx][line] /\ chunk = <<>> /\ rx = <<>>
  BY DEF Init
<1>2. <<>> \o <<>> = <<>>
  OBVIOUS
<1> QED BY <1>1, <1>2 DEF Foreseen

LEMMA ForeseenStep == Foreseen /\ [Next]_vars => Foreseen'
<1>1. Next => Foreseen'
  BY Zenon DEF Next, Foreseen
<1>2. Foreseen /\ UNCHANGED vars => Foreseen'
  BY DEF Foreseen, vars
<1> QED BY <1>1, <1>2

LEMMA InitialChannel == Init => Channel!Init
<1> SUFFICES ASSUME Init PROVE Channel!Init
  OBVIOUS
<1>1. /\ coming = Reading[rx][line] /\ line = <<>> /\ rx = <<>>
      /\ link_up \in BOOLEAN /\ lost = 0 /\ event = Channel!Quiet
  BY Zenon DEF Init
<1>2. coming.line = <<>> /\ coming.commands = <<>>
  BY <1>1, ReadNothing
<1> QED BY <1>1, <1>2 DEF Channel!Init

LEMMA Halves ==
    ASSUME NEW S, NEW x \in Seq(S), NEW y \in Seq(S)
    PROVE  /\ SubSeq(x \o y, 1, Len(x)) = x
           /\ SubSeq(x \o y, Len(x) + 1, Len(x \o y)) = y
<1>1. Len(x) \in Nat /\ Len(y) \in Nat
  BY LenProperties
<1>2. /\ x \o y \in Seq(S) /\ Len(x \o y) = Len(x) + Len(y)
      /\ \A i \in 1 .. Len(x) + Len(y) :
            (x \o y)[i] = IF i <= Len(x) THEN x[i] ELSE y[i - Len(x)]
  BY ConcatProperties
<1> DEFINE z == x \o y
<1>3. \A i \in 1 .. Len(z) : z[i] \in S
  BY <1>2, ElementOfSeq
<1> HIDE DEF z
<1>4. SubSeq(z, 1, Len(x)) = x
  <2>1. /\ SubSeq(z, 1, Len(x)) \in Seq(S)
        /\ Len(SubSeq(z, 1, Len(x))) = IF 1 <= Len(x) THEN Len(x) - 1 + 1 ELSE 0
        /\ \A i \in 1 .. Len(x) - 1 + 1 : SubSeq(z, 1, Len(x))[i] = z[1 + i - 1]
    <3>1. \A i \in 1 .. Len(x) : z[i] \in S
      BY <1>1, <1>2, <1>3 DEF z
    <3> QED BY <1>1, <3>1, SubSeqProperties
  <2>2. Len(SubSeq(z, 1, Len(x))) = Len(x)
    BY <1>1, <2>1
  <2>3. \A i \in 1 .. Len(x) : SubSeq(z, 1, Len(x))[i] = x[i]
    BY <1>1, <1>2, <2>1 DEF z
  <2> QED BY <2>1, <2>2, <2>3, SeqEqual
<1>5. SubSeq(z, Len(x) + 1, Len(z)) = y
  <2> DEFINE m == Len(x) + 1
             n == Len(z)
             v == SubSeq(z, m, n)
  <2>1. m \in Nat /\ n \in Nat /\ n - m + 1 = Len(y) /\ (m <= n \/ Len(y) = 0)
    BY <1>1, <1>2 DEF z
  <2>2. /\ v \in Seq(S) /\ Len(v) = IF m <= n THEN n - m + 1 ELSE 0
        /\ \A i \in 1 .. n - m + 1 : v[i] = z[m + i - 1]
    <3>1. \A i \in m .. n : z[i] \in S
      BY <1>1, <1>3
    <3> HIDE DEF m, n
    <3> QED BY <2>1, <3>1, SubSeqProperties
  <2> HIDE DEF v
  <2>3. Len(v) = Len(y)
    BY <1>1, <2>1, <2>2
  <2>4. \A i \in 1 .. Len(y) : v[i] = y[i]
    <3> SUFFICES ASSUME NEW i \in 1 .. Len(y) PROVE v[i] = y[i]
      OBVIOUS
    <3>1. v[i] = z[m + i - 1]
      <4> HIDE DEF m, n
      <4> QED BY <2>1, <2>2
    <3>2. m + i - 1 \in 1 .. Len(x) + Len(y) /\ ~(m + i - 1 <= Len(x)) /\ m + i - 1 - Len(x) = i
      BY <1>1
    <3>3. \A j \in 1 .. Len(x) + Len(y) : ~(j <= Len(x)) => z[j] = y[j - Len(x)]
      BY <1>2 DEF z
    <3> QED BY <3>1, <3>2, <3>3
  <2> QED BY <2>2, <2>3, <2>4, SeqEqual DEF v
<1> QED BY <1>4, <1>5 DEF z

\* The middle of a sequence gives way to another.
Replaced(old, new, before, damaged, instead) ==
    /\ before + damaged <= Len(old)
    /\ Len(new) = Len(old) - damaged + instead
    /\ SubSeq(new, 1, before) = SubSeq(old, 1, before)
    /\ SubSeq(new, before + instead + 1, Len(new))
         = SubSeq(old, before + damaged + 1, Len(old))

LEMMA MiddleReplaced ==
    ASSUME NEW S, NEW x \in Seq(S), NEW d \in Seq(S), NEW r \in Seq(S), NEW w \in Seq(S)
    PROVE  Replaced((x \o d) \o w, (x \o r) \o w, Len(x), Len(d), Len(r))
<1>1. ASSUME NEW e \in Seq(S)
      PROVE  /\ Len((x \o e) \o w) = Len(x) + Len(e) + Len(w)
             /\ SubSeq((x \o e) \o w, 1, Len(x)) = x
             /\ SubSeq((x \o e) \o w, Len(x) + Len(e) + 1, Len((x \o e) \o w)) = w
  <2>1. x \o e \in Seq(S) /\ Len(x \o e) = Len(x) + Len(e) /\ e \o w \in Seq(S)
    BY ConcatProperties
  <2>2. (x \o e) \o w = x \o (e \o w)
    OBVIOUS
  <2>3. SubSeq(x \o (e \o w), 1, Len(x)) = x
    BY <2>1, Halves
  <2>4. SubSeq((x \o e) \o w, Len(x \o e) + 1, Len((x \o e) \o w)) = w
    BY <2>1, Halves
  <2>5. Len((x \o e) \o w) = Len(x \o e) + Len(w)
    BY <2>1, ConcatProperties
  <2> QED BY <2>1, <2>2, <2>3, <2>4, <2>5
<1>2. Len(x) \in Nat /\ Len(d) \in Nat /\ Len(r) \in Nat /\ Len(w) \in Nat
  BY LenProperties
<1>3. /\ Len((x \o d) \o w) = Len(x) + Len(d) + Len(w)
      /\ Len((x \o r) \o w) = Len(x) + Len(r) + Len(w)
      /\ SubSeq((x \o d) \o w, 1, Len(x)) = SubSeq((x \o r) \o w, 1, Len(x))
      /\ SubSeq((x \o d) \o w, Len(x) + Len(d) + 1, Len((x \o d) \o w))
           = SubSeq((x \o r) \o w, Len(x) + Len(r) + 1, Len((x \o r) \o w))
  BY <1>1
<1> DEFINE old == (x \o d) \o w
           new == (x \o r) \o w
<1>4. /\ Len(old) = Len(x) + Len(d) + Len(w)
      /\ Len(new) = Len(x) + Len(r) + Len(w)
      /\ SubSeq(old, 1, Len(x)) = SubSeq(new, 1, Len(x))
      /\ SubSeq(old, Len(x) + Len(d) + 1, Len(old))
           = SubSeq(new, Len(x) + Len(r) + 1, Len(new))
  BY <1>3
<1> HIDE DEF old, new
<1>5. Len(x) + Len(d) <= Len(old) /\ Len(new) = Len(old) - Len(d) + Len(r)
  <2> DEFINE a == Len(x)
             b == Len(d)
             e == Len(r)
             c == Len(w)
             m == Len(old)
             n == Len(new)
  <2>1. a \in Nat /\ b \in Nat /\ e \in Nat /\ c \in Nat
    BY <1>2
  <2>2. m = a + b + c /\ n = a + e + c
    BY <1>4
  <2> HIDE DEF a, b, e, c, m, n
  <2>3. a + b <= m /\ n = m - b + e
    BY <2>1, <2>2
  <2> QED BY <2>3 DEF a, b, e, m, n
<1>6. Replaced(old, new, Len(x), Len(d), Len(r))
  BY <1>4, <1>5, Zenon DEF Replaced
<1> QED BY <1>6 DEF old, new

LEMMA SendIsSent ==
    ASSUME Buffers, Foreseen, Foreseen', NEW request \in HostLines, Send(request)
    PROVE  Channel!Send(request)
<1> DEFINE t == request.text
           b == chunk \o rx
           l == Reading[b][line].line
           x == Reading[b][line].commands
           y == Reading[t][l].commands
<1>1. /\ rx' = rx \o t /\ event' = Channel!Sent(request)
      /\ UNCHANGED <<link_up, chunk, line, lost>>
  BY DEF Send
<1>2. /\ t \in Text /\ chunk \in Text /\ rx \in Text /\ line \in Text /\ b \in Text
  BY Capacities, Joined DEF Buffers
<1>3. chunk' \o rx' = b \o t
  <2>1. chunk \in Text /\ rx \in Text /\ t \in Text
    BY <1>2
  <2>2. chunk' \o rx' = chunk \o (rx \o t)
    BY <1>1
  <2> HIDE DEF t
  <2>3. chunk \o (rx \o t) = (chunk \o rx) \o t
    BY <2>1 DEF Text
  <2> QED BY <2>2, <2>3
<1>4. coming = Reading[b][line] /\ coming' = Reading[b \o t][line]
  BY <1>1, <1>3 DEF Foreseen
<1> HIDE DEF b
<1>5. l \in Text /\ x \in Seq(Commands)
  BY <1>2, OutcomeParts
<1>6. coming.line = l /\ coming.commands = x
  BY <1>4
<1>7. coming'.line = Reading[t][l].line /\ coming'.commands = x \o y
  BY <1>2, <1>4, ReadBoth
<1> HIDE DEF l, x
<1>8. /\ Reading[t][l].line = <<>> /\ Len(y) \in 0 .. 1
      /\ l = <<>> /\ request.fits => y = request.means
  BY <1>5, LineRead
<1>9. y \in Seq(Commands)
  BY <1>2, <1>5, OutcomeParts
<1> HIDE DEF y, t
<1>10. /\ SubSeq(x \o y, 1, Len(x)) = x
       /\ SubSeq(x \o y, Len(x) + 1, Len(x \o y)) = y
  BY <1>5, <1>9, Halves
<1>11. /\ SubSeq(coming'.commands, 1, Len(coming.commands)) = coming.commands
       /\ SubSeq(coming'.commands, Len(coming.commands) + 1, Len(coming'.commands)) = y
  BY <1>6, <1>7, <1>10
<1>12. ~(coming'.line # <<>>)
  BY <1>7, <1>8
<1>13. IF coming.line # <<>> \/ ~request.fits THEN Len(y) <= 1 ELSE y = request.means
  <2>1. \A n \in 0 .. 1 : n <= 1
    OBVIOUS
  <2>2. Len(y) <= 1
    BY <1>8, <2>1, Zenon
  <2> QED BY <1>6, <1>8, <2>2
<1> QED BY <1>1, <1>11, <1>12, <1>13 DEF Channel!Send

LEMMA ReadIsNothing ==
    ASSUME Buffers, Foreseen, Foreseen', ReadLink
    PROVE  Channel!Nothing
<1>1. /\ chunk = <<>> /\ chunk' = SubSeq(rx, 1, Count) /\ rx' = SubSeq(rx, Count + 1, Len(rx))
      /\ event' = Channel!Quiet /\ UNCHANGED <<link_up, line, lost>>
  BY DEF ReadLink
<1> DEFINE n == Count
<1>2. n \in Nat /\ n <= Len(rx) /\ rx \in Text /\ Len(rx) \in Nat
  BY Taken, TextFacts DEF Buffers
<1> HIDE DEF n
<1>3. SubSeq(rx, 1, n) \o SubSeq(rx, n + 1, Len(rx)) = SubSeq(rx, 1, Len(rx))
  <2>1. 1 \in 1 .. Len(rx) + 1 /\ n \in 1 - 1 .. Len(rx) /\ Len(rx) \in n .. Len(rx)
    BY <1>2
  <2> QED BY <1>2, <2>1, ConcatAdjacentSubSeq DEF Text
<1>4. chunk' \o rx' = rx /\ chunk \o rx = rx
  <2>1. SubSeq(rx, 1, Len(rx)) = rx /\ <<>> \o rx = rx
    BY <1>2, SubSeqFull, ConcatEmptySeq DEF Text
  <2> QED BY <1>1, <1>3, <2>1 DEF n
<1>5. coming' = coming
  BY <1>1, <1>4 DEF Foreseen
<1> QED BY <1>1, <1>5 DEF Channel!Nothing

LEMMA CharacterIsDelivery ==
    ASSUME Buffers, Foreseen, Foreseen', TakeCharacter
    PROVE  Channel!Deliver \/ Channel!Nothing
<1> DEFINE b == chunk \o rx
           p == PostedBy(line, Head(chunk))
<1>1. /\ chunk # <<>> /\ chunk' = Tail(chunk) /\ line' = AfterCharacter(line, Head(chunk))
      /\ event' = (IF p = <<>> THEN Channel!Quiet ELSE Channel!Delivered(p[1]))
      /\ UNCHANGED <<rx, link_up, lost>>
  BY DEF TakeCharacter
<1>2. chunk \in Text /\ rx \in Text /\ line \in Text /\ b \in Text
  BY Joined DEF Buffers
<1>3. b # <<>> /\ Head(b) = Head(chunk) /\ Tail(b) = chunk' \o rx'
  BY <1>1, <1>2, JoinedFirst
<1>4. coming = Reading[b][line] /\ coming' = Reading[Tail(b)][line']
  BY <1>3 DEF Foreseen
<1> HIDE DEF b
<1>5. coming.line = coming'.line /\ coming.commands = p \o coming'.commands
  <2>1. /\ Reading[b][line].line = Reading[Tail(b)][AfterCharacter(line, Head(b))].line
        /\ Reading[b][line].commands = PostedBy(line, Head(b))
             \o Reading[Tail(b)][AfterCharacter(line, Head(b))].commands
    BY <1>2, <1>3, ReadFirst
  <2> QED BY <1>1, <1>3, <1>4, <2>1
<1>6. p \in Seq(Commands) /\ Len(p) \in 0 .. 1
  BY <1>2, Posts
<1>7. coming'.commands \in Seq(Commands)
  <2>1. line' \in Text /\ Tail(b) \in Text
    BY <1>1, <1>2, <1>3, Shortened, NextLine
  <2> QED BY <1>4, <2>1, OutcomeParts
<1> HIDE DEF p
<1>8. CASE p = <<>>
  <2>1. coming.commands = coming'.commands
    BY <1>5, <1>7, <1>8, ConcatEmptySeq
  <2> QED BY <1>1, <1>5, <1>8, <2>1 DEF Channel!Nothing
<1>9. CASE p # <<>>
  <2>1. Len(p) = 1
    BY <1>6, <1>9, EmptySeq
  <2>2. ASSUME NEW S, NEW q \in Seq(S), NEW u \in Seq(S), Len(q) = 1
        PROVE  q \o u # <<>> /\ Head(q \o u) = q[1] /\ Tail(q \o u) = u
    <3>1. /\ SubSeq(q \o u, Len(q) + 1, Len(q \o u)) = u
          /\ q \o u \in Seq(S) /\ Len(q \o u) = 1 + Len(u) /\ Len(u) \in Nat
          /\ \A i \in 1 .. 1 + Len(u) : (q \o u)[i] = IF i <= 1 THEN q[i] ELSE u[i - 1]
      <4>1. SubSeq(q \o u, Len(q) + 1, Len(q \o u)) = u
        BY Halves
      <4>2. /\ q \o u \in Seq(S) /\ Len(q \o u) = Len(q) + Len(u) /\ Len(u) \in Nat
            /\ \A i \in 1 .. Len(q) + Len(u) :
                  (q \o u)[i] = IF i <= Len(q) THEN q[i] ELSE u[i - Len(q)]
        BY ConcatProperties, LenProperties
      <4> QED BY <2>2, <4>1, <4>2
    <3>2. q \o u # <<>> /\ (q \o u)[1] = q[1]
      BY <3>1
    <3>3. Tail(q \o u) = SubSeq(q \o u, 2, Len(q \o u))
      BY <3>1, <3>2, TailIsSubSeq
    <3> QED BY <2>2, <3>1, <3>2, <3>3
  <2>3. /\ coming.commands # <<>> /\ Head(coming.commands) = p[1]
        /\ Tail(coming.commands) = coming'.commands
    BY <1>5, <1>6, <1>7, <2>1, <2>2
  <2> QED BY <1>1, <1>5, <1>9, <2>3 DEF Channel!Deliver
<1> QED BY <1>8, <1>9

LEMMA LostByteIsDamage ==
    ASSUME Buffers, Foreseen, Foreseen', LoseByte
    PROVE  Channel!LoseByte
<1>1. /\ lost < MaxLost /\ lost' = lost + 1 /\ event' = Channel!Quiet
      /\ UNCHANGED <<link_up, chunk, line>>
  BY DEF LoseByte
<1>2. PICK i \in DOMAIN rx : rx' = RemoveAt(rx, i)
  BY DEF LoseByte
<1>3. /\ rx \in Text /\ chunk \in Text /\ line \in Text /\ Len(rx) \in Nat /\ i \in 1 .. Len(rx)
  BY TextFacts DEF Buffers
<1> DEFINE front == SubSeq(rx, 1, i - 1)
           rest  == SubSeq(rx, i, Len(rx))
           back  == SubSeq(rx, i + 1, Len(rx))
           f     == chunk \o front
<1>4. /\ front \in Text /\ rest \in Text /\ back \in Text
      /\ rest # <<>> /\ back = Tail(rest) /\ rx = front \o rest /\ rx' = front \o back
  <2>1. front \in Text /\ rest \in Text /\ back \in Text
    BY <1>3, PartOf
  <2>2. back = Tail(rest)
    <3>1. i \in 1 .. Len(rx) /\ Len(rx) \in i .. Len(rx)
      BY <1>3
    <3> QED BY <1>3, <3>1, HeadTailOfSubSeq DEF Text
  <2>3. Len(rest) = IF i <= Len(rx) THEN Len(rx) - i + 1 ELSE 0
    BY <1>3, PartOf
  <2>4. rest # <<>>
    <3> HIDE DEF rest
    <3> QED BY <1>3, <2>3
  <2>5. rx = front \o rest
    <3> DEFINE k == i - 1
    <3>1. 1 \in 1 .. Len(rx) + 1 /\ k \in 1 - 1 .. Len(rx) /\ Len(rx) \in k .. Len(rx)
      BY <1>3
    <3>2. k + 1 = i
      BY <1>3
    <3> HIDE DEF k
    <3>3. SubSeq(rx, 1, k) \o SubSeq(rx, k + 1, Len(rx)) = SubSeq(rx, 1, Len(rx))
      BY <1>3, <3>1, ConcatAdjacentSubSeq DEF Text
    <3>4. SubSeq(rx, 1, Len(rx)) = rx
      BY <1>3, SubSeqFull DEF Text
    <3> QED BY <3>2, <3>3, <3>4 DEF k
  <2> QED BY <1>2, <2>1, <2>2, <2>4, <2>5 DEF RemoveAt
<1> HIDE DEF front, rest, back
<1>5. f \in Text /\ chunk \o rx = f \o rest /\ chunk' \o rx' = f \o back
  <2>1. f \in Text
    BY <1>3, <1>4, Joined
  <2>2. chunk \in Text /\ front \in Text /\ rest \in Text /\ back \in Text
    BY <1>3, <1>4
  <2>3. f \o rest = chunk \o (front \o rest) /\ f \o back = chunk \o (front \o back)
    BY <2>2 DEF Text
  <2> QED BY <1>1, <1>4, <2>1, <2>3
<1> HIDE DEF f
<1> DEFINE l == Reading[f][line].line
           x == Reading[f][line].commands
           k == AfterCharacter(l, Head(rest))
           p == PostedBy(l, Head(rest))
           u == Reading[back][k].commands
           v == Reading[back][l].commands
<1>6. l \in Text /\ x \in Seq(Commands)
  BY <1>3, <1>5, OutcomeParts
<1>7. coming = Reading[f \o rest][line] /\ coming' = Reading[f \o back][line]
  BY <1>1, <1>5 DEF Foreseen
<1>8. coming.commands = x \o Reading[rest][l].commands /\ coming'.commands = x \o v
  <2>1. \A c \in Text : Reading[f \o c][line].commands = x \o Reading[c][l].commands
    BY <1>3, <1>5, ReadBoth
  <2> QED BY <1>4, <1>7, <2>1
<1> HIDE DEF l, x
<1>9. k \in Text /\ Reading[rest][l].commands = p \o u
  BY <1>4, <1>6, ReadFirst
<1>10. p \in Seq(Commands) /\ Len(p) \in 0 .. 1
  BY <1>6, Posts
<1> HIDE DEF k, p
<1>11. Alike(u, v)
  BY <1>4, <1>6, <1>9, LinesMeet
<1> HIDE DEF u, v
<1>12. PICK q \in Seq(Commands), r \in Seq(Commands), w \in Seq(Commands) :
          Len(q) \in 0 .. 1 /\ Len(r) \in 0 .. 1 /\ u = q \o w /\ v = r \o w
  BY <1>11 DEF Alike
<1> DEFINE d == p \o q
<1>13. d \in Seq(Commands) /\ Len(d) \in 0 .. 2
  <2>1. d \in Seq(Commands) /\ Len(d) = Len(p) + Len(q)
    BY <1>10, <1>12, ConcatProperties
  <2> HIDE DEF d
  <2>2. \A m, n \in 0 .. 1 : m + n \in 0 .. 2
    OBVIOUS
  <2> QED BY <1>10, <1>12, <2>1, <2>2, Zenon
<1>14. x \in Seq(Commands) /\ d \in Seq(Commands) /\ p \in Seq(Commands)
  BY <1>6, <1>10, <1>13
<1>15. coming.commands = (x \o d) \o w /\ coming'.commands = (x \o r) \o w
  <2>1. p \o (q \o w) = d \o w
    BY <1>14
  <2> HIDE DEF d
  <2>2. x \in Seq(Commands) /\ d \in Seq(Commands)
    BY <1>14
  <2>3. x \o (d \o w) = (x \o d) \o w
    BY <2>2
  <2>4. x \o (r \o w) = (x \o r) \o w
    BY <2>2
  <2> QED BY <1>8, <1>9, <1>12, <2>1, <2>3, <2>4
<1> HIDE DEF d
<1>16. Replaced(coming.commands, coming'.commands, Len(x), Len(d), Len(r))
  <2>1. Replaced((x \o d) \o w, (x \o r) \o w, Len(x), Len(d), Len(r))
    BY <1>14, MiddleReplaced
  <2> QED BY <1>15, <2>1
<1>17. Len(x) \in 0 .. Len(coming.commands)
  <2>1. Len(x) \in Nat /\ Len(d) \in Nat /\ (x \o d) \o w \in Seq(Commands)
    BY <1>14, LenProperties, ConcatProperties
  <2>2. Len(x) + Len(d) <= Len(coming.commands) /\ Len(coming.commands) \in Nat
    BY <1>15, <1>16, <2>1, LenProperties DEF Replaced
  <2> QED BY <2>1, <2>2
<1>18. \E before \in 0 .. Len(coming.commands), damaged \in 0 .. 2, instead \in 0 .. 1 :
          Replaced(coming.commands, coming'.commands, before, damaged, instead)
  BY <1>12, <1>13, <1>16, <1>17, Zenon
<1> QED BY <1>1, <1>18 DEF Channel!LoseByte, Replaced

LEMMA ChannelStep == Buffers /\ Foreseen /\ [Next]_vars => [Channel!Next]_(Channel!vars)
<1> SUFFICES ASSUME Buffers, Foreseen, [Next]_vars PROVE [Channel!Next]_(Channel!vars)
  OBVIOUS
<1>0. Foreseen'
  BY ForeseenStep
<1>1. ASSUME NEW request \in HostLines, Send(request) PROVE Channel!Next
  BY <1>0, <1>1, SendIsSent DEF Channel!Next
<1>2. CASE LoseByte
  BY <1>0, <1>2, LostByteIsDamage DEF Channel!Next
<1>3. CASE ToggleLink
  <2>1. link_up' = ~link_up /\ event' = Channel!Quiet /\ UNCHANGED <<rx, chunk, line, lost>>
    BY <1>3, Zenon DEF ToggleLink
  <2>2. coming' = coming
    BY <1>0, <2>1 DEF Foreseen
  <2> QED BY <2>1, <2>2, Zenon DEF Channel!ToggleLink, Channel!Next
<1>4. CASE Mark
  <2>1. event' = Channel!Quiet /\ UNCHANGED <<rx, link_up, chunk, line, lost>>
    BY <1>4, Zenon DEF Mark
  <2>2. coming' = coming
    BY <1>0, <2>1 DEF Foreseen
  <2> QED BY <2>1, <2>2 DEF Channel!Nothing, Channel!Next
<1>5. CASE ReadLink
  BY <1>0, <1>5, ReadIsNothing DEF Channel!Next
<1>6. CASE TakeCharacter
  BY <1>0, <1>6, CharacterIsDelivery DEF Channel!Next
<1>7. CASE UNCHANGED vars
  BY <1>7 DEF vars, Channel!vars
<1> QED BY <1>1, <1>2, <1>3, <1>4, <1>5, <1>6, <1>7, Moves

\* With all that chunks, terminators, blanks and rejected lines do to it, nothing is
\* lost, doubled, reordered or misread but for lost bytes and over-length lines
\* (robot.cpp:227-299, telemetry.cpp:98-180).
THEOREM KeepsWhatItPromises == Spec => ImplementsChannel
<1>1. Init => Foreseen /\ Channel!Init
  BY ForeseenInit, InitialChannel
<1>2. Foreseen /\ [Next]_vars => Foreseen'
  BY ForeseenStep
<1>3. Buffers /\ Foreseen /\ [Next]_vars => [Channel!Next]_(Channel!vars)
  BY ChannelStep
<1> QED BY <1>1, <1>2, <1>3, UplinkInvariant, PTL DEF Spec, ImplementsChannel, Channel!Keeps
=============================================================================
