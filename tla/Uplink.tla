------------------------------- MODULE Uplink -------------------------------
(***************************************************************************)
(* The way of a command from the host to the bus: lines of characters wait *)
(* in the link's receive buffer, Robot::service_link reads them in chunks  *)
(* that know nothing of lines, puts the lines together again, parses them  *)
(* and posts what they stand for.  The link goes down and comes back with  *)
(* what it had received; bytes get lost.                                   *)
(***************************************************************************)
EXTENDS Parser

CONSTANTS
    HostLines,        \* what the host sends: characters, meaning, if it fits
    LineCapacity,     \* kLineCapacity: 128 in the code
    ChunkSize,        \* the chunk buffer: 64
    RxCapacity,       \* the link's receive buffer
    ReadsPerTimeout,  \* reads of the link within one command timeout, at least
    MaxLost           \* bound: bytes lost

ASSUME UplinkAssumption ==
    /\ {LineCapacity, ChunkSize, RxCapacity, ReadsPerTimeout} \subseteq Nat \ {0}
    /\ MaxLost \in Nat
    /\ RxCapacity <= ReadsPerTimeout * ChunkSize
    /\ \A l \in HostLines : l.text \in Text /\ Len(l.text) <= RxCapacity

Terminator == {"\n", "\r"}

OneOrNone(set) == IF set = {} THEN <<>> ELSE <<CHOOSE x \in set : TRUE>>

\* A host's line is the text of at most one command and ends in line ends; it
\* fits if the robot's buffer has room for its text.
ASSUME HostAssumption ==
    \A l \in HostLines :
       /\ l.fits \in BOOLEAN
       /\ \E n \in 0 .. Len(l.text) - 1 :
             /\ \A i \in 1 .. Len(l.text) : l.text[i] \in Terminator <=> i > n
             /\ l.fits => /\ n < LineCapacity
                          /\ l.means = OneOrNone(Parse(SubSeq(l.text, 1, n)))

VARIABLES
    rx,         \* the receive buffer
    link_up,    \* Link::is_up
    chunk,      \* what is left of the chunk read
    line        \* line_[0 .. line_length_ - 1]

\* Ghost variables: what happened, and the age of the bytes in flight.
VARIABLES
    lost,       \* bytes lost
    event,      \* the line the last step sent or the command it posted
    age         \* of bytes in flight: how many were sent before a moment of our
                \* choice, reads of the link and whether it was down since then
VARIABLE
    coming      \* what will come of the bytes in flight

vars == <<rx, link_up, chunk, line, lost, event, age, coming>>

\* line_length_ stays below the capacity, so every write is inside line_.
TypeOK ==
    /\ Len(rx) <= RxCapacity
    /\ Len(chunk) <= ChunkSize
    /\ Len(line) < LineCapacity
    /\ ToSet(line) \cap Terminator = {}
    /\ link_up \in BOOLEAN
    /\ lost \in 0 .. MaxLost
    /\ age.marked \in 0 .. Len(chunk \o rx)
    /\ age.reads \in 0 .. ReadsPerTimeout + 1
    /\ age.outage \in BOOLEAN

\* A plausible slip: a line that does not parse stays in the buffer.
Mut_AfterCharacter_KeepsRejected(l, c) ==
    IF c \in Terminator THEN IF Parse(l) = {} THEN l ELSE <<>>
    ELSE IF Len(l) + 1 < LineCapacity THEN Append(l, c) ELSE <<>>

\* A plausible slip: the comparison admits one character too many.
Mut_AfterCharacter_OneTooMany(l, c) ==
    IF c \in Terminator THEN <<>>
    ELSE IF Len(l) < LineCapacity THEN Append(l, c) ELSE <<>>

\* Too long: the buffer starts over, and the character that did not fit is gone.
AfterCharacter(l, c) ==
    IF c \in Terminator \/ Len(l) + 1 >= LineCapacity THEN <<>> ELSE Append(l, c)

\* The commands a character completes.
PostedBy(l, c) == IF c \in Terminator THEN OneOrNone(Parse(l)) ELSE <<>>

\* What a character and the bytes after it turn a line into, given what those do.
Before(c, rest) ==
    [l \in Text |-> [rest[AfterCharacter(l, c)] EXCEPT !.commands = PostedBy(l, c) \o @]]

\* What line_ and the bytes that follow it turn into: commands, and a line.
Reading[bytes \in Text] ==
    IF bytes = <<>> THEN [l \in Text |-> [line |-> l, commands |-> <<>>]]
    ELSE Before(Head(bytes), Reading[Tail(bytes)])

Channel == INSTANCE CommandChannel WITH
    Request <- HostLines,
    pending <- coming.commands,
    torn    <- coming.line # <<>>,
    up      <- link_up

\* With the last marked byte the age that counted for it is forgotten.
Age(marked, reads, outage) ==
    [marked |-> marked, reads |-> IF marked = 0 THEN 0 ELSE reads,
     outage |-> marked > 0 /\ outage]

Init ==
    /\ rx = <<>>
    /\ link_up \in BOOLEAN
    /\ chunk = <<>>
    /\ line = <<>>
    /\ lost = 0
    /\ event = Channel!Quiet
    /\ age = Age(0, 0, FALSE)
    /\ coming = Reading[rx][line]

-----------------------------------------------------------------------------
(* The host and the link *)

\* The bytes of a whole line arrive, link up or not.
Send(request) ==
    /\ Len(rx \o request.text) <= RxCapacity
    /\ rx' = rx \o request.text
    /\ event' = Channel!Sent(request)
    /\ UNCHANGED <<link_up, chunk, line, lost, age>>

LoseByte ==
    /\ lost < MaxLost
    /\ lost' = lost + 1
    /\ \E i \in DOMAIN rx :
          /\ rx' = RemoveAt(rx, i)
          /\ age' = IF Len(chunk) + i > age.marked THEN age
                     ELSE Age(age.marked - 1, age.reads, age.outage)
    /\ event' = Channel!Quiet
    /\ UNCHANGED <<link_up, chunk, line>>

ToggleLink ==
    /\ link_up' = ~link_up
    /\ age' = Age(age.marked, age.reads, TRUE)
    /\ event' = Channel!Quiet
    /\ UNCHANGED <<rx, chunk, line, lost>>

\* The bytes that are in flight now are watched.
Mark ==
    /\ age.marked = 0
    /\ age' = Age(Len(chunk \o rx), 0, ~link_up)
    /\ event' = Channel!Quiet
    /\ UNCHANGED <<rx, link_up, chunk, line, lost>>

-----------------------------------------------------------------------------
(* service_link() *)

\* A plausible slip: one character per step.
Mut_Count_OneAtATime == IF link_up THEN Min({1, Len(rx)}) ELSE 0

\* A plausible slip: only whole chunks are read.
Mut_Count_WholeChunks == IF link_up /\ Len(rx) >= ChunkSize THEN ChunkSize ELSE 0

\* A step reads what has arrived, as much as the chunk holds; nothing from a
\* link that is down.
Count == IF link_up THEN Min({ChunkSize, Len(rx)}) ELSE 0

ReadLink ==
    /\ chunk = <<>>
    /\ chunk' = SubSeq(rx, 1, Count)
    /\ rx' = SubSeq(rx, Count + 1, Len(rx))
    /\ age' = Age(age.marked, Min({age.reads + 1, ReadsPerTimeout + 1}), age.outage)
    /\ event' = Channel!Quiet
    /\ UNCHANGED <<link_up, line, lost>>

TakeCharacter ==
    /\ chunk # <<>>
    /\ line' = AfterCharacter(line, Head(chunk))
    /\ LET posted == PostedBy(line, Head(chunk))
       IN  event' = IF posted = <<>> THEN Channel!Quiet ELSE Channel!Delivered(posted[1])
    /\ chunk' = Tail(chunk)
    /\ age' = Age(Max({age.marked - 1, 0}), age.reads, age.outage)
    /\ UNCHANGED <<rx, link_up, lost>>

Next ==
    /\ \/ \E request \in HostLines : Send(request)
       \/ LoseByte \/ ToggleLink \/ Mark
       \/ ReadLink \/ TakeCharacter
    /\ coming' = Reading[chunk' \o rx'][line']

\* step() is called forever and works off the chunk it has read.
Fairness == WF_<<chunk, rx>>(ReadLink) /\ WF_<<chunk, line>>(TakeCharacter)

Spec == Init /\ [][Next]_vars /\ Fairness

-----------------------------------------------------------------------------
\* The uplink is a command channel, with all that chunks, terminators, blanks
\* and rejected lines do to it: nothing is lost, doubled, reordered or misread
\* but for lost bytes and over-length lines (robot.cpp:227-299,
\* telemetry.cpp:98-180).
ImplementsChannel == Channel!Keeps

\* While the link stays up, every command on its way arrives: the loop reads on
\* and works its chunks off (robot.cpp:239-262).
EverythingArrives == Channel!Arrives

\* The last character of the command was sent a whole command timeout before
\* the step that reads it: the step stamps it as new all the same.
StampedLate == age.marked > 0 /\ age.reads > ReadsPerTimeout /\ event'.what = "delivered"

\* A command older than the command timeout is posted as a new one only after
\* the link has been down: as long as it is up, even a receive buffer that the host
\* keeps full is read out within the timeout, because UplinkAssumption says that it
\* is no larger than that (robot.cpp:59-62, 229, 244).
StaleOnlyAfterOutage == [][TakeCharacter /\ StampedLate => age.outage]_vars

-----------------------------------------------------------------------------
(* Claims of the documentation that the code does not meet.                 *)

\* Lines that are too long "are discarded whole" (docs/PROTOCOL.md:50): nothing
\* comes of them.
OverlongIsDiscarded ==
    [][coming.line = <<>> => \A request \in HostLines :
           Send(request) /\ ~request.fits => coming'.commands = coming.commands]_vars

\* The timestamp tells when a command was created, so that "a setpoint that
\* has been sitting in a queue" can be discarded (command.hpp:64-66): no motion
\* command older than the timeout is posted as a new one.
FreshMeansRecent ==
    [][TakeCharacter /\ StampedLate => event'.command.kind # "Velocity"]_vars
=============================================================================
