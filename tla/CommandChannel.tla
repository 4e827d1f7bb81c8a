--------------------------- MODULE CommandChannel ---------------------------
(***************************************************************************)
(* What the uplink promises to a host that sends it lines: commands arrive *)
(* one by one, in order, each once and as it was meant.  A byte lost on    *)
(* the way damages two neighbouring lines at most: in their place at most  *)
(* one command arrives, whichever it is.  The next line ends the damage    *)
(* that a lost line end does.  A line longer than the robot's buffer is    *)
(* not in the promise: at most one command comes of it, whichever it is.   *)
(***************************************************************************)
EXTENDS Naturals, Sequences

CONSTANTS
    Request,    \* what the host sends: what each line means, and if it fits
    MaxLost     \* bound: bytes lost

VARIABLES
    pending,    \* the commands on their way
    torn,       \* the last line sent has lost its end
    up,         \* the link is up
    lost,       \* bytes lost
    event       \* what the last step sent or delivered

vars == <<pending, torn, up, lost, event>>

Sent(request)      == [what |-> "sent", request |-> request]
Delivered(command) == [what |-> "delivered", command |-> command]
Quiet              == [what |-> "nothing"]

Init ==
    /\ pending = <<>>
    /\ ~torn
    /\ up \in BOOLEAN
    /\ lost = 0
    /\ event = Quiet

Send(request) ==
    /\ event' = Sent(request)
    /\ SubSeq(pending', 1, Len(pending)) = pending
    /\ LET more == SubSeq(pending', Len(pending) + 1, Len(pending'))
       IN  IF torn \/ ~request.fits THEN Len(more) <= 1
                                    ELSE more = request.means
    /\ ~torn'
    /\ UNCHANGED <<up, lost>>

Deliver ==
    /\ pending # <<>>
    /\ event' = Delivered(Head(pending))
    /\ pending' = Tail(pending)
    /\ UNCHANGED <<torn, up, lost>>

\* Nothing comes of what the robot reads.
Nothing == event' = Quiet /\ UNCHANGED <<pending, torn, up, lost>>

\* Up to two neighbours of pending give way to one command, or to none.
LoseByte ==
    /\ lost < MaxLost
    /\ lost' = lost + 1
    /\ LET new == pending'
       IN  \E before \in 0 .. Len(pending), damaged \in 0 .. 2, instead \in 0 .. 1 :
              /\ before + damaged <= Len(pending)
              /\ Len(new) = Len(pending) - damaged + instead
              /\ SubSeq(new, 1, before) = SubSeq(pending, 1, before)
              /\ SubSeq(new, before + instead + 1, Len(new))
                   = SubSeq(pending, before + damaged + 1, Len(pending))
    /\ torn' \in BOOLEAN
    /\ event' = Quiet
    /\ UNCHANGED up

ToggleLink == up' = ~up /\ event' = Quiet /\ UNCHANGED <<pending, torn, lost>>

Next == (\E request \in Request : Send(request)) \/ Deliver \/ Nothing \/ LoseByte \/ ToggleLink

\* What arrives is what was sent.
Keeps == Init /\ [][Next]_vars

\* While the link stays up, what is on its way arrives: Deliver is weakly fair,
\* its enabledness written out.
Arrives == []<>(pending = <<>> \/ ~up) \/ []<><<Deliver>>_vars

Spec == Keeps /\ Arrives
=============================================================================
