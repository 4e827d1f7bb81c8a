------------------------------ MODULE MCUplink ------------------------------
EXTENDS Uplink

Line(text, means) == [text |-> text, means |-> means, fits |-> TRUE]
Cmd(kind, a, b) == <<[kind |-> kind, args |-> <<a, b>>]>>

Drive    == Line(<<"V", " ", "1", " ", "1", "\n">>, Cmd("Velocity", 1, 1))
Press    == Line(<<"E", " ", "-", "1", "\n">>, Cmd("EmergencyStop", 1, 0))
LampOff  == Line(<<"L", " ", " ", "0", "\r">>, Cmd("Lamp", 0, 0))
Clear    == Line(<<"C", " ", "\r", "\n">>, Cmd("ClearFaults", 0, 0))
Rubbish  == Line(<<"E", " ", "1", "x", "\n">>, <<>>)
TooLarge == Line(<<"E", " ", "1", "0", "0", "\n">>, <<>>)
Overlong == [text |-> <<"V", " ", "1", " ", "1", "x", "C", "\n">>, means |-> <<>>, fits |-> FALSE]
All == {Drive, Press, LampOff, Clear, Rubbish, TooLarge, Overlong}
=============================================================================
