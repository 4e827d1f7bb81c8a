------------------------------ MODULE MCPlant -------------------------------
EXTENDS Plant

\* Steep at the ends, flat between, with a voltage entered twice.
SocCurve == <<[volts |-> 2, soc |-> 0], [volts |-> 4, soc |-> 2], [volts |-> 4, soc |-> 2],
              [volts |-> 8, soc |-> 4], [volts |-> 9, soc |-> 5]>>
=============================================================================
