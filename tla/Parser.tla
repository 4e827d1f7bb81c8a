------------------------------- MODULE Parser -------------------------------
(***************************************************************************)
(* auk::app::parse: from the characters of an uplink line to a command.    *)
(* "0" and "1" stand for the digits, and a character no operator here      *)
(* names for those that strtof does not take or that spell what            *)
(* parse_float refuses: nan, inf, magnitudes over a million.  Fractions    *)
(* and exponents add values, not outcomes, and are left out.  A result is  *)
(* the set of what a text stands for: one element, or none if rejected.    *)
(***************************************************************************)
EXTENDS Integers, Sequences, SequencesExt

CONSTANT NumberCapacity     \* the size of parse_float's scratch buffer: 32

ASSUME ParserAssumption == NumberCapacity \in Nat

DigitValue == [d \in {"0", "1"} |-> IF d = "1" THEN 1 ELSE 0]

IsBlank(c) == c = " "

Text == Seq(STRING)

\* What strtof skips before a number.
AfterBlanks(text) ==
    LET first == SelectInSeq(text, LAMBDA c : ~IsBlank(c))
    IN  IF first = 0 THEN <<>> ELSE SubSeq(text, first, Len(text))

\* parse() trims at the other end.
BeforeBlanks(text) == SubSeq(text, 1, SelectLastInSeq(text, LAMBDA c : ~IsBlank(c)))

Magnitude[digits \in Text] ==
    IF digits = <<>> THEN 0 ELSE 10 * Magnitude[Front(digits)] + DigitValue[Last(digits)]

\* The number a text without leading blanks is, as a whole.
NumberIn[text \in Text] ==
    LET negative == text # <<>> /\ Head(text) = "-"
        digits   == IF negative THEN Tail(text) ELSE text
    IN  IF digits = <<>> \/ ~(ToSet(digits) \subseteq DOMAIN DigitValue) THEN {}
        ELSE IF negative THEN {-Magnitude[digits]}
        ELSE {Magnitude[digits]}

\* A number, short enough for the scratch buffer.
ParseFloat[text \in Text] ==
    IF Len(text) < NumberCapacity THEN NumberIn[AfterBlanks(text)] ELSE {}

\* The two numbers of a V line are divided by the first blank.
VelocityIn[text \in Text] ==
    LET space == SelectInSeq(text, IsBlank)
    IN  IF space = 0 THEN {}
        ELSE {[kind |-> "Velocity", args |-> <<linear, angular>>] :
                 linear \in ParseFloat[SubSeq(text, 1, space - 1)],
                 angular \in ParseFloat[SubSeq(text, space + 1, Len(text))]}

\* What is not zero counts as set.
FlagIn(kind, text) ==
    {[kind |-> kind, args |-> <<IF value = 0 THEN 0 ELSE 1, 0>>] : value \in ParseFloat[text]}

Trimmed[text \in Text] ==
    LET verb(v) == Len(text) > 1 /\ text[1] = v /\ IsBlank(text[2])
        rest    == SubSeq(text, 3, Len(text))
    IN  CASE verb("V") -> VelocityIn[rest]
          [] verb("L") -> FlagIn("Lamp", rest)
          [] verb("E") -> FlagIn("EmergencyStop", rest)
          [] text = <<"C">> -> {[kind |-> "ClearFaults", args |-> <<0, 0>>]}
          [] OTHER -> {}

Parse(line) == Trimmed[BeforeBlanks(line)]
=============================================================================
