------------------------------- MODULE Meters -------------------------------
(***************************************************************************)
(* What a meter makes of a metric on its LEDs (meter.go, Gate of           *)
(* metric.go).  A meter is a record: its type, the number of its LEDs,     *)
(* whether its scale is rounded down, and its gate in percents.  An LED is *)
(* what was last given for it to console.Led: a brightness, or for the     *)
(* flash and strobe types the share of the time that it is lit, as a       *)
(* fraction.                                                               *)
(***************************************************************************)
EXTENDS Integers, FiniteSets, FiniteSetsExt, Functions

Fraction(n, d) == [num |-> n, den |-> d]
Dark == Fraction(0, 1)
Lit  == Fraction(1, 1)

LedsOf(m) == 0 .. m.count - 1

\* What LedError shows, on every LED.
ErrorLeds(m) == [i \in LedsOf(m) |-> Fraction(-1, 1)]

\* Gate(): 0/0 is not less than any gate.
Gated(val, max, gate) == IF 100 * val < gate * max THEN 0 ELSE val

\* scaleFloat() to [0, 1]
Share(val, max) == IF val = 0 THEN Dark ELSE Fraction(val, max)

\* Mutation: every scale is rounded down.
HighestFloor(m, val, max) == IF val = 0 THEN 0 ELSE (val * m.count) \div max

\* scaleFloor() and scaleRound() to the number of LEDs
Highest(m, val, max) ==
    CASE val = 0 -> 0
      [] val # 0 /\ m.floor  -> (val * m.count) \div max
      [] val # 0 /\ ~m.floor -> (2 * val * m.count + max) \div (2 * max)

\* 1 << i
power[i \in Nat] == IF i = 0 THEN 1 ELSE 2 * power[i - 1]

Bit(val, i) == (val \div power[i]) % 2

\* updateFn
Update(m, val, max) ==
    [i \in LedsOf(m) |->
        CASE m.type \in {"lumen", "flash", "strobe"} -> Share(val, max)
          [] m.type = "bar"    -> IF i < Highest(m, val, max) THEN Lit ELSE Dark
          [] m.type = "dot"    -> IF i = Highest(m, val, max) - 1 THEN Lit ELSE Dark
          [] m.type = "binary" -> IF Bit(val, i) = 1 THEN Lit ELSE Dark]

visualise(m, met) ==
    IF met.val < 0 \/ met.val > met.max THEN ErrorLeds(m)
    ELSE Update(m, Gated(met.val, met.max, m.gate), met.max)

-----------------------------------------------------------------------------
(* Reading a meter *)

LitLeds(leds) == {i \in DOMAIN leds : leds[i] = Lit}

\* A panel tells the value it was given, to half an LED or to one for a meter that
\* rounds down; a gated value as 0.
Tells(m, leds, val, max) ==
    LET position == IF m.type = "dot"
                    THEN SumFunctionOnSet([i \in LedsOf(m) |-> i + 1], LitLeds(leds))
                    ELSE Cardinality(LitLeds(leds))
        off == position * max - val * m.count
    IN  CASE m.type \in {"lumen", "flash", "strobe"} ->
                \A i \in DOMAIN leds : leds[i].num * max = leds[i].den * val
          [] m.type \in {"bar", "dot"} ->
                IF m.floor THEN (-max < off /\ off <= 0) \/ (val = 0 /\ position = 0)
                           ELSE -max <= 2 * off /\ 2 * off <= max
          [] m.type = "binary" ->
                SumFunctionOnSet(power, LitLeds(leds)) = val % power[m.count]
=============================================================================
