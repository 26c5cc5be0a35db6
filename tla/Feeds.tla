------------------------------- MODULE Feeds -------------------------------
(***************************************************************************)
(* The metrics that the time and idle feeds make (feed.go): readings of    *)
(* the clock, and three patterns of idle machines, each with a counter and *)
(* a ticker of its own.  How the goroutines of feeds are started and       *)
(* stopped is in EventLoop, and that they share the bus in Display.        *)
(***************************************************************************)
EXTENDS Meters

CONSTANT
    Second      \* what t.Nanosecond() counts a second as, 10^9 in the code

ASSUME FeedsAssumption == Second \in Nat \ {0}

VARIABLES
    pdp11Counter, bsdCounter,           \* of which the code uses the remainder by 8 and 16
    rt11Width, rt11Offset, rt11Step     \* the block of lights that goes back and forth

rt11Vars == <<rt11Width, rt11Offset, rt11Step>>
idleVars == <<pdp11Counter, bsdCounter, rt11Vars>>

PanelWidth == 16    \* lights of the idle patterns
FirstWidth == 15

Full(val) == [val |-> val, max |-> val]

-----------------------------------------------------------------------------
(* The clock *)

\* The metrics made of a reading of the clock.
TimeMetrics(t) ==
    {[val |-> IF t.hour >= 12 THEN 1 ELSE 2, max |-> 2],
     [val |-> t.hour, max |-> 23],
     [val |-> t.hour % 12, max |-> 11],
     [val |-> t.minute, max |-> 59],
     [val |-> t.second, max |-> 59],
     [val |-> t.nanosecond, max |-> Second - 1],
     [val |-> IF t.second % 2 = 0 THEN t.nanosecond ELSE Second - t.nanosecond, max |-> Second]}

-----------------------------------------------------------------------------
(* The idle patterns *)

\* The goroutine starts with the patterns at their beginning.
IdleBegins ==
    /\ pdp11Counter = 0 /\ bsdCounter = 0
    /\ rt11Width = FirstWidth /\ rt11Offset = 0 /\ rt11Step = 1

\* Mutation: the full block starts where the last light was.
rt11AgainHere ==
    /\ rt11Width' = FirstWidth /\ rt11Step' = 1
    /\ UNCHANGED rt11Offset

rt11Again == rt11Width' = FirstWidth /\ rt11Offset' = 0 /\ rt11Step' = 1

IdleBeginsAgain ==
    /\ pdp11Counter' = 0 /\ bsdCounter' = 0
    /\ rt11Again

\* The lights of a number, as a binary meter shows it
Lights(S) == SumFunctionOnSet(power, S)

\* Two lights that cross.
pdp11Lights == {pdp11Counter, PanelWidth - 1 - pdp11Counter}

pdp11Tick ==
    /\ pdp11Counter' = (pdp11Counter + 1) % 8
    /\ UNCHANGED <<bsdCounter, rt11Vars>>

\* One light, that goes round.
bsdMetric == [val |-> 1 + bsdCounter, max |-> PanelWidth]

bsdTick ==
    /\ bsdCounter' = (bsdCounter + 1) % PanelWidth
    /\ UNCHANGED <<pdp11Counter, rt11Vars>>

Turns(offset) == offset = 0 \/ offset + rt11Width = PanelWidth

\* A block that moves by one, and loses one at each end; the last one left is followed
\* by a full block.
rt11Tick ==
    /\ LET offset == rt11Offset + rt11Step
       IN  \/ /\ ~Turns(offset)
              /\ rt11Offset' = offset
              /\ UNCHANGED <<rt11Width, rt11Step>>
           \/ /\ Turns(offset) /\ rt11Width > 1
              /\ rt11Offset' = offset
              /\ rt11Width' = rt11Width - 1
              /\ rt11Step' = -rt11Step
           \/ /\ Turns(offset) /\ rt11Width = 1
              /\ rt11Again
    /\ UNCHANGED <<pdp11Counter, bsdCounter>>

rt11Lights == rt11Offset .. rt11Offset + rt11Width - 1

-----------------------------------------------------------------------------

\* However long the feed has run and whenever it was started again, the block of the
\* rt11 pattern has a light and stays on the panel: the widths and offsets that the
\* lights are shifted by are never negative, which would end the program
\* (feed.go:264-276).
PatternFits == rt11Width > 0 /\ rt11Lights \subseteq 0 .. PanelWidth - 1
=============================================================================
