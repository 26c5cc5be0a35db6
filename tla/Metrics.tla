------------------------------ MODULE Metrics ------------------------------
(***************************************************************************)
(* One metric, from where it comes from to the LEDs of its meter.  It is   *)
(* computed by agent11 from kernel counters (Stats), sent as a line and    *)
(* read by read.go, or made by a feed (Feeds), or is the number of         *)
(* messages counted lately (Counter); the consumer of the bus gives those  *)
(* without a max a scale (AutoScaler), and has them shown (Meters).        *)
(*                                                                         *)
(* The bus, the store and mode switches are in Display, connections in     *)
(* Agent and NetworkFeed: what is sent is taken by the consumer at once.   *)
(* Messages are counted when it is the counter that is followed.           *)
(***************************************************************************)
EXTENDS AutoScaler, Counter, Feeds, Stats

CONSTANTS
    Kinds,          \* what may be followed, of "cpu", "load", "rate", "counter", "time",
                    \* "idle.pdp11", "idle.bsd" and "idle.rt11"
    CpuReadings,    \* what a reading of a cpu line may find
    Advances,       \* what numbers of packets or disk operations may advance by
    Loads,          \* load averages, in hundredths
    Cpus,           \* processors of the agent's machine
    Clocks,         \* readings of the clock
    MeterSet,       \* the meters that may show it
    MaxAdds, MaxSum,    \* bounds: values added to a slot of the history, and their sum
    MaxOthers       \* bound: other messages counted in a slot of the counter

\* Counters of the kernel are ints, loads are never negative, and a clock reads what
\* Go's time package returns.  A meter has LEDs, of the types of newMeterFromConfig().
ASSUME MetricsAssumption ==
    /\ CpuReadings \subseteq [CpuFields -> Int]
    /\ Advances \subseteq Int
    /\ Loads \subseteq Nat
    /\ Cpus \in Nat \ {0}
    /\ Clocks \subseteq [hour : 0 .. 23, minute : 0 .. 59, second : 0 .. 59,
                          nanosecond : 0 .. Second - 1]
    /\ MeterSet \subseteq [type : {"lumen", "flash", "strobe", "bar", "dot", "binary"},
                            count : Nat \ {0}, floor : BOOLEAN, gate : Int]

VARIABLES
    kind,       \* where the metric comes from
    firstTime,  \* the agent has not yet made a first reading
    back        \* ghost: the metric the consumer has is from a counter that went back

vars == <<kind, firstTime, back, scalerVars, counterVars, idleVars>>

Init ==
    /\ kind \in Kinds
    /\ firstTime = TRUE
    /\ back = FALSE
    /\ ScalerInit /\ CounterInit /\ IdleBegins

-----------------------------------------------------------------------------
(* The agent and the reader *)

\* The first reading of the packets or disk operations is only remembered.
Remember ==
    /\ kind = "rate" /\ firstTime
    /\ firstTime' = FALSE
    /\ UNCHANGED <<kind, back, scalerVars, counterVars, idleVars>>

\* A value with a sign is no metric for the reader: the line is invalid.
ValidLine(m) == m.val >= 0

\* What the agent may send of the metric, and whether a counter went back for it.
Sent ==
    CASE kind = "cpu"  -> UNION {{<<m, WentBack(r)>> : m \in ProcMetrics(r)} : r \in CpuReadings}
      [] kind = "load" -> {<<Load(a, Cpus), FALSE>> : a \in Loads}
      [] kind = "rate" /\ ~firstTime ->
            UNION {{<<m, in < 0 \/ out < 0>> : m \in NetMetrics(in, out) \cup DiskMetrics(in, out)} :
                   in, out \in Advances}
      [] OTHER -> {}

-----------------------------------------------------------------------------
(* The feeds *)

\* The clock is read at any time, and may be set.
SentByClock == UNION {TimeMetrics(t) : t \in Clocks}

\* A mode without the feed is selected, then one with it.
FeedRestarts ==
    /\ kind \in {"idle.pdp11", "idle.bsd", "idle.rt11"}
    /\ IdleBeginsAgain
    /\ UNCHANGED <<kind, firstTime, back, scalerVars, counterVars>>

-----------------------------------------------------------------------------
(* The consumer of the bus *)

\* The bounds of the history
Room(m) == \A i \in Slots : slots[i] + m.val <= MaxSum /\ counts[i] < MaxAdds
Added(m) == m.max < 0 /\ m.val > 0 => Room(m)

\* A metric of the agent, when the reader takes its line.
TakeLine(m, wentBack) ==
    /\ ValidLine(m)
    /\ Added(m)
    /\ Adjust(m)
    /\ back' = wentBack
    /\ UNCHANGED <<kind, firstTime, counterVars, idleVars>>

\* A metric of the time feed.
TakeTime(m) ==
    /\ kind = "time"
    /\ Adjust(m)
    /\ UNCHANGED <<kind, firstTime, back, counterVars, idleVars>>

\* The ticker of the idle pattern that is followed.
TakePattern ==
    /\ \/ kind = "idle.pdp11" /\ pdp11Tick /\ Adjust(Full(Lights(pdp11Lights')))
       \/ kind = "idle.bsd"   /\ bsdTick   /\ Adjust(bsdMetric')
       \/ kind = "idle.rt11"  /\ rt11Tick  /\ Adjust(Full(Lights(rt11Lights')))
    /\ UNCHANGED <<kind, firstTime, back, counterVars>>

\* Every message taken is counted, the sums as well.
TakeSum ==
    /\ sum # NoSum
    /\ Added(Guessed(sum))
    /\ account
    /\ Adjust(Guessed(sum))
    /\ sum' = NoSum
    /\ UNCHANGED <<kind, firstTime, back, idleVars>>

\* A message that is not of the metric
TakeOther ==
    /\ kind = "counter"
    /\ apc = "take"
    /\ timeSlots[curSlot] < MaxOthers
    /\ account
    /\ UNCHANGED <<kind, firstTime, back, sum, scalerVars, idleVars>>

adjust == (Add \/ AskComputed \/ Scale) /\ UNCHANGED <<kind, firstTime, back, counterVars, idleVars>>

\* The metric is shown by the meter of the current mode, if it has one: by any.
Show ==
    /\ AdjustAt("show", "take")
    /\ met' = [val |-> 0, max |-> 0]
    /\ back' = FALSE
    /\ UNCHANGED <<kind, firstTime, historyVars, shiftVars, at, loaded, readMean, ghostVars, counterVars, idleVars>>

shift == Shift /\ UNCHANGED <<kind, firstTime, back, counterVars, idleVars>>
tick  == kind = "counter" /\ Tick /\ UNCHANGED <<kind, firstTime, back, scalerVars, idleVars>>

TakeMetric ==
    \/ \E s \in Sent : TakeLine(s[1], s[2])
    \/ \E m \in SentByClock : TakeTime(m)
    \/ TakePattern \/ TakeSum

Consumer == TakeMetric \/ TakeOther \/ adjust \/ Show

Next == Remember \/ Consumer \/ shift \/ tick \/ FeedRestarts

Spec == Init /\ [][Next]_vars

-----------------------------------------------------------------------------
TypeOK ==
    /\ cur \in Slots /\ at \in Slots
    /\ slots \in [Slots -> Nat] /\ counts \in [Slots -> Nat]
    /\ real \in [slots : [Slots -> Nat], counts : [Slots -> Nat]]
    /\ timeSlots \in [Ring -> Nat] /\ curSlot \in Ring /\ sum \in Nat \cup {NoSum}
    /\ met \in [val : Nat, max : Int]
    /\ since \in 0 .. Recovered

Shown == apc = "show"
Failed(m) == visualise(m, met) = ErrorLeds(m)

\* No metric of the program or of its agents makes the LEDs of a meter show an
\* error, whatever it is scaled with at that moment and however shifts and adds
\* meet, unless a counter of the kernel went back ("it should be >= val" metric.go:9).
NoErrorLeds == Shown /\ ~back => \A m \in MeterSet : ~Failed(m)

\* Every type of meter tells the value it was given, or 0 for one below its gate
\* (meter.go:62-160).
LedsTell ==
    Shown => \A m \in MeterSet :
        Failed(m) \/ Tells(m, visualise(m, met), Gated(met.val, met.max, m.gate), met.max)

\* "it should be >= val" (metric.go:9), of the max of every metric that is shown:
\* refuted when the iowait of a processor goes back, see the findings.
MaxHolds == Shown => met.val <= met.max

\* "max = mean+sd for non-0 values" (autoscale.go:101): the spread in use is the one
\* of the slots that have values.  The code divides by all of them, and keeps the
\* spread when the mean is the same, see the findings.
SpreadOfValues ==
    spc = "zero" /\ ~Adding /\ since = Recovered /\ IsFinite(mean) =>
        variance = VarianceOver(Cardinality(Filled(History)), History, mean)
=============================================================================
