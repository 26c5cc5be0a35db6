----------------------------- MODULE MCMetrics -----------------------------
(* Small readings of every kind, and a meter of every type.                *)
EXTENDS Metrics

Tick1 == {TickOf(k) : k \in TickKinds}
Tick2 == {Plus(r, s) : r \in Tick1, s \in Tick1}
MCCpuReadings == {NoTicks} \cup Tick1 \cup Tick2 \cup {Plus(r, s) : r \in Tick2, s \in Tick1}

MCAdvances == {-1, 0, 1}
MCLoads == {0, 7, 150, 900}

Meter(type, count, floor, gate) == [type |-> type, count |-> count, floor |-> floor, gate |-> gate]

MCClocks == [hour : 0 .. 23, minute : {0, 59}, second : {0, 29, 58, 59}, nanosecond : {0, 1, 10, 19}]

MCMeterSet == {Meter("bar", 3, FALSE, 0), Meter("bar", 4, TRUE, 50), Meter("dot", 4, FALSE, 0),
               Meter("dot", 3, TRUE, 0), Meter("lumen", 1, FALSE, 30), Meter("binary", 3, FALSE, 0),
               Meter("binary", 16, FALSE, 0), Meter("dot", 16, FALSE, 0),
               Meter("flash", 1, FALSE, 100)}
=============================================================================
