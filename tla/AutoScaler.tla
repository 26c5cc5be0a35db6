----------------------------- MODULE AutoScaler -----------------------------
(***************************************************************************)
(* The history of one metric and the scale guessed from it (autoscale.go). *)
(* The consumer of the bus adds values to the current slot and reads the   *)
(* mean and the spread; a goroutine with a ticker moves to the next slot,  *)
(* computes the statistics of all slots and empties the slot.  There is no *)
(* lock, and accesses to what they share are steps of their own here; the  *)
(* passes of analyse() over the slots and its store of the mean are one,   *)
(* and so are the load and store of counts[curSlot]++ (AddCount): a shift  *)
(* that came in between would meet an add that counts as met already.      *)
(*                                                                         *)
(* Floats are exact fractions, with those over zero standing for the       *)
(* infinite and undefined ones; roundoff is left out.  The square root is  *)
(* not computed: the variance is kept, and compared with squares.          *)
(***************************************************************************)
EXTENDS Integers, FiniteSets, FiniteSetsExt, Functions

CONSTANTS
    SlotsCount,     \* 3600 in the code
    MaxInt          \* the largest int, above any value

ASSUME AutoScalerAssumption ==
    /\ SlotsCount \in Nat \ {0}
    /\ MaxInt \in Nat

VARIABLES
    created,        \* the history exists, and its ticker runs
    slots, counts,  \* per slot, the sum and the number of values
    cur,            \* curSlot
    computed,
    mean, variance, \* variance is sd squared
    spc,            \* shift: "wait", "analyse", "sd", "zero", "count"
    newVariance,    \* of analyse
    apc,            \* the consumer: "take", "load", "store", "count", "ask", "scale", "show"
    met,            \* its metric: val and max
    at, loaded,     \* add: the index it is at, and what it loaded there
    readMean,       \* adjust: the mean it read
    real,           \* ghost: per slot, what add and shift would have made of it alone
    realMean,       \* ghost: its mean at the last shift, after SlotsCount others without overlap
    since           \* ghost: shifts since an add overlapped with one, to Recovered

historyVars == <<created, slots, counts, cur, computed, mean, variance>>
shiftVars == <<spc, newVariance>>
adjustVars == <<apc, met, at, loaded, readMean>>
ghostVars == <<real, realMean, since>>
scalerVars == <<historyVars, shiftVars, adjustVars, ghostVars>>

Slots == 0 .. SlotsCount - 1

\* Shifts after which nothing is left of an overlap: the one it is with, those of
\* the whole ring, and one for the mean.
Recovered == SlotsCount + 2

-----------------------------------------------------------------------------
(* Floats *)

\* The greatest common divisor of a and b is gcd[b][a].
gcd[b \in Nat] == [a \in Nat |-> IF b = 0 THEN a ELSE gcd[a % b][b]]

Float(n, d) ==
    IF n = 0 /\ d = 0 THEN [n |-> 0, d |-> 0]
    ELSE [n |-> n \div gcd[d][n], d |-> d \div gcd[d][n]]

NaN == Float(0, 0)
Inf == Float(1, 0)
IsFinite(f) == f.d # 0

Different(f, g) == f = NaN \/ f # g

\* f + g
SumOf(f, g) == IF f.d = 0 /\ g.d = 0 THEN Float(f.n * g.n, 0)
                                    ELSE Float(f.n * g.d + g.n * f.d, f.d * g.d)

SumOfAll(fun, indices) == FoldFunctionOnSet(SumOf, Float(0, 1), fun, indices)

\* (f - g) * (f - g)
DifferenceSquared(f, g) ==
    LET n == f.n * g.d - g.n * f.d
        d == f.d * g.d
    IN  Float(n * n, d * d)

\* The square of the distance of i to a finite mean is at most, or at least, k
\* times a finite variance.
SquareOff(i, m) == (i * m.d - m.n) * (i * m.d - m.n)
Within(i, m, k, v)  == SquareOff(i, m) * v.d <= k * v.n * m.d * m.d
Without(i, m, k, v) == SquareOff(i, m) * v.d >= k * v.n * m.d * m.d

\* max(int(mean - 3 * sd), 0): int() of NaN is 0, and saturates, on the arm
\* processors that blink11 is built for.
Low(m, v) ==
    CASE m = NaN \/ v = NaN -> 0
      [] v = Inf            -> 0
      [] m = Inf            -> MaxInt
      [] OTHER -> Max({0} \cup {i \in 0 .. m.n \div m.d : Without(i, m, 9, v)})

\* int(mean + 2 * sd)
High(m, v) ==
    CASE m = NaN \/ v = NaN -> 0
      [] m = Inf \/ v = Inf -> MaxInt
      [] OTHER -> LET floor == m.n \div m.d
                  IN  Max({floor} \cup {i \in floor + 1 .. floor + 2 * (v.n \div v.d + 2) : Within(i, m, 4, v)})

-----------------------------------------------------------------------------
(* analyse() *)

Filled(h) == {i \in Slots : h.slots[i] > 0}

Sum(h)   == SumFunctionOnSet(h.slots, Filled(h))
Count(h) == SumFunctionOnSet(h.counts, Filled(h))

\* sum / count, over the slots that have one
MeanOf(h) == Float(Sum(h), Count(h))

\* How much the mean of each slot is off, squared.
Squares(h, m) == [i \in Filled(h) |-> DifferenceSquared(Float(h.slots[i], h.counts[i]), m)]

\* The sum of the squares, divided by a number of slots.
VarianceOver(n, h, m) ==
    LET all == SumOfAll(Squares(h, m), Filled(h))
    IN  Float(all.n, n * all.d)

\* Divided by all slots, filled or not
VarianceOf(h, m) == VarianceOver(SlotsCount, h, m)

History == [slots |-> slots, counts |-> counts]

-----------------------------------------------------------------------------
ScalerInit ==
    /\ created = FALSE
    /\ slots = [i \in Slots |-> 0] /\ counts = [i \in Slots |-> 0]
    /\ cur = 0
    /\ computed = FALSE
    /\ mean = Float(0, 1) /\ variance = Float(0, 1)
    /\ spc = "wait" /\ newVariance = NaN
    /\ apc = "take" /\ met = [val |-> 0, max |-> 0]
    /\ at = 0 /\ loaded = 0 /\ readMean = NaN
    /\ real = History /\ realMean = NaN
    /\ since = Recovered

Adding   == apc \in {"load", "store", "count"}
Shifting == spc # "wait"

\* How a step counts shifts: from the beginning when an add overlaps with one.
Overlaps == IF Adding' /\ Shifting' THEN since' = 0 ELSE UNCHANGED since

AdjustAt(p, q) == apc = p /\ apc' = q
ShiftAt(p, q)  == spc = p /\ spc' = q

-----------------------------------------------------------------------------
(* shift(), in the goroutine of the ticker *)

Advance ==
    /\ created
    /\ ShiftAt("wait", "analyse")
    /\ cur' = (cur + 1) % SlotsCount
    /\ UNCHANGED <<created, slots, counts, computed, mean, variance, newVariance, adjustVars, real, realMean>>
    /\ Overlaps

\* analyse(): only a mean that differs replaces the statistics.
Analyse ==
    /\ spc = "analyse"
    /\ mean' = MeanOf(History)
    /\ IF Different(mean', mean)
       THEN spc' = "sd" /\ newVariance' = VarianceOf(History, mean') /\ UNCHANGED computed
       ELSE spc' = "zero" /\ computed' = TRUE /\ UNCHANGED newVariance
    /\ realMean' = IF since < SlotsCount THEN NaN ELSE MeanOf(real)
    /\ UNCHANGED <<created, slots, counts, cur, variance, adjustVars, real>>
    /\ Overlaps

PublishSpread ==
    /\ ShiftAt("sd", "zero")
    /\ variance' = newVariance
    /\ newVariance' = NaN
    /\ computed' = TRUE
    /\ UNCHANGED <<created, slots, counts, cur, mean, adjustVars, real, realMean>>
    /\ Overlaps

ZeroSlot ==
    /\ ShiftAt("zero", "count")
    /\ slots' = [slots EXCEPT ![cur] = 0]
    /\ UNCHANGED <<created, counts, cur, computed, mean, variance, newVariance, adjustVars, real, realMean>>
    /\ Overlaps

\* Mutation: the count of the slot is left as it was.
ZeroCountForgotten ==
    /\ ShiftAt("count", "wait")
    /\ real' = [slots |-> [real.slots EXCEPT ![cur] = 0], counts |-> [real.counts EXCEPT ![cur] = 0]]
    /\ since' = IF Adding THEN 0 ELSE Min({since + 1, Recovered})
    /\ UNCHANGED <<historyVars, newVariance, adjustVars, realMean>>

ZeroCount ==
    /\ ShiftAt("count", "wait")
    /\ counts' = [counts EXCEPT ![cur] = 0]
    /\ real' = [slots |-> [real.slots EXCEPT ![cur] = 0], counts |-> [real.counts EXCEPT ![cur] = 0]]
    /\ since' = IF Adding THEN 0 ELSE Min({since + 1, Recovered})
    /\ UNCHANGED <<created, slots, cur, computed, mean, variance, newVariance, adjustVars, realMean>>

Shift ==
    \/ Advance \/ Analyse \/ PublishSpread
    \/ ZeroSlot \/ ZeroCount

-----------------------------------------------------------------------------
(* adjust(), in the consumer *)

\* A metric with a max is left as it is; the history of the others is created
\* with the first, and only values above 0 are added.
Adjust(m) ==
    /\ apc = "take"
    /\ met' = m
    /\ created' = (created \/ m.max < 0)
    /\ apc' = IF m.max >= 0 THEN "show" ELSE IF m.val > 0 THEN "load" ELSE "ask"
    /\ UNCHANGED <<slots, counts, cur, computed, mean, variance, shiftVars, at, loaded, readMean, real, realMean>>
    /\ Overlaps

\* h.slots[h.curSlot] += val is a load and a store.
LoadSlot ==
    /\ AdjustAt("load", "store")
    /\ at' = cur /\ loaded' = slots[cur]
    /\ UNCHANGED <<historyVars, shiftVars, met, readMean, real, realMean>>
    /\ Overlaps

StoreSlot ==
    /\ AdjustAt("store", "count")
    /\ slots' = [slots EXCEPT ![at] = loaded + met.val]
    /\ at' = 0 /\ loaded' = 0
    /\ UNCHANGED <<created, counts, cur, computed, mean, variance, shiftVars, met, readMean, real, realMean>>
    /\ Overlaps

\* h.counts[h.curSlot]++
AddCount ==
    /\ AdjustAt("count", "ask")
    /\ counts' = [counts EXCEPT ![cur] = @ + 1]
    /\ real' = [slots  |-> [real.slots EXCEPT ![cur] = @ + met.val],
                 counts |-> [real.counts EXCEPT ![cur] = @ + 1]]
    /\ since' = IF Shifting THEN 0 ELSE since
    /\ UNCHANGED <<created, slots, cur, computed, mean, variance, shiftVars, met, at, loaded, readMean, realMean>>

AskComputed ==
    /\ apc = "ask"
    /\ IF computed THEN apc' = "scale" /\ readMean' = mean /\ UNCHANGED met
                   ELSE apc' = "show" /\ met' = [met EXCEPT !.max = met.val] /\ UNCHANGED readMean
    /\ UNCHANGED <<historyVars, shiftVars, at, loaded, ghostVars>>

\* Mutation: the value is not held to the scale.
ScaledFreely(val, low, high) == [val |-> Max({val - low, 0}), max |-> high - low]

Scaled(val, low, high) == [val |-> Min({Max({val - low, 0}), high - low}), max |-> high - low]

\* The mean and the spread are each loaded once: nothing is stored between their
\* two uses.  A shift may still replace one between those loads.
Scale ==
    /\ AdjustAt("scale", "show")
    /\ met' = Scaled(met.val, Low(readMean, variance), High(readMean, variance))
    /\ readMean' = NaN
    /\ UNCHANGED <<historyVars, shiftVars, at, loaded, ghostVars>>

Add == LoadSlot \/ StoreSlot \/ AddCount

-----------------------------------------------------------------------------

\* Whatever the races of an add with a shift leave behind, lost values, values
\* without a count, counts without values, is gone once the ring went round without
\* another one: the slots then hold the values that were added, and after one more
\* shift their mean is the one in use (autoscale.go:87-98).
HistoryRecovers ==
    ~Adding /\ ~Shifting =>
        /\ since >= Recovered - 1 => History = real
        /\ since = Recovered /\ computed => mean = realMean
=============================================================================
