--------------------------- MODULE Metrics_proofs ---------------------------
(***************************************************************************)
(* Whatever the values of a metric, their number and the number of slots:  *)
(*                                                                         *)
(* - every message counted is in exactly three of the sums.  The equation  *)
(*   is inductive together with the types of the ring it is about;         *)
(*                                                                         *)
(* - what an add and a shift that meet do to the history does not outlast  *)
(*   a turn of the ring.  HistoryRecovers looks at the end of it only.     *)
(*   HistoryInv says how it comes about: the slots emptied since the last  *)
(*   overlap, the current one and those before it, are clean, one more     *)
(*   with each shift, and a mean computed from clean slots only is right;  *)
(*                                                                         *)
(* - the block of the rt11 pattern stays on the panel.  That alone is not  *)
(*   inductive: IdleInv adds that the next move does not leave it either;  *)
(*                                                                         *)
(* - the LEDs of a meter of any type and size tell what they were given,   *)
(*   and show no error unless a counter went back.  MetricInv has the      *)
(*   numbers that are computed on the way, from the readings of the agent  *)
(*   and the clock to the scale: floats that may be none, but are never    *)
(*   negative, so that a scale does not end before it begins.              *)
(*                                                                         *)
(* The last one needs sums, bits and divisors for every size, by           *)
(* induction.  InductionOn has a set where the principle has a predicate,  *)
(* and Recursion a function where it has an operator, which is all that    *)
(* first-order provers need to use them.                                   *)
(***************************************************************************)
EXTENDS Metrics, FiniteSetTheorems, TLAPS

-----------------------------------------------------------------------------
(* The counter *)

\* The slots by their age, whatever the current one.
LEMMA RingOfThree ==
    ASSUME NEW c \in Ring
    PROVE  /\ (c + 1) % NumSlots = IF c = 2 THEN 0 ELSE c + 1
           /\ (c + NumSlots - 0) % NumSlots = c
           /\ (c + NumSlots - 1) % NumSlots = IF c = 0 THEN 2 ELSE c - 1
           /\ (c + NumSlots - 2) % NumSlots = IF c = 2 THEN 0 ELSE c + 1
BY DEF Ring, NumSlots

CounterInv ==
    /\ timeSlots \in [Ring -> Int] /\ curSlot \in Ring /\ owed \in Int
    /\ CountedInThreeSums

LEMMA AccountCounts ==
    ASSUME CounterInv, account
    PROVE  CounterInv'
<1>1. /\ timeSlots' \in [Ring -> Int] /\ curSlot' \in Ring /\ owed' \in Int
      /\ timeSlots'[curSlot] = timeSlots[curSlot] + 1
      /\ \A i \in Ring : i # curSlot => timeSlots'[i] = timeSlots[i]
  BY DEF account, CounterInv, NumSlots
<1>2. CountedInThreeSums'
  BY <1>1, RingOfThree DEF account, CounterInv, CountedInThreeSums, Earlier, Ring, NumSlots
<1> QED
  BY <1>1, <1>2 DEF CounterInv

LEMMA TickCounts ==
    ASSUME CounterInv, Tick
    PROVE  CounterInv'
<1>1. /\ curSlot' = IF curSlot = 2 THEN 0 ELSE curSlot + 1
      /\ curSlot' \in Ring
  BY RingOfThree DEF Tick, CounterInv, Ring, NumSlots
<1>2. /\ Total \in Int
      /\ timeSlots' \in [Ring -> Int] /\ owed' \in Int
      /\ timeSlots'[curSlot'] = 0
      /\ \A i \in Ring : i # curSlot' => timeSlots'[i] = timeSlots[i]
  BY <1>1 DEF Tick, CounterInv, Total, Ring, NumSlots
<1>3. CountedInThreeSums'
  BY <1>1, <1>2, RingOfThree DEF Tick, CounterInv, CountedInThreeSums, Earlier, Total, Ring, NumSlots
<1> QED
  BY <1>1, <1>2, <1>3 DEF CounterInv

LEMMA CounterInitially == CounterInit => CounterInv
BY RingOfThree DEF CounterInit, CounterInv, CountedInThreeSums, Earlier, Ring, NumSlots

LEMMA CounterStep ==
    ASSUME CounterInv, [Next]_vars
    PROVE  CounterInv'
<1>1. CASE account
  BY <1>1, AccountCounts
<1>2. CASE Tick
  BY <1>2, TickCounts
<1>3. CASE UNCHANGED <<timeSlots, curSlot, owed>>
  BY <1>3 DEF CounterInv, CountedInThreeSums, Earlier
<1>4. account \/ Tick \/ UNCHANGED <<timeSlots, curSlot, owed>>
  <2>1. CASE \/ \E s \in Sent : TakeLine(s[1], s[2])
             \/ \E m \in SentByClock : TakeTime(m)
             \/ TakePattern \/ FeedRestarts
    BY <2>1 DEF TakeLine, TakeTime, TakePattern, FeedRestarts, counterVars
  <2>2. CASE TakeSum \/ TakeOther \/ tick
    BY <2>2 DEF TakeSum, TakeOther, tick
  <2>3. CASE Remember \/ adjust \/ Show \/ shift \/ UNCHANGED vars
    BY <2>3 DEF Remember, adjust, Show, shift, vars, counterVars
  <2> QED
    BY <2>1, <2>2, <2>3 DEF Next, Consumer, TakeMetric
<1> QED
  BY <1>1, <1>2, <1>3, <1>4

\* Every message counted is in exactly three of the sums that are sent, whatever
\* the time between ticks and however long the ticker waits for room on the bus
\* (counter.go:33-46).
THEOREM CountsCorrect == Spec => []CountedInThreeSums
<1>1. Init => CounterInv
  BY CounterInitially DEF Init
<1>2. CounterInv /\ [Next]_vars => CounterInv'
  BY CounterStep
<1>3. CounterInv => CountedInThreeSums
  BY DEF CounterInv
<1> QED
  BY <1>1, <1>2, <1>3, PTL DEF Spec

-----------------------------------------------------------------------------
(* The history *)

\* How many slots ago the current one was slot i.
Age(i) == IF i <= cur THEN cur - i ELSE cur - i + SlotsCount

\* The slot has the values that were added to it since it was emptied.
Clean(i) == slots[i] = real.slots[i] /\ counts[i] = real.counts[i]

\* All but the count of the last.
Half(i) == slots[i] = real.slots[i] + met.val /\ counts[i] = real.counts[i]

Parts ==
    /\ cur \in Slots
    /\ since \in 0 .. Recovered
    /\ apc \in {"take", "load", "store", "count", "ask", "scale", "show"}
    /\ spc \in {"wait", "analyse", "sd", "zero", "count"}
    /\ slots = [i \in Slots |-> slots[i]]
    /\ counts = [i \in Slots |-> counts[i]]
    /\ real = [slots  |-> [i \in Slots |-> real.slots[i]],
               counts |-> [i \in Slots |-> real.counts[i]]]

\* Without an overlap, an add is with the slot it began with.
AddAlone ==
    since > 0 =>
        /\ ~(Adding /\ Shifting)
        /\ apc = "store" => at = cur /\ loaded = slots[cur]

\* A slot emptied since the last overlap is clean.
CleanBetween ==
    ~Shifting => \A i \in Slots : Age(i) < since - 1 =>
        IF apc = "count" /\ i = cur THEN Half(i) ELSE Clean(i)

\* So are all but the one that is emptied, meanwhile, and that one once the ring
\* went round.
CleanDuring ==
    Shifting /\ since > 0 =>
        /\ \A i \in Slots \ {cur} : Age(i) < since => Clean(i)
        /\ spc = "analyse" /\ since > SlotsCount => Clean(cur)
        /\ spc = "count" => slots[cur] = 0

\* The mean is that of clean slots when they were when it was computed.
MeanReal ==
    /\ since = Recovered /\ computed => mean = realMean
    /\ since >= Recovered - 1 /\ spc \in {"sd", "zero", "count"} => mean = realMean

HistoryInv == Parts /\ AddAlone /\ CleanBetween /\ CleanDuring /\ MeanReal

LEMMA HistoryInitially == ScalerInit => HistoryInv
BY AutoScalerAssumption DEF ScalerInit, History, HistoryInv, Parts, AddAlone, CleanBetween, Clean,
   CleanDuring, MeanReal, Recovered, Slots, Shifting, Adding, Age

\* The history is that of the clean slots.
LEMMA AllClean ==
    ASSUME Parts, \A i \in Slots : Clean(i)
    PROVE  History = real
BY DEF Parts, Clean, History

LEMMA HistoryInvIsRight == HistoryInv => HistoryRecovers
<1> SUFFICES ASSUME HistoryInv, ~Adding, ~Shifting
             PROVE  /\ since >= Recovered - 1 => History = real
                    /\ since = Recovered /\ computed => mean = realMean
  BY DEF HistoryRecovers
<1>1. ASSUME since >= Recovered - 1
      PROVE  \A i \in Slots : Clean(i)
  BY <1>1, AutoScalerAssumption
     DEF HistoryInv, Parts, CleanBetween, Age, Slots, Recovered, Adding
<1> QED
  BY <1>1, AllClean DEF HistoryInv, MeanReal

-----------------------------------------------------------------------------
(* The steps of a shift *)

LEMMA NextSlot ==
    ASSUME NEW c \in Slots
    PROVE  (c + 1) % SlotsCount = IF c = SlotsCount - 1 THEN 0 ELSE c + 1
<1>1. SlotsCount \in Nat \ {0}
  BY AutoScalerAssumption
<1>2. CASE c = SlotsCount - 1
  BY <1>1, <1>2
<1>3. CASE c # SlotsCount - 1
  BY <1>1, <1>3 DEF Slots
<1> QED
  BY <1>2, <1>3

\* The next slot is the oldest, and all others are one shift older then.
LEMMA AdvanceKeeps ==
    ASSUME HistoryInv, Advance
    PROVE  HistoryInv'
<1>1. SlotsCount \in Nat \ {0} /\ cur \in Slots /\ since \in 0 .. Recovered
  BY AutoScalerAssumption DEF HistoryInv, Parts
<1>2. cur' = IF cur = SlotsCount - 1 THEN 0 ELSE cur + 1
  BY <1>1, NextSlot DEF Advance
<1>3. /\ cur' \in Slots
      /\ Age(cur') = SlotsCount - 1
      /\ \A i \in Slots \ {cur'} : Age(i)' = Age(i) + 1
  BY <1>1, <1>2 DEF Age, Slots
<1>4. /\ spc = "wait" /\ spc' = "analyse"
      /\ UNCHANGED <<slots, counts, computed, mean, apc, met, at, loaded, real, realMean>>
      /\ since' = IF Adding THEN 0 ELSE since
  BY DEF Advance, ShiftAt, adjustVars, Overlaps, Adding, Shifting
<1>5. Parts'
  BY <1>1, <1>3, <1>4 DEF HistoryInv, Parts, Recovered
<1>6. AddAlone'
  BY <1>4 DEF AddAlone, Adding
<1>7. CleanDuring'
  <2> SUFFICES ASSUME since > 0, ~Adding
               PROVE  /\ \A i \in Slots \ {cur'} : Age(i)' < since => Clean(i)'
                      /\ since > SlotsCount => Clean(cur)'
    BY <1>4 DEF CleanDuring, Adding
  <2>1. \A i \in Slots : Age(i) < since - 1 => Clean(i)
    BY <1>4 DEF HistoryInv, CleanBetween, Shifting, Adding
  <2>2. \A i \in Slots : Clean(i) => (slots'[i] = real'.slots[i] /\ counts'[i] = real'.counts[i])
    BY <1>4 DEF Clean
  <2>3. ASSUME NEW i \in Slots \ {cur'}, Age(i)' < since
        PROVE  Clean(i)'
    <3>1. Age(i) \in Int
      BY <1>1 DEF Age, Slots
    <3>2. Age(i) < since - 1
      BY <3>1, <2>3, <1>1, <1>3 DEF Recovered
    <3> QED
      BY <3>2, <2>1, <2>2 DEF Clean
  <2>4. ASSUME since > SlotsCount
        PROVE  Clean(cur)'
    BY <2>1, <2>2, <2>4, <1>1, <1>3 DEF Clean, Recovered
  <2> QED
    BY <2>3, <2>4
<1>8. CleanBetween'
  BY <1>4 DEF CleanBetween, Shifting
<1>9. MeanReal'
  BY <1>1, <1>4 DEF HistoryInv, MeanReal, Recovered
<1> QED
  BY <1>5, <1>6, <1>7, <1>8, <1>9 DEF HistoryInv

LEMMA AnalyseKeeps ==
    ASSUME HistoryInv, Analyse
    PROVE  HistoryInv'
<1>1. SlotsCount \in Nat \ {0} /\ cur \in Slots /\ since \in 0 .. Recovered
  BY AutoScalerAssumption DEF HistoryInv, Parts
<1>2. /\ spc = "analyse" /\ spc' \in {"sd", "zero"}
      /\ UNCHANGED <<slots, counts, cur, apc, met, at, loaded, real>>
      /\ since' = IF Adding THEN 0 ELSE since
  BY DEF Analyse, adjustVars, Overlaps, Adding, Shifting
<1>3. /\ Parts' /\ AddAlone' /\ CleanBetween' /\ CleanDuring'
      /\ since' # 0 => since' = since
  BY <1>1, <1>2 DEF HistoryInv, Parts, AddAlone, CleanBetween, CleanDuring, Clean, Half, Age,
     Adding, Shifting, Recovered
<1>4. ASSUME since' >= Recovered - 1
      PROVE  mean' = realMean'
  <2>1. since = since' /\ since > SlotsCount
    BY <1>1, <1>3, <1>4 DEF Recovered
  <2>2. \A i \in Slots : Clean(i)
    BY <2>1, <1>1, <1>2 DEF HistoryInv, CleanDuring, Shifting, Age, Slots, Recovered
  <2>3. History = real
    BY <2>2, AllClean DEF HistoryInv
  <2>4. mean' = MeanOf(History) /\ realMean' = IF since < SlotsCount THEN NaN ELSE MeanOf(real)
    BY DEF Analyse
  <2> QED
    BY <1>1, <2>1, <2>3, <2>4
<1>5. MeanReal'
  BY <1>1, <1>3, <1>4 DEF MeanReal, Parts, Recovered
<1> QED
  BY <1>3, <1>5 DEF HistoryInv

LEMMA PublishSpreadKeeps ==
    ASSUME HistoryInv, PublishSpread
    PROVE  HistoryInv'
<1>1. SlotsCount \in Nat \ {0} /\ cur \in Slots /\ since \in 0 .. Recovered
  BY AutoScalerAssumption DEF HistoryInv, Parts
<1>2. /\ spc = "sd" /\ spc' = "zero"
      /\ UNCHANGED <<slots, counts, cur, mean, apc, met, at, loaded, real, realMean>>
      /\ since' = IF Adding THEN 0 ELSE since
  BY DEF PublishSpread, ShiftAt, adjustVars, Overlaps, Adding, Shifting
<1> QED
  BY <1>1, <1>2 DEF HistoryInv, Parts, AddAlone, CleanBetween, CleanDuring, MeanReal, Clean,
     Half, Age, Adding, Shifting, Recovered

LEMMA ZeroSlotKeeps ==
    ASSUME HistoryInv, ZeroSlot
    PROVE  HistoryInv'
<1>1. SlotsCount \in Nat \ {0} /\ cur \in Slots /\ since \in 0 .. Recovered
  BY AutoScalerAssumption DEF HistoryInv, Parts
<1>2. /\ spc = "zero" /\ spc' = "count"
      /\ slots' = [slots EXCEPT ![cur] = 0]
      /\ UNCHANGED <<counts, cur, computed, mean, apc, met, at, loaded, real, realMean>>
      /\ since' = IF Adding THEN 0 ELSE since
  BY DEF ZeroSlot, ShiftAt, adjustVars, Overlaps, Adding, Shifting
<1>3. /\ slots' = [i \in Slots |-> slots'[i]]
      /\ slots'[cur] = 0
      /\ \A i \in Slots \ {cur} : slots'[i] = slots[i]
  BY <1>1, <1>2 DEF HistoryInv, Parts
<1>4. Parts'
  BY <1>1, <1>2, <1>3 DEF HistoryInv, Parts, Recovered
<1>5. AddAlone' /\ CleanBetween' /\ MeanReal'
  BY <1>1, <1>2 DEF HistoryInv, AddAlone, CleanBetween, MeanReal, Adding, Shifting, Recovered
<1>6. CleanDuring'
  BY <1>1, <1>2, <1>3 DEF HistoryInv, CleanDuring, Clean, Age, Shifting
<1> QED
  BY <1>4, <1>5, <1>6 DEF HistoryInv

\* A slot of the ghost is replaced.
LEMMA RealReplaced ==
    ASSUME Parts, NEW c \in Slots, NEW v, NEW w,
           real' = [slots |-> [real.slots EXCEPT ![c] = v], counts |-> [real.counts EXCEPT ![c] = w]]
    PROVE  /\ real' = [slots  |-> [i \in Slots |-> real'.slots[i]],
                       counts |-> [i \in Slots |-> real'.counts[i]]]
           /\ real'.slots[c] = v /\ real'.counts[c] = w
           /\ \A i \in Slots \ {c} : real'.slots[i] = real.slots[i] /\ real'.counts[i] = real.counts[i]
<1>1. /\ real.slots = [i \in Slots |-> real.slots[i]]
      /\ real.counts = [i \in Slots |-> real.counts[i]]
  BY DEF Parts
<1>2. /\ real'.slots = [real.slots EXCEPT ![c] = v]
      /\ real'.counts = [real.counts EXCEPT ![c] = w]
  OBVIOUS
<1>3. /\ real'.slots = [i \in Slots |-> real'.slots[i]]
      /\ real'.counts = [i \in Slots |-> real'.counts[i]]
      /\ real'.slots[c] = v /\ real'.counts[c] = w
      /\ \A i \in Slots \ {c} : real'.slots[i] = real.slots[i] /\ real'.counts[i] = real.counts[i]
  BY <1>1, <1>2
<1> QED
  BY <1>2, <1>3

\* The end of a shift: without an add meanwhile there is one more clean slot.
LEMMA ZeroCountKeeps ==
    ASSUME HistoryInv, ZeroCount
    PROVE  HistoryInv'
<1>1. SlotsCount \in Nat \ {0} /\ cur \in Slots /\ since \in 0 .. Recovered
  BY AutoScalerAssumption DEF HistoryInv, Parts
<1>2. /\ spc = "count" /\ spc' = "wait"
      /\ counts' = [counts EXCEPT ![cur] = 0]
      /\ real' = [slots |-> [real.slots EXCEPT ![cur] = 0], counts |-> [real.counts EXCEPT ![cur] = 0]]
      /\ UNCHANGED <<slots, cur, computed, mean, apc, met, at, loaded, realMean>>
      /\ since' = IF Adding THEN 0 ELSE IF since = Recovered THEN since ELSE since + 1
  <2>1. Min({since + 1, Recovered}) = IF since = Recovered THEN since ELSE since + 1
    BY <1>1 DEF Min, Recovered
  <2> QED
    BY <2>1 DEF ZeroCount, ShiftAt, adjustVars
<1>3. /\ counts' = [i \in Slots |-> counts'[i]]
      /\ counts'[cur] = 0
      /\ \A i \in Slots \ {cur} : counts'[i] = counts[i]
      /\ real' = [slots  |-> [i \in Slots |-> real'.slots[i]],
                  counts |-> [i \in Slots |-> real'.counts[i]]]
      /\ real'.slots[cur] = 0 /\ real'.counts[cur] = 0
      /\ \A i \in Slots \ {cur} : real'.slots[i] = real.slots[i] /\ real'.counts[i] = real.counts[i]
  <2>1. Parts
    BY DEF HistoryInv
  <2>2. /\ counts' = [i \in Slots |-> counts'[i]]
        /\ counts'[cur] = 0
        /\ \A i \in Slots \ {cur} : counts'[i] = counts[i]
    BY <1>1, <1>2, <2>1 DEF Parts
  <2> QED
    BY <1>1, <1>2, <2>1, <2>2, RealReplaced
<1>4. Parts'
  BY <1>1, <1>2, <1>3 DEF HistoryInv, Parts, Recovered
<1>5. AddAlone' /\ CleanDuring' /\ MeanReal'
  BY <1>1, <1>2 DEF HistoryInv, AddAlone, CleanDuring, MeanReal, Adding, Shifting, Recovered
<1>6. CleanBetween'
  <2> SUFFICES ASSUME ~Adding, NEW i \in Slots, Age(i) < since' - 1
               PROVE  Clean(i)'
    BY <1>1, <1>2 DEF CleanBetween, Age, Adding, Slots, Recovered
  <2>1. CASE i = cur
    <3>1. since > 0
      BY <1>1, <1>2, <2>1 DEF Age, Slots, Recovered
    <3> QED
      BY <3>1, <2>1, <1>2, <1>3 DEF HistoryInv, CleanDuring, Clean, Shifting
  <2>2. CASE i # cur
    <3>1. since > 0 /\ Age(i) < since
      BY <1>1, <1>2, <2>2 DEF Age, Slots, Recovered
    <3> QED
      BY <3>1, <2>2, <1>2, <1>3 DEF HistoryInv, CleanDuring, Clean, Shifting
  <2> QED
    BY <2>1, <2>2
<1> QED
  BY <1>4, <1>5, <1>6 DEF HistoryInv

-----------------------------------------------------------------------------
(* The steps of an add, and of the rest of adjust() *)

LEMMA AdjustKeeps ==
    ASSUME HistoryInv, NEW m, Adjust(m)
    PROVE  HistoryInv'
<1>1. SlotsCount \in Nat \ {0} /\ cur \in Slots /\ since \in 0 .. Recovered
  BY AutoScalerAssumption DEF HistoryInv, Parts
<1>2. /\ apc = "take" /\ apc' \in {"show", "load", "ask"}
      /\ UNCHANGED <<slots, counts, cur, computed, mean, spc, at, loaded, real, realMean>>
      /\ since' = IF Adding' /\ Shifting THEN 0 ELSE since
  BY DEF Adjust, shiftVars, Overlaps, Shifting
<1> QED
  BY <1>1, <1>2 DEF HistoryInv, Parts, AddAlone, CleanBetween, CleanDuring, MeanReal, Clean,
     Age, Adding, Shifting, Recovered

LEMMA LoadSlotKeeps ==
    ASSUME HistoryInv, LoadSlot
    PROVE  HistoryInv'
<1>1. SlotsCount \in Nat \ {0} /\ cur \in Slots /\ since \in 0 .. Recovered
  BY AutoScalerAssumption DEF HistoryInv, Parts
<1>2. /\ apc = "load" /\ apc' = "store"
      /\ at' = cur /\ loaded' = slots[cur]
      /\ UNCHANGED <<slots, counts, cur, computed, mean, spc, met, real, realMean>>
      /\ since' = IF Shifting THEN 0 ELSE since
  BY DEF LoadSlot, AdjustAt, historyVars, shiftVars, Overlaps, Adding, Shifting
<1> QED
  BY <1>1, <1>2 DEF HistoryInv, Parts, AddAlone, CleanBetween, CleanDuring, MeanReal, Clean,
     Half, Age, Adding, Shifting, Recovered

LEMMA StoreSlotKeeps ==
    ASSUME HistoryInv, StoreSlot
    PROVE  HistoryInv'
<1>1. SlotsCount \in Nat \ {0} /\ cur \in Slots /\ since \in 0 .. Recovered
  BY AutoScalerAssumption DEF HistoryInv, Parts
<1>2. /\ apc = "store" /\ apc' = "count"
      /\ slots' = [slots EXCEPT ![at] = loaded + met.val]
      /\ UNCHANGED <<counts, cur, computed, mean, spc, met, real, realMean>>
      /\ since' = IF Shifting THEN 0 ELSE since
  BY DEF StoreSlot, AdjustAt, shiftVars, Overlaps, Adding, Shifting
<1>3. slots' = [i \in Slots |-> slots'[i]]
  BY <1>2 DEF HistoryInv, Parts
<1>4. Parts'
  BY <1>1, <1>2, <1>3 DEF HistoryInv, Parts, Recovered
<1>5. AddAlone' /\ CleanDuring' /\ MeanReal'
  BY <1>1, <1>2 DEF HistoryInv, AddAlone, CleanDuring, MeanReal, Adding, Shifting, Recovered
<1>6. CleanBetween'
  <2> SUFFICES ASSUME ~Shifting, NEW i \in Slots, Age(i) < since - 1
               PROVE  IF i = cur THEN Half(i)' ELSE Clean(i)'
    BY <1>1, <1>2 DEF CleanBetween, Age, Shifting
  <2>1. since > 0 /\ Clean(i)
    BY <1>1, <1>2 DEF HistoryInv, CleanBetween, Age, Slots, Recovered
  <2>2. at = cur /\ loaded = slots[cur]
    BY <2>1, <1>2 DEF HistoryInv, AddAlone
  <2>3. /\ slots'[cur] = slots[cur] + met.val
        /\ i # cur => slots'[i] = slots[i]
    BY <1>1, <1>2, <2>2 DEF HistoryInv, Parts
  <2> QED
    BY <2>1, <2>3, <1>2 DEF Half, Clean
<1> QED
  BY <1>4, <1>5, <1>6 DEF HistoryInv

LEMMA AddCountKeeps ==
    ASSUME HistoryInv, AddCount
    PROVE  HistoryInv'
<1>1. SlotsCount \in Nat \ {0} /\ cur \in Slots /\ since \in 0 .. Recovered
  BY AutoScalerAssumption DEF HistoryInv, Parts
<1>2. /\ apc = "count" /\ apc' = "ask"
      /\ counts' = [counts EXCEPT ![cur] = @ + 1]
      /\ real' = [slots  |-> [real.slots EXCEPT ![cur] = real.slots[cur] + met.val],
                  counts |-> [real.counts EXCEPT ![cur] = real.counts[cur] + 1]]
      /\ UNCHANGED <<slots, cur, computed, mean, spc, met, at, loaded, realMean>>
      /\ since' = IF Shifting THEN 0 ELSE since
  BY DEF AddCount, AdjustAt, shiftVars
<1>3. /\ counts' = [i \in Slots |-> counts'[i]]
      /\ counts'[cur] = counts[cur] + 1
      /\ \A i \in Slots \ {cur} : counts'[i] = counts[i]
      /\ real' = [slots  |-> [i \in Slots |-> real'.slots[i]],
                  counts |-> [i \in Slots |-> real'.counts[i]]]
      /\ real'.slots[cur] = real.slots[cur] + met.val
      /\ real'.counts[cur] = real.counts[cur] + 1
      /\ \A i \in Slots \ {cur} : real'.slots[i] = real.slots[i] /\ real'.counts[i] = real.counts[i]
  <2>1. Parts
    BY DEF HistoryInv
  <2>2. /\ counts' = [i \in Slots |-> counts'[i]]
        /\ counts'[cur] = counts[cur] + 1
        /\ \A i \in Slots \ {cur} : counts'[i] = counts[i]
    BY <1>1, <1>2, <2>1 DEF Parts
  <2> QED
    BY <1>1, <1>2, <2>1, <2>2, RealReplaced
<1>4. Parts'
  BY <1>1, <1>2, <1>3 DEF HistoryInv, Parts, Recovered
<1>5. AddAlone' /\ CleanDuring' /\ MeanReal'
  BY <1>1, <1>2 DEF HistoryInv, AddAlone, CleanDuring, MeanReal, Adding, Shifting, Recovered
<1>6. CleanBetween'
  <2> SUFFICES ASSUME ~Shifting, NEW i \in Slots, Age(i) < since - 1
               PROVE  Clean(i)'
    BY <1>1, <1>2 DEF CleanBetween, Age, Shifting
  <2>1. IF i = cur THEN Half(i) ELSE Clean(i)
    BY <1>2 DEF HistoryInv, CleanBetween
  <2> QED
    BY <2>1, <1>2, <1>3 DEF Half, Clean
<1> QED
  BY <1>4, <1>5, <1>6 DEF HistoryInv

\* The rest of adjust() leaves the history alone, and is of no add.
LEMMA RestKeeps ==
    ASSUME HistoryInv, AskComputed \/ Scale \/ Show
    PROVE  HistoryInv'
<1>1. /\ apc \in {"ask", "scale", "show"} /\ apc' \in {"scale", "show", "take"}
      /\ UNCHANGED <<slots, counts, cur, computed, mean, spc, at, loaded, real, realMean, since>>
  BY DEF AskComputed, Scale, Show, AdjustAt, historyVars, shiftVars, ghostVars
<1> QED
  BY <1>1 DEF HistoryInv, Parts, AddAlone, CleanBetween, CleanDuring, MeanReal, Clean, Age,
     Adding, Shifting

LEMMA HistoryStep ==
    ASSUME HistoryInv, [Next]_vars
    PROVE  HistoryInv'
<1>1. CASE shift
  BY <1>1, AdvanceKeeps, AnalyseKeeps, PublishSpreadKeeps, ZeroSlotKeeps, ZeroCountKeeps
     DEF shift, Shift
<1>2. CASE TakeMetric
  <2>1. \E m : Adjust(m)
    BY <1>2 DEF TakeMetric, TakeLine, TakeTime, TakePattern, TakeSum
  <2> QED
    BY <2>1, AdjustKeeps
<1>3. CASE adjust \/ Show
  BY <1>3, LoadSlotKeeps, StoreSlotKeeps, AddCountKeeps, RestKeeps DEF adjust, Add
<1>4. CASE Remember \/ TakeOther \/ tick \/ FeedRestarts \/ UNCHANGED vars
  <2>1. UNCHANGED scalerVars
    BY <1>4 DEF Remember, TakeOther, tick, FeedRestarts, vars
  <2> QED
    BY <2>1 DEF scalerVars, historyVars, shiftVars, adjustVars, ghostVars, HistoryInv, Parts,
       AddAlone, CleanBetween, CleanDuring, MeanReal, Clean, Half, Age, Adding, Shifting
<1> QED
  BY <1>1, <1>2, <1>3, <1>4 DEF Next, Consumer

\* Whatever the races of an add with a shift leave behind is gone once the ring went
\* round without another one, and after one more shift the mean in use is that of the
\* values that were added, for any number of slots (autoscale.go:87-98).
THEOREM HistoryCorrect == Spec => []HistoryRecovers
<1>1. Init => HistoryInv
  BY HistoryInitially DEF Init
<1>2. HistoryInv /\ [Next]_vars => HistoryInv'
  BY HistoryStep
<1> QED
  BY <1>1, <1>2, HistoryInvIsRight, PTL DEF Spec

-----------------------------------------------------------------------------
(* The idle pattern *)

IdleInv ==
    /\ rt11Width \in 1 .. FirstWidth
    /\ rt11Offset \in 0 .. PanelWidth - 1
    /\ \/ rt11Step = 1  /\ rt11Offset + rt11Width < PanelWidth
       \/ rt11Step = -1 /\ rt11Offset > 0 /\ rt11Offset + rt11Width <= PanelWidth

LEMMA IdleInitially == IdleBegins => IdleInv
BY DEF IdleBegins, IdleInv, FirstWidth, PanelWidth

LEMMA IdleStep ==
    ASSUME IdleInv, [Next]_vars
    PROVE  IdleInv'
<1>1. CASE rt11Tick
  BY <1>1 DEF rt11Tick, rt11Again, Turns, IdleInv, FirstWidth, PanelWidth
<1>2. CASE IdleBeginsAgain
  BY <1>2 DEF IdleBeginsAgain, rt11Again, IdleInv, FirstWidth, PanelWidth
<1>3. CASE UNCHANGED rt11Vars
  BY <1>3 DEF rt11Vars, IdleInv
<1>4. rt11Tick \/ IdleBeginsAgain \/ UNCHANGED rt11Vars
  <2>1. CASE TakePattern \/ FeedRestarts
    BY <2>1 DEF TakePattern, FeedRestarts, pdp11Tick, bsdTick
  <2>2. CASE \/ \E s \in Sent : TakeLine(s[1], s[2])
             \/ \E m \in SentByClock : TakeTime(m)
             \/ TakeSum
    BY <2>2 DEF TakeLine, TakeTime, TakeSum, idleVars
  <2>3. CASE Remember \/ TakeOther \/ adjust \/ Show \/ shift \/ tick \/ UNCHANGED vars
    BY <2>3 DEF Remember, TakeOther, adjust, Show, shift, tick, vars, idleVars
  <2> QED
    BY <2>1, <2>2, <2>3 DEF Next, Consumer, TakeMetric
<1> QED
  BY <1>1, <1>2, <1>3, <1>4

\* However long the idle feed has run and whenever it was started again, the block of
\* the rt11 pattern stays on the panel, and is never shifted by a negative number
\* (feed.go:264-276).
THEOREM PatternAlwaysFits == Spec => []PatternFits
<1>1. Init => IdleInv
  BY IdleInitially DEF Init
<1>2. IdleInv /\ [Next]_vars => IdleInv'
  BY IdleStep
<1>3. IdleInv => PatternFits
  BY DEF IdleInv, PatternFits, rt11Lights, FirstWidth, PanelWidth
<1> QED
  BY <1>1, <1>2, <1>3, PTL DEF Spec

-----------------------------------------------------------------------------
(* Induction and recursion *)

\* A set of numbers has a least one.
LEMMA LeastNumber ==
    ASSUME NEW T \in SUBSET Nat, T # {}
    PROVE  \E n \in T : \A k \in T : n <= k
<1>1. PICK n \in T : \A k \in T : ~ (<<k, n>> \in OpToRel(<, Nat))
  BY NatLessThanWellFounded, WFMin
<1>2. \A k \in T : ~(k < n)
  BY <1>1 DEF OpToRel
<1> QED
  BY <1>2

\* Induction, over a set instead of a predicate.
LEMMA InductionOn ==
    ASSUME NEW T \in SUBSET Nat, 0 \in T, \A n \in T : n + 1 \in T
    PROVE  \A n \in Nat : n \in T
<1> SUFFICES ASSUME Nat \ T # {} PROVE FALSE
  OBVIOUS
<1>1. PICK n \in Nat \ T : \A k \in Nat \ T : n <= k
  BY LeastNumber
<1>2. n - 1 \in T
  BY <1>1
<1> QED
  BY <1>1, <1>2

\* The recursion G looks only at values where the measure m is less.
GoesDown(D, A, m, G) ==
    /\ A # {} /\ m \in [D -> Nat]
    /\ \A x \in D : \A g, h \in [D -> A] :
        /\ G[x][g] \in A
        /\ (\A y \in D : m[y] < m[x] => g[y] = h[y]) => G[x][g] = G[x][h]

HasSolution(D, A, G) == \E g \in [D -> A] : \A x \in D : g[x] = G[x][g]

\* The values of g are those of the recursion G, where the measure m is below n.
Follows(m, G, g, n) == \A x \in DOMAIN m : m[x] < n => g[x] = G[x][g]

\* Two functions that follow the recursion agree where both do.
LEMMA FollowsOne ==
    ASSUME NEW D, NEW A, NEW m, NEW G,
           GoesDown(D, A, m, G),
           NEW n \in Nat, NEW k \in Nat, NEW g \in [D -> A], NEW h \in [D -> A],
           Follows(m, G, g, n), Follows(m, G, h, k),
           NEW z \in D, m[z] < n, m[z] < k
    PROVE  g[z] = h[z]
<1> DEFINE Off == {x \in D : m[x] < n /\ m[x] < k /\ g[x] # h[x]}
           Sizes == {m[x] : x \in Off}
<1> SUFFICES ASSUME Off # {} PROVE FALSE
  OBVIOUS
<1>0. \A x \in D : m[x] \in Nat
  BY DEF GoesDown
<1>1. /\ Sizes \in SUBSET Nat /\ Sizes # {}
      /\ \A x \in Off : m[x] \in Sizes
  <2>1. \A x \in D : m[x] \in Nat
    BY DEF GoesDown
  <2>2. Off \in SUBSET D
    OBVIOUS
  <2> HIDE DEF Off
  <2> QED
    BY <2>1, <2>2
<1>2. PICK s \in Sizes : \A t \in Sizes : s <= t
  <2> HIDE DEF Sizes
  <2> QED
    BY <1>1, LeastNumber
<1>3. PICK x \in Off : m[x] = s
  OBVIOUS
<1>4. ASSUME NEW y \in D, m[y] < m[x] PROVE g[y] = h[y]
  <2>1. y \notin Off
    <3> HIDE DEF Sizes, Off
    <3> QED
      BY <1>0, <1>1, <1>2, <1>3, <1>4
  <2>2. m[y] < n /\ m[y] < k
    BY <1>0, <1>3, <1>4
  <2> QED
    BY <2>1, <2>2
<1>5. g[x] = G[x][g] /\ h[x] = G[x][h]
  BY <1>3 DEF Follows, GoesDown
<1> QED
  BY <1>3, <1>4, <1>5 DEF GoesDown

\* Some function follows it as far as one likes.
LEMMA FollowsAll ==
    ASSUME NEW D, NEW A, NEW m, NEW G,
           GoesDown(D, A, m, G)
    PROVE  \A n \in Nat : \E g \in [D -> A] : Follows(m, G, g, n)
<1> DEFINE T == {n \in Nat : \E g \in [D -> A] : Follows(m, G, g, n)}
<1>1. 0 \in T
  <2>1. PICK base \in A : TRUE
    BY DEF GoesDown
  <2>2. [x \in D |-> base] \in [D -> A]
    OBVIOUS
  <2>3. Follows(m, G, [x \in D |-> base], 0)
    BY DEF Follows, GoesDown
  <2> QED
    BY <2>2, <2>3
<1>2. ASSUME NEW n \in T PROVE n + 1 \in T
  <2>1. PICK g \in [D -> A] : Follows(m, G, g, n)
    OBVIOUS
  <2> DEFINE h == [x \in D |-> G[x][g]]
  <2>2. h \in [D -> A]
    BY DEF GoesDown
  <2>3. ASSUME NEW x \in D, m[x] < n + 1 PROVE h[x] = G[x][h]
    <3>1. \A y \in D : m[y] < m[x] => g[y] = h[y]
      BY <2>1, <2>3 DEF Follows, GoesDown
    <3> QED
      BY <2>2, <3>1 DEF GoesDown
  <2>4. n + 1 \in Nat /\ Follows(m, G, h, n + 1)
    <3> HIDE DEF h
    <3> QED
      BY <2>3 DEF Follows, GoesDown
  <2> HIDE DEF h
  <2> QED
    BY <2>2, <2>4
<1> HIDE DEF T
<1>3. T \in SUBSET Nat
  BY DEF T
<1>4. \A n \in Nat : n \in T
  BY <1>1, <1>2, <1>3, InductionOn
<1> QED
  BY <1>4 DEF T

\* A recursion that goes down has a solution: a recursive function is what its
\* definition says.
LEMMA Recursion ==
    ASSUME NEW D, NEW A, NEW m, NEW G,
           GoesDown(D, A, m, G)
    PROVE  HasSolution(D, A, G)
<1>1. \A n \in Nat : \E g \in [D -> A] : Follows(m, G, g, n)
  BY FollowsAll
<1>2. PICK of \in [Nat -> [D -> A]] : \A n \in Nat : Follows(m, G, of[n], n)
  <2> DEFINE first == [n \in Nat |-> CHOOSE g \in [D -> A] : Follows(m, G, g, n)]
  <2>1. \A n \in Nat : first[n] \in [D -> A] /\ Follows(m, G, first[n], n)
    BY <1>1
  <2>2. first \in [Nat -> [D -> A]]
    BY <2>1
  <2> HIDE DEF first
  <2> QED
    BY <2>1, <2>2
<1> DEFINE all == [x \in D |-> of[m[x] + 1][x]]
<1>3. \A x \in D : m[x] \in Nat /\ m[x] + 1 \in Nat /\ m[x] < m[x] + 1
  BY DEF GoesDown
<1>4. all \in [D -> A]
  BY <1>2, <1>3
<1>5. ASSUME NEW x \in D PROVE all[x] = G[x][all]
  <2>1. PICK g \in [D -> A] : g = of[m[x] + 1] /\ Follows(m, G, g, m[x] + 1)
    BY <1>2, <1>3
  <2>2. ASSUME NEW y \in D, m[y] < m[x] PROVE g[y] = all[y]
    <3>1. PICK h \in [D -> A] : h = of[m[y] + 1] /\ Follows(m, G, h, m[y] + 1)
      BY <1>2, <1>3
    <3>2. m[y] < m[x] + 1 /\ m[y] < m[y] + 1 /\ m[x] + 1 \in Nat /\ m[y] + 1 \in Nat
      BY <1>3, <2>2
    <3>3. g[y] = h[y]
      BY <3>1, <3>2, <2>1, FollowsOne
    <3> QED
      BY <3>1, <3>3
  <2>3. all[x] = g[x] /\ g[x] = G[x][g]
    BY <1>3, <2>1 DEF Follows, GoesDown
  <2> HIDE DEF all
  <2> QED
    BY <1>4, <2>1, <2>2, <2>3 DEF GoesDown
<1> HIDE DEF all
<1> QED
  BY <1>4, <1>5 DEF HasSolution

-----------------------------------------------------------------------------
(* Folds and sums over finite sets *)

\* The element that a fold takes first.
First(s) == CHOOSE x \in s : TRUE

\* A fold by the table op, of what is left of S.
FoldsTo(S, op, base, it) ==
    \A s \in SUBSET S : it[s] = IF s = {} THEN base ELSE op[First(s)][it[s \ {First(s)}]]

\* A set without its first element is a smaller part.
LEMMA FirstOf ==
    ASSUME NEW S, IsFiniteSet(S), NEW s \in SUBSET S, s # {}
    PROVE  /\ First(s) \in s /\ First(s) \in S
           /\ s \ {First(s)} \in SUBSET S
           /\ Cardinality(s) \in Nat /\ Cardinality(s \ {First(s)}) \in Nat
           /\ Cardinality(s \ {First(s)}) < Cardinality(s)
<1>1. First(s) \in s
  BY DEF First
<1>2. IsFiniteSet(s)
  BY FS_Subset
<1>3. Cardinality(s) \in Nat /\ Cardinality(s \ {First(s)}) = Cardinality(s) - 1 /\ Cardinality(s \ {First(s)}) \in Nat
  BY <1>1, <1>2, FS_RemoveElement, FS_CardinalityType
<1> QED
  BY <1>1, <1>3

\* Parts of a finite set are finite.
LEMMA SubsetSizes ==
    ASSUME NEW S, IsFiniteSet(S)
    PROVE  \A s \in SUBSET S : IsFiniteSet(s) /\ Cardinality(s) \in Nat
BY FS_Subset, FS_CardinalityType

\* What holds of the empty set, and of a set when it does without any one element,
\* holds of every part of a finite set.
LEMMA SetInduction ==
    ASSUME NEW S, IsFiniteSet(S), NEW T \in SUBSET (SUBSET S), {} \in T,
           \A s \in SUBSET S : s # {} /\ (\A x \in s : s \ {x} \in T) => s \in T
    PROVE  \A s \in SUBSET S : s \in T
<1> DEFINE Sizes == {Cardinality(s) : s \in (SUBSET S) \ T}
<1> SUFFICES ASSUME (SUBSET S) \ T # {} PROVE FALSE
  OBVIOUS
<1>1. Sizes \in SUBSET Nat /\ Sizes # {}
  BY SubsetSizes
<1>2. PICK n \in Sizes : \A k \in Sizes : n <= k
  <2> HIDE DEF Sizes
  <2> QED
    BY <1>1, LeastNumber
<1>3. PICK s \in (SUBSET S) \ T : Cardinality(s) = n
  OBVIOUS
<1>4. s # {}
  BY Zenon
<1>5. PICK x \in s : s \ {x} \notin T
  BY <1>4
<1>6. s \ {x} \in (SUBSET S) \ T
  BY <1>5
<1>7. IsFiniteSet(s) /\ n \in Nat
  BY <1>1, FS_Subset
<1>8. Cardinality(s \ {x}) \in Sizes /\ Cardinality(s \ {x}) = n - 1
  BY <1>3, <1>6, <1>7, FS_RemoveElement
<1> QED
  <2> HIDE DEF Sizes
  <2> QED
    BY <1>2, <1>7, <1>8

\* A fold over the parts of a finite set is a function from them.
LEMMA FoldExists ==
    ASSUME NEW S, IsFiniteSet(S), NEW A, NEW base \in A, NEW op,
           \A x \in S : \A a \in A : op[x][a] \in A
    PROVE  \E it \in [SUBSET S -> A] : FoldsTo(S, op, base, it)
<1> DEFINE size == [s \in SUBSET S |-> Cardinality(s)]
           G == [s \in SUBSET S |-> [g \in [SUBSET S -> A] |->
                    IF s = {} THEN base ELSE op[First(s)][g[s \ {First(s)}]]]]
<1>1. size \in [SUBSET S -> Nat] /\ A # {}
  BY SubsetSizes
<1>2. ASSUME NEW s \in SUBSET S, NEW g \in [SUBSET S -> A]
      PROVE  G[s][g] = IF s = {} THEN base ELSE op[First(s)][g[s \ {First(s)}]]
  OBVIOUS
<1>3. ASSUME NEW s \in SUBSET S, s # {} 
      PROVE  First(s) \in S /\ s \ {First(s)} \in SUBSET S /\ size[s \ {First(s)}] < size[s]
  BY <1>3, FirstOf
<1> HIDE DEF G, size
<1>4. ASSUME NEW s \in SUBSET S, NEW g \in [SUBSET S -> A], NEW h \in [SUBSET S -> A]
      PROVE  /\ G[s][g] \in A
             /\ (\A y \in SUBSET S : size[y] < size[s] => g[y] = h[y]) => G[s][g] = G[s][h]
  <2>1. CASE s = {}
    BY <1>2, <2>1
  <2>2. CASE s # {}
    <3>1. PICK rest \in SUBSET S : rest = s \ {First(s)} /\ size[rest] < size[s]
      BY <1>3, <2>2
    <3>2. First(s) \in S /\ g[rest] \in A
      BY <1>3, <2>2
    <3>3. G[s][g] = op[First(s)][g[rest]] /\ G[s][h] = op[First(s)][h[rest]]
      BY <1>2, <2>2, <3>1
    <3> QED
      BY <3>1, <3>2, <3>3
  <2> QED
    BY <2>1, <2>2
<1>5. GoesDown(SUBSET S, A, size, G)
  BY <1>1, <1>4 DEF GoesDown
<1>6. HasSolution(SUBSET S, A, G)
  BY <1>5, Recursion
<1>7. PICK it \in [SUBSET S -> A] : \A s \in SUBSET S : it[s] = G[s][it]
  BY <1>6 DEF HasSolution
<1>8. FoldsTo(S, op, base, it)
  BY <1>2, <1>7 DEF FoldsTo
<1> QED
  BY <1>8

\* SumFunctionOnSet, as the recursive function of the community module that it is.
LEMMA SumUnfolds ==
    ASSUME NEW f, NEW S, NEW it, it = [s \in SUBSET S |-> IF s = {} THEN 0 ELSE f[First(s)] + it[s \ {First(s)}]]
    PROVE  \E iter : /\ iter = [s \in SUBSET S |-> IF s = {} THEN 0 ELSE f[First(s)] + iter[s \ {First(s)}]]
                     /\ SumFunctionOnSet(f, S) = iter[S]
BY DEF SumFunctionOnSet, FoldFunctionOnSet, MapThenFoldSet, First

\* The sums of f over all parts of S.
SumsUp(f, S, it) ==
    /\ it \in [SUBSET S -> Int]
    /\ it[S] = SumFunctionOnSet(f, S)
    /\ \A s \in SUBSET S : it[s] = IF s = {} THEN 0 ELSE f[First(s)] + it[s \ {First(s)}]

\* The sums over the parts of a finite set.
LEMMA SumIsFold ==
    ASSUME NEW S, IsFiniteSet(S), NEW f, \A x \in S : f[x] \in Int
    PROVE  \E it : SumsUp(f, S, it)
<1> DEFINE op == [x \in S |-> [a \in Int |-> f[x] + a]]
<1>1. PICK it \in [SUBSET S -> Int] : FoldsTo(S, op, 0, it)
  <2>1. 0 \in Int /\ \A x \in S : \A a \in Int : op[x][a] \in Int
    OBVIOUS
  <2> HIDE DEF op
  <2> QED
    BY <2>1, FoldExists
<1>2. ASSUME NEW s \in SUBSET S
      PROVE  it[s] = IF s = {} THEN 0 ELSE f[First(s)] + it[s \ {First(s)}]
  <2>1. CASE s = {}
    BY <1>1, <2>1 DEF FoldsTo
  <2>2. CASE s # {}
    <3>1. First(s) \in S /\ s \ {First(s)} \in SUBSET S
      BY <2>2, FirstOf
    <3>2. it[s \ {First(s)}] \in Int /\ it[s] = op[First(s)][it[s \ {First(s)}]]
      BY <1>1, <2>2, <3>1 DEF FoldsTo
    <3> QED
      BY <2>2, <3>1, <3>2
  <2> QED
    BY <2>1, <2>2
<1> HIDE DEF op
<1>3. it = [s \in SUBSET S |-> IF s = {} THEN 0 ELSE f[First(s)] + it[s \ {First(s)}]]
  BY <1>2
<1>4. PICK iter : /\ iter = [s \in SUBSET S |-> IF s = {} THEN 0 ELSE f[First(s)] + iter[s \ {First(s)}]]
                  /\ SumFunctionOnSet(f, S) = iter[S]
  BY <1>3, SumUnfolds
<1> DEFINE T == {s \in SUBSET S : it[s] = iter[s]}
<1>5. {} \in T /\ T \in SUBSET (SUBSET S)
  BY <1>2, <1>4
<1>6. ASSUME NEW s \in SUBSET S, s # {}, \A x \in s : s \ {x} \in T
      PROVE  s \in T
  <2>1. s \ {First(s)} \in T
    BY <1>6, FirstOf
  <2> QED
    BY <1>2, <1>4, <1>6, <2>1
<1>7. \A s \in SUBSET S : s \in T
  <2> HIDE DEF T
  <2> QED
    BY <1>5, <1>6, SetInduction
<1> QED
  BY <1>2, <1>4, <1>7 DEF SumsUp

\* Nothing adds up to 0.
LEMMA SumEmpty ==
    ASSUME NEW f
    PROVE  SumFunctionOnSet(f, {}) = 0
<1>1. IsFiniteSet({}) /\ \A x \in {} : f[x] \in Int
  BY FS_EmptySet
<1>2. PICK it : SumsUp(f, {}, it)
  BY <1>1, SumIsFold
<1> QED
  BY <1>2 DEF SumsUp

\* A sum is the first number and the sum of the others.
LEMMA SumParts ==
    ASSUME NEW S, IsFiniteSet(S), NEW f, \A x \in S : f[x] \in Int
    PROVE  \A s \in SUBSET S :
               /\ SumFunctionOnSet(f, s) \in Int
               /\ s # {} => SumFunctionOnSet(f, s) = f[First(s)] + SumFunctionOnSet(f, s \ {First(s)})
<1>1. PICK it : SumsUp(f, S, it)
  BY SumIsFold
<1>2. ASSUME NEW R \in SUBSET S
      PROVE  SumFunctionOnSet(f, R) = it[R]
  <2>1. IsFiniteSet(R) /\ SUBSET R \subseteq SUBSET S
    BY FS_Subset
  <2>2. PICK other : SumsUp(f, R, other)
    <3>1. \A x \in R : f[x] \in Int
      OBVIOUS
    <3> QED
      BY <2>1, <3>1, SumIsFold
  <2> DEFINE T == {s \in SUBSET R : it[s] = other[s]}
  <2>3. {} \in T /\ T \in SUBSET (SUBSET R)
    BY <1>1, <2>1, <2>2 DEF SumsUp
  <2>4. ASSUME NEW s \in SUBSET R, s # {}, \A x \in s : s \ {x} \in T
        PROVE  s \in T
    <3>1. s \ {First(s)} \in T
      BY <2>1, <2>4, FirstOf
    <3>2. it[s] = f[First(s)] + it[s \ {First(s)}]
      BY <1>1, <2>1, <2>4 DEF SumsUp
    <3>3. other[s] = f[First(s)] + other[s \ {First(s)}]
      BY <2>2, <2>4 DEF SumsUp
    <3> QED
      BY <3>1, <3>2, <3>3
  <2>5. \A s \in SUBSET R : s \in T
    <3> HIDE DEF T
    <3> QED
      BY <2>1, <2>3, <2>4, SetInduction
  <2> QED
    BY <2>2, <2>5 DEF SumsUp
<1>3. ASSUME NEW s \in SUBSET S, s # {} PROVE s \ {First(s)} \in SUBSET S
  OBVIOUS
<1> QED
  BY <1>1, <1>2, <1>3 DEF SumsUp

\* A sum of numbers that are not negative is not either.
LEMMA SumNat ==
    ASSUME NEW S, IsFiniteSet(S), NEW f, \A x \in S : f[x] \in Nat
    PROVE  SumFunctionOnSet(f, S) \in Nat
<1> DEFINE T == {s \in SUBSET S : SumFunctionOnSet(f, s) \in Nat}
<1>1. {} \in T /\ T \in SUBSET (SUBSET S)
  BY SumEmpty
<1>2. ASSUME NEW s \in SUBSET S, s # {}, \A x \in s : s \ {x} \in T
      PROVE  s \in T
  <2>1. f[First(s)] \in Nat
    BY <1>2, FirstOf
  <2>2. \A x \in S : f[x] \in Int
    OBVIOUS
  <2>3. SumFunctionOnSet(f, s) = f[First(s)] + SumFunctionOnSet(f, s \ {First(s)})
    BY <1>2, <2>2, SumParts
  <2>4. s \ {First(s)} \in T
    BY <1>2, FirstOf
  <2> QED
    BY <2>1, <2>3, <2>4
<1>3. S \in T
  <2> HIDE DEF T
  <2> QED
    BY <1>1, <1>2, SetInduction
<1> QED
  BY <1>3

\* One number adds up to itself.
LEMMA SumOne ==
    ASSUME NEW x, NEW f, f[x] \in Int
    PROVE  SumFunctionOnSet(f, {x}) = f[x]
<1>1. IsFiniteSet({x}) /\ {x} \in SUBSET {x} /\ {x} # {}
  BY FS_Singleton
<1>2. First({x}) = x /\ {x} \ {x} = {}
  BY DEF First
<1>3. SumFunctionOnSet(f, {x}) = f[First({x})] + SumFunctionOnSet(f, {x} \ {First({x})})
  BY <1>1, SumParts
<1>4. SumFunctionOnSet(f, {x}) = f[x] + SumFunctionOnSet(f, {})
  BY <1>2, <1>3
<1> QED
  BY <1>4, SumEmpty

\* Any element may be taken first.
LEMMA SumTaken ==
    ASSUME NEW S, IsFiniteSet(S), NEW f, \A x \in S : f[x] \in Int
    PROVE  \A s \in SUBSET S : \A x \in s :
               SumFunctionOnSet(f, s) = f[x] + SumFunctionOnSet(f, s \ {x})
<1> DEFINE T == {s \in SUBSET S : \A x \in s :
               SumFunctionOnSet(f, s) = f[x] + SumFunctionOnSet(f, s \ {x})}
<1>1. {} \in T /\ T \in SUBSET (SUBSET S)
  OBVIOUS
<1>2. ASSUME NEW s \in SUBSET S, s # {}, \A x \in s : s \ {x} \in T
      PROVE  s \in T
  <2> DEFINE c == First(s)
  <2>1. /\ c \in s /\ SumFunctionOnSet(f, s) = f[c] + SumFunctionOnSet(f, s \ {c})
        /\ \A t \in SUBSET S : SumFunctionOnSet(f, t) \in Int
    <3>1. First(s) \in s
      BY <1>2, FirstOf
    <3>2. SumFunctionOnSet(f, s) = f[First(s)] + SumFunctionOnSet(f, s \ {First(s)})
      BY <1>2, SumParts
    <3>3. \A t \in SUBSET S : SumFunctionOnSet(f, t) \in Int
      BY SumParts
    <3> QED
      BY <3>1, <3>2, <3>3
  <2> HIDE DEF c
  <2>2. ASSUME NEW x \in s, x # c
        PROVE  SumFunctionOnSet(f, s) = f[x] + SumFunctionOnSet(f, s \ {x})
    <3>1. x \in s \ {c} /\ c \in s \ {x}
      BY <2>1, <2>2
    <3>2. SumFunctionOnSet(f, s \ {c}) = f[x] + SumFunctionOnSet(f, (s \ {c}) \ {x})
      BY <1>2, <2>1, <3>1
    <3>3. SumFunctionOnSet(f, s \ {x}) = f[c] + SumFunctionOnSet(f, (s \ {x}) \ {c})
      BY <1>2, <2>1, <3>1
    <3>4. (s \ {x}) \ {c} = (s \ {c}) \ {x} /\ (s \ {x}) \ {c} \in SUBSET S
      OBVIOUS
    <3>5. f[c] \in Int /\ f[x] \in Int /\ SumFunctionOnSet(f, (s \ {x}) \ {c}) \in Int
      BY <2>1, <3>4
    <3>6. SumFunctionOnSet(f, s) = f[c] + (f[x] + SumFunctionOnSet(f, (s \ {x}) \ {c}))
      BY <2>1, <3>2, <3>4
    <3> QED
      BY <3>3, <3>5, <3>6
  <2> QED
    BY <2>1, <2>2
<1> HIDE DEF T
<1>3. \A s \in SUBSET S : s \in T
  BY <1>1, <1>2, SetInduction
<1> QED
  BY <1>3 DEF T

-----------------------------------------------------------------------------
(* Divisors and floats *)

\* A remainder is less than the divisor.
LEMMA Remainder ==
    ASSUME NEW a \in Nat, NEW b \in Nat \ {0}
    PROVE  a % b \in 0 .. b - 1
OBVIOUS

\* The definition of gcd goes down in its first argument.
LEMMA GcdExists == \E g : g = [b \in Nat |-> [a \in Nat |-> IF b = 0 THEN a ELSE g[a % b][b]]]
<1> DEFINE A == [Nat -> Nat]
           m == [b \in Nat |-> b]
           G == [b \in Nat |-> [g \in [Nat -> A] |-> [a \in Nat |-> IF b = 0 THEN a ELSE g[a % b][b]]]]
<1>1. [a \in Nat |-> 0] \in A /\ m \in [Nat -> Nat]
  OBVIOUS
<1>2. ASSUME NEW b \in Nat, NEW g \in [Nat -> A]
      PROVE  G[b][g] = [a \in Nat |-> IF b = 0 THEN a ELSE g[a % b][b]]
  <2> HIDE DEF A
  <2> QED
    OBVIOUS
<1>3. ASSUME NEW b \in Nat, NEW g \in [Nat -> A], NEW h \in [Nat -> A]
      PROVE  /\ G[b][g] \in A
             /\ (\A y \in Nat : m[y] < m[b] => g[y] = h[y]) => G[b][g] = G[b][h]
  <2> HIDE DEF G
  <2>1. \A a \in Nat : b # 0 => a % b \in Nat /\ a % b < b
    BY Remainder
  <2>2. G[b][g] \in A
    <3>1. \A a \in Nat : b # 0 => g[a % b] \in [Nat -> Nat]
      BY <2>1
    <3>2. \A a \in Nat : b # 0 => g[a % b][b] \in Nat
      BY <3>1
    <3>3. [a \in Nat |-> IF b = 0 THEN a ELSE g[a % b][b]] \in [Nat -> Nat]
      BY <3>2
    <3> HIDE DEF A
    <3>4. G[b][g] \in [Nat -> Nat]
      BY <1>2, <3>3
    <3> QED
      BY <3>4 DEF A
  <2>3. ASSUME \A y \in Nat : m[y] < m[b] => g[y] = h[y] PROVE G[b][g] = G[b][h]
    <3>1. \A a \in Nat : b # 0 => g[a % b] = h[a % b]
      BY <2>1, <2>3
    <3>2. \A a \in Nat : (IF b = 0 THEN a ELSE g[a % b][b]) = (IF b = 0 THEN a ELSE h[a % b][b])
      BY <3>1
    <3>3. [a \in Nat |-> IF b = 0 THEN a ELSE g[a % b][b]] = [a \in Nat |-> IF b = 0 THEN a ELSE h[a % b][b]]
      BY <3>2
    <3>4. /\ G[b][g] = [a \in Nat |-> IF b = 0 THEN a ELSE g[a % b][b]]
          /\ G[b][h] = [a \in Nat |-> IF b = 0 THEN a ELSE h[a % b][b]]
      <4> HIDE DEF A, G
      <4> QED
        BY <1>2
    <3> HIDE DEF A, G
    <3> QED
      BY <3>4, <3>3, Zenon
  <2> QED
    BY <2>2, <2>3
<1>4. GoesDown(Nat, A, m, G)
  <2> HIDE DEF G, m, A
  <2> QED
    BY <1>1, <1>2, <1>3 DEF GoesDown
<1>5. HasSolution(Nat, A, G)
  <2> HIDE DEF G, m, A
  <2> QED
    BY <1>4, Recursion
<1>6. PICK g \in [Nat -> A] : \A b \in Nat : g[b] = G[b][g]
  BY <1>5 DEF HasSolution
<1>7. \A b \in Nat : g[b] = [a \in Nat |-> IF b = 0 THEN a ELSE g[a % b][b]]
  <2> HIDE DEF G, A
  <2> QED
    BY <1>2, <1>6
<1>8. g = [b \in Nat |-> [a \in Nat |-> IF b = 0 THEN a ELSE g[a % b][b]]]
  <2> HIDE DEF G, A
  <2> QED
    BY <1>6, <1>7
<1> QED
  BY <1>8

\* Euclid's algorithm
LEMMA GcdIs ==
    ASSUME NEW a \in Nat, NEW b \in Nat
    PROVE  gcd[b][a] = IF b = 0 THEN a ELSE gcd[a % b][b]
<1>1. gcd = [y \in Nat |-> [x \in Nat |-> IF y = 0 THEN x ELSE gcd[x % y][y]]]
  BY GcdExists DEF gcd
<1> QED
  BY <1>1

\* The definition of power goes down in its argument.
LEMMA PowerExists == \E g : g = [i \in Nat |-> IF i = 0 THEN 1 ELSE 2 * g[i - 1]]
<1> DEFINE m == [b \in Nat |-> b]
           G == [i \in Nat |-> [g \in [Nat -> Nat] |-> IF i = 0 THEN 1 ELSE 2 * g[i - 1]]]
<1>1. 0 \in Nat /\ m \in [Nat -> Nat]
  OBVIOUS
<1>4. GoesDown(Nat, Nat, m, G)
  BY <1>1 DEF GoesDown
<1>5. HasSolution(Nat, Nat, G)
  <2> HIDE DEF G, m
  <2> QED
    BY <1>4, Recursion
<1>6. PICK g \in [Nat -> Nat] : \A b \in Nat : g[b] = G[b][g]
  BY <1>5 DEF HasSolution
<1>8. g = [i \in Nat |-> IF i = 0 THEN 1 ELSE 2 * g[i - 1]]
    BY <1>6
<1> QED
  BY <1>8

\* A quotient, rounded down
LEMMA Quotient ==
    ASSUME NEW a \in Nat, NEW b \in Nat \ {0}
    PROVE  /\ a \div b \in Nat
           /\ b * (a \div b) <= a
           /\ a < b * (a \div b) + b
OBVIOUS

\* A quotient of a number by a smaller one is not 0.
LEMMA QuotientPositive ==
    ASSUME NEW a \in Nat, NEW b \in Nat \ {0}, b <= a
    PROVE  a \div b >= 1
OBVIOUS

\* A common divisor of a and b is not 0 unless both are, and not above b unless b is 0.
LEMMA GcdBounds ==
    \A b \in Nat : \A a \in Nat : a > 0 \/ b > 0 =>
        /\ gcd[b][a] \in Nat \ {0}
        /\ IF b = 0 THEN gcd[b][a] = a ELSE gcd[b][a] <= b
<1> DEFINE Right(a, b) == a > 0 \/ b > 0 =>
               /\ gcd[b][a] \in Nat \ {0}
               /\ IF b = 0 THEN gcd[b][a] = a ELSE gcd[b][a] <= b
           T == {n \in Nat : \A b \in 0 .. n : \A a \in Nat : Right(a, b)}
<1>1. 0 \in T
  BY GcdIs
<1>2. ASSUME NEW n \in T PROVE n + 1 \in T
  <2>1. ASSUME NEW a \in Nat, NEW b \in 0 .. n + 1 PROVE Right(a, b)
    <3>1. CASE b = 0
      BY <3>1, GcdIs
    <3>2. CASE b # 0
      <4>1. PICK r \in 0 .. b - 1 : r = a % b
        BY <3>2, Remainder
      <4>2. gcd[b][a] = gcd[r][b]
        BY <3>2, <4>1, GcdIs
      <4>3. r \in 0 .. n /\ b \in Nat /\ b > 0
        BY <3>2, <4>1
      <4>4. Right(b, r)
        BY <4>3
      <4> QED
        BY <3>2, <4>1, <4>2, <4>3, <4>4
    <3> QED
      BY <3>1, <3>2
  <2> HIDE DEF Right
  <2> QED
    BY <2>1
<1>3. T \in SUBSET Nat
  OBVIOUS
<1> HIDE DEF T
<1>4. \A n \in Nat : n \in T
  BY <1>1, <1>2, <1>3, InductionOn
<1>5. \A b \in Nat : \A a \in Nat : Right(a, b)
  <2> HIDE DEF Right
  <2> QED
    BY <1>4 DEF T
<1> QED
  BY <1>5

(* Floats *)

\* A quotient of numbers that are not negative.
Floats == {f \in [n : Nat, d : Nat] : f.d = 0 => f.n \in {0, 1}}

\* A fraction is reduced to a float, with a denominator unless it had none.
LEMMA FloatIs ==
    ASSUME NEW n \in Nat, NEW d \in Nat
    PROVE  /\ Float(n, d) \in Floats
           /\ d > 0 => Float(n, d).d > 0
           /\ d = 0 => Float(n, d) = [n |-> IF n = 0 THEN 0 ELSE 1, d |-> 0]
<1>1. CASE n = 0 /\ d = 0
  BY <1>1 DEF Float, Floats
<1>2. CASE n > 0 /\ d = 0
  <2>1. gcd[d][n] = n
    BY <1>2, GcdIs
  <2>2. n \div n = 1 /\ 0 \div n = 0
    BY <1>2
  <2> QED
    BY <1>2, <2>1, <2>2 DEF Float, Floats
<1>3. CASE d > 0
  <2>1. PICK g \in Nat \ {0} : g = gcd[d][n] /\ g <= d
    BY <1>3, GcdBounds
  <2>2. n \div g \in Nat /\ d \div g \in Nat /\ d \div g >= 1
    BY <2>1, Quotient, QuotientPositive
  <2>3. Float(n, d) = [n |-> n \div g, d |-> d \div g]
    BY <1>3, <2>1 DEF Float
  <2> QED
    BY <1>3, <2>2, <2>3 DEF Floats
<1> QED
  BY <1>1, <1>2, <1>3

\* The floats that are no numbers.
LEMMA NotNumbers == NaN = [n |-> 0, d |-> 0] /\ Inf = [n |-> 1, d |-> 0]
BY FloatIs DEF NaN, Inf

\* The others have a denominator.
LEMMA NumbersAre ==
    ASSUME NEW f \in Floats, f # NaN, f # Inf
    PROVE  f.n \in Nat /\ f.d \in Nat \ {0}
BY NotNumbers DEF Floats

\* Products, as facts of their own for provers that have no multiplication
LEMMA ProductNat == ASSUME NEW a \in Nat, NEW b \in Nat PROVE a * b \in Nat
OBVIOUS

\* Floats are closed under what analyse() computes with them.
LEMMA SumOfFloats ==
    ASSUME NEW f \in Floats, NEW g \in Floats
    PROVE  SumOf(f, g) \in Floats
<1>1. f.n \in Nat /\ f.d \in Nat /\ g.n \in Nat /\ g.d \in Nat
  BY DEF Floats
<1>2. f.n * g.n \in Nat /\ f.n * g.d + g.n * f.d \in Nat /\ f.d * g.d \in Nat
  BY <1>1, ProductNat
<1> QED
  BY <1>2, FloatIs DEF SumOf

\* A square is not negative.
LEMMA SquareNat == ASSUME NEW i \in Int PROVE i * i \in Nat
OBVIOUS

\* The square of a difference
LEMMA DifferenceOfFloats ==
    ASSUME NEW f \in Floats, NEW g \in Floats
    PROVE  DifferenceSquared(f, g) \in Floats
<1>1. f.n \in Nat /\ f.d \in Nat /\ g.n \in Nat /\ g.d \in Nat
  BY DEF Floats
<1>2. f.n * g.d - g.n * f.d \in Int /\ f.d * g.d \in Int
  BY <1>1
<1>3. PICK a \in Int, b \in Int : a = f.n * g.d - g.n * f.d /\ b = f.d * g.d
  BY <1>2
<1>4. a * a \in Nat /\ b * b \in Nat
  BY SquareNat
<1>5. DifferenceSquared(f, g) = Float(a * a, b * b)
  BY <1>3 DEF DifferenceSquared
<1> QED
  BY <1>4, <1>5, FloatIs

\* SumOfAll, as the recursive function that it is.
LEMMA FoldUnfolds ==
    ASSUME NEW f, NEW S, NEW it,
           it = [s \in SUBSET S |-> IF s = {} THEN Float(0, 1) ELSE SumOf(f[First(s)], it[s \ {First(s)}])]
    PROVE  \E iter : /\ iter = [s \in SUBSET S |-> IF s = {} THEN Float(0, 1) ELSE SumOf(f[First(s)], iter[s \ {First(s)}])]
                     /\ SumOfAll(f, S) = iter[S]
BY DEF SumOfAll, FoldFunctionOnSet, MapThenFoldSet, First

\* A sum of floats is one.
LEMMA FoldOfFloats ==
    ASSUME NEW S, IsFiniteSet(S), NEW f, \A x \in S : f[x] \in Floats
    PROVE  SumOfAll(f, S) \in Floats
<1> DEFINE op == [x \in S |-> [a \in Floats |-> SumOf(f[x], a)]]
<1>0. Float(0, 1) \in Floats
  BY FloatIs
<1>1. PICK it \in [SUBSET S -> Floats] : FoldsTo(S, op, Float(0, 1), it)
  <2>1. \A x \in S : \A a \in Floats : op[x][a] \in Floats
    BY SumOfFloats
  <2> HIDE DEF op
  <2> QED
    BY <2>1, <1>0, FoldExists
<1>2. ASSUME NEW s \in SUBSET S
      PROVE  it[s] = IF s = {} THEN Float(0, 1) ELSE SumOf(f[First(s)], it[s \ {First(s)}])
  <2>1. CASE s = {}
    BY <1>1, <2>1 DEF FoldsTo
  <2>2. CASE s # {}
    <3>1. First(s) \in S /\ s \ {First(s)} \in SUBSET S
      BY <2>2, FirstOf
    <3>2. it[s \ {First(s)}] \in Floats /\ it[s] = op[First(s)][it[s \ {First(s)}]]
      BY <1>1, <2>2, <3>1 DEF FoldsTo
    <3> QED
      BY <2>2, <3>1, <3>2
  <2> QED
    BY <2>1, <2>2
<1> HIDE DEF op
<1>3. it = [s \in SUBSET S |-> IF s = {} THEN Float(0, 1) ELSE SumOf(f[First(s)], it[s \ {First(s)}])]
  BY <1>2
<1>4. PICK iter : /\ iter = [s \in SUBSET S |-> IF s = {} THEN Float(0, 1) ELSE SumOf(f[First(s)], iter[s \ {First(s)}])]
                  /\ SumOfAll(f, S) = iter[S]
  BY <1>3, FoldUnfolds
<1> DEFINE T == {s \in SUBSET S : iter[s] \in Floats}
<1>5. {} \in T /\ T \in SUBSET (SUBSET S)
  BY <1>0, <1>4
<1>6. ASSUME NEW s \in SUBSET S, s # {}, \A x \in s : s \ {x} \in T
      PROVE  s \in T
  <2>1. s \ {First(s)} \in T /\ f[First(s)] \in Floats
    BY <1>6, FirstOf
  <2>2. iter[s] = SumOf(f[First(s)], iter[s \ {First(s)}])
    BY <1>4, <1>6
  <2> QED
    BY <2>1, <2>2, SumOfFloats
<1>7. \A s \in SUBSET S : s \in T
  <2> HIDE DEF T
  <2> QED
    BY <1>5, <1>6, SetInduction
<1> QED
  BY <1>4, <1>7

-----------------------------------------------------------------------------
(* The statistics and the scale *)

Histories == [slots : [Slots -> Nat], counts : [Slots -> Nat]]

\* The slots of a history.
LEMMA SlotsFinite == IsFiniteSet(Slots) /\ SlotsCount \in Nat \ {0} /\ 0 \in Slots
BY AutoScalerAssumption, FS_Interval DEF Slots

\* The slots with values are some of them.
LEMMA FilledFinite ==
    ASSUME NEW h
    PROVE  IsFiniteSet(Filled(h)) /\ Filled(h) \subseteq Slots
BY SlotsFinite, FS_Subset DEF Filled

\* The mean of a history is a float, which may be none of the numbers.
LEMMA MeanIsFloat ==
    ASSUME NEW h \in Histories
    PROVE  MeanOf(h) \in Floats
<1>1. \A x \in Filled(h) : h.slots[x] \in Nat /\ h.counts[x] \in Nat
  BY FilledFinite DEF Histories
<1>2. Sum(h) \in Nat /\ Count(h) \in Nat
  BY <1>1, FilledFinite, SumNat DEF Sum, Count
<1> QED
  BY <1>2, FloatIs DEF MeanOf

\* So is its variance.
LEMMA VarianceIsFloat ==
    ASSUME NEW h \in Histories, NEW f \in Floats
    PROVE  VarianceOf(h, f) \in Floats
<1>1. ASSUME NEW x \in Filled(h) PROVE Squares(h, f)[x] \in Floats
  <2>1. h.slots[x] \in Nat /\ h.counts[x] \in Nat
    BY FilledFinite DEF Histories
  <2>2. Float(h.slots[x], h.counts[x]) \in Floats
    BY <2>1, FloatIs
  <2>3. Squares(h, f)[x] = DifferenceSquared(Float(h.slots[x], h.counts[x]), f)
    BY DEF Squares
  <2> QED
    BY <2>2, <2>3, DifferenceOfFloats
<1>2. PICK all \in Floats : all = SumOfAll(Squares(h, f), Filled(h))
  BY <1>1, FilledFinite, FoldOfFloats
<1>3. all.n \in Nat /\ SlotsCount * all.d \in Nat
  BY SlotsFinite, ProductNat DEF Floats
<1> QED
  BY <1>2, <1>3, FloatIs DEF VarianceOf, VarianceOver

\* Max is the greatest number of a set that has a bound.
LEMMA Greatest ==
    ASSUME NEW S \in SUBSET Nat, S # {}, NEW b \in Nat, \A x \in S : x <= b
    PROVE  Max(S) \in S /\ \A x \in S : x <= Max(S)
<1> DEFINE Gaps == {b - x : x \in S}
<1>1. Gaps \in SUBSET Nat /\ Gaps # {}
  <2>1. \A x \in S : b - x \in Nat
    OBVIOUS
  <2> QED
    BY <2>1
<1>2. PICK n \in Gaps : \A k \in Gaps : n <= k
  <2> HIDE DEF Gaps
  <2> QED
    BY <1>1, LeastNumber
<1>3. PICK y \in S : n = b - y
  OBVIOUS
<1>4. \A x \in S : x <= y
  BY <1>2, <1>3
<1>5. \E z \in S : \A x \in S : z >= x
  BY <1>4
<1> QED
  BY <1>5 DEF Max

\* A scale begins at 0 or above, and does not end before it begins.
LEMMA ScaleBounds ==
    ASSUME NEW f \in Floats, NEW v \in Floats
    PROVE  /\ Low(f, v) \in Nat /\ High(f, v) \in Nat
           /\ Low(f, v) <= High(f, v)
<1>1. MaxInt \in Nat /\ NaN # Inf
  BY AutoScalerAssumption, NotNumbers
<1>2. CASE f = NaN \/ f = Inf \/ v = NaN
  BY <1>1, <1>2 DEF Low, High
<1>3. CASE f # NaN /\ f # Inf /\ v # NaN
  <2>1. f.n \in Nat /\ f.d \in Nat \ {0}
    BY <1>3, NumbersAre
  <2>2. PICK floor \in Nat : floor = f.n \div f.d
    BY <2>1, Quotient
  <2>3. CASE v = Inf
    BY <1>1, <1>3, <2>3 DEF Low, High
  <2>4. CASE v # Inf
    <3> DEFINE Lows == {0} \cup {i \in 0 .. floor : Without(i, f, 9, v)}
    <3>1. Low(f, v) = Max(Lows)
      BY <1>3, <2>2, <2>4 DEF Low
    <3>2. Max(Lows) \in Lows
      <4>1. Lows \in SUBSET Nat /\ Lows # {} /\ \A x \in Lows : x <= floor
        OBVIOUS
      <4> HIDE DEF Lows
      <4> QED
        BY <4>1, Greatest
    <3>3. v.n \in Nat /\ v.d \in Nat \ {0}
      BY <1>3, <2>4, NumbersAre
    <3>4. PICK top \in Nat : top = floor + 2 * (v.n \div v.d + 2)
      BY <3>3, Quotient
    <3> DEFINE Highs == {floor} \cup {i \in floor + 1 .. top : Within(i, f, 4, v)}
    <3>5. High(f, v) = Max(Highs)
      BY <1>3, <2>2, <2>4, <3>4 DEF High
    <3>6. floor <= top
      BY <3>3, <3>4, Quotient
    <3>7. Max(Highs) \in Highs /\ floor <= Max(Highs)
      <4>1. Highs \in SUBSET Nat /\ floor \in Highs /\ \A x \in Highs : x <= top
        BY <3>6
      <4> HIDE DEF Highs
      <4> QED
        BY <4>1, Greatest
    <3> QED
      BY <3>1, <3>2, <3>5, <3>7
  <2> QED
    BY <2>3, <2>4
<1> QED
  BY <1>2, <1>3

\* A value is held to its scale.
LEMMA ScaledFits ==
    ASSUME NEW val \in Nat, NEW low \in Nat, NEW high \in Nat, low <= high
    PROVE  /\ Scaled(val, low, high).val \in 0 .. Scaled(val, low, high).max
           /\ Scaled(val, low, high) \in [val : Nat, max : Nat]
<1>1. Max({val - low, 0}) = IF val < low THEN 0 ELSE val - low
  BY DEF Max
<1>2. PICK a \in Nat, b \in Nat : a = Max({val - low, 0}) /\ b = high - low
  BY <1>1
<1>3. Min({a, b}) = IF a < b THEN a ELSE b
  BY DEF Min
<1> QED
  BY <1>2, <1>3 DEF Scaled

-----------------------------------------------------------------------------
(* Bits *)

\* Powers of 2
LEMMA PowerIs ==
    /\ power[0] = 1
    /\ \A n \in Nat : power[n] \in Nat \ {0} /\ power[n + 1] = 2 * power[n]
<1>1. power = [i \in Nat |-> IF i = 0 THEN 1 ELSE 2 * power[i - 1]]
  BY PowerExists DEF power
<1>2. power[0] = 1 /\ \A n \in Nat : power[n + 1] = 2 * power[n]
  BY <1>1
<1> DEFINE T == {n \in Nat : power[n] \in Nat \ {0}}
<1>3. 0 \in T /\ T \in SUBSET Nat
  BY <1>2
<1>4. ASSUME NEW n \in T PROVE n + 1 \in T
  BY <1>2
<1>5. \A n \in Nat : n \in T
  <2> HIDE DEF T
  <2> QED
    BY <1>3, <1>4, InductionOn
<1> QED
  BY <1>2, <1>5

\* Euclid's division
LEMMA DivisionIs ==
    ASSUME NEW a \in Nat, NEW b \in Nat \ {0}
    PROVE  a = b * (a \div b) + (a % b)
OBVIOUS

\* What is less than the divisor is what remains.
LEMMA Remains ==
    ASSUME NEW b \in Nat \ {0}, NEW q \in Nat, NEW r \in 0 .. b - 1, NEW a \in Nat, a = b * q + r
    PROVE  a % b = r
<1>3. PICK p \in Nat, s \in 0 .. b - 1 : a = b * p + s /\ s = a % b
  BY Quotient, Remainder, DivisionIs
<1>4. ~ (p < q)
  <2> SUFFICES ASSUME p < q PROVE FALSE
    OBVIOUS
  <2>1. PICK k \in Nat : q = p + 1 + k
    <3>1. q - p - 1 \in Nat /\ q = p + 1 + (q - p - 1)
      OBVIOUS
    <3> QED
      BY <3>1
  <2>2. b * q = b * p + b + b * k /\ b * k \in Nat /\ b * p \in Nat
    BY <2>1, ProductNat
  <2> QED
    BY <1>3, <2>2
<1>5. ~ (q < p)
  <2> SUFFICES ASSUME q < p PROVE FALSE
    OBVIOUS
  <2>1. PICK k \in Nat : p = q + 1 + k
    <3>1. p - q - 1 \in Nat /\ p = q + 1 + (p - q - 1)
      OBVIOUS
    <3> QED
      BY <3>1
  <2>2. b * p = b * q + b + b * k /\ b * k \in Nat /\ b * q \in Nat
    BY <2>1, ProductNat
  <2> QED
    BY <1>3, <2>2
<1>6. p = q
  BY <1>4, <1>5
<1>7. PICK c \in Nat : c = b * q
  BY ProductNat
<1>8. a = c + r /\ a = c + s
  BY <1>3, <1>6, <1>7
<1>9. r = s
  BY <1>7, <1>8
<1> QED
  BY <1>3, <1>9

\* The bits of a number below bit n + 1
LEMMA NextBit ==
    ASSUME NEW a \in Nat, NEW p \in Nat \ {0}, NEW twice, twice = 2 * p
    PROVE  a % twice = (a % p) + (p * ((a \div p) % 2))
<1>1. PICK q \in Nat, r \in 0 .. p - 1 : q = a \div p /\ r = a % p /\ a = p * q + r
  BY Quotient, Remainder, DivisionIs
<1>2. PICK h \in Nat, b \in 0 .. 1 : h = q \div 2 /\ b = q % 2 /\ q = 2 * h + b
  OBVIOUS
<1>3. p * q = twice * h + p * b
  BY <1>2
<1>4. p * b + r \in 0 .. twice - 1
  <2>1. CASE b = 0
    BY <2>1
  <2>2. CASE b = 1
    BY <2>2
  <2> QED
    BY <2>1, <2>2
<1>5. PICK s \in 0 .. twice - 1 : s = p * b + r
  BY <1>4
<1>6. a = twice * h + s
  <2>1. PICK x \in Nat, y \in Nat : x = p * b /\ y = twice * h
    BY ProductNat
  <2> QED
    BY <1>1, <1>3, <1>5, <2>1
<1>7. twice \in Nat \ {0}
  OBVIOUS
<1>8. a % twice = s
  BY <1>6, <1>7, Remains
<1>9. p * b \in Int /\ p * b + r = r + p * b
  OBVIOUS
<1>10. r = a % p /\ b = (a \div p) % 2
  BY <1>1, <1>2, Zenon
<1>11. a % twice = r + (p * b)
  BY <1>5, <1>8, <1>9, Zenon
<1> QED
  BY <1>10, <1>11, Zenon

\* The bits of a below bit n that are set.
SetBits(a, n) == {i \in 0 .. n - 1 : Bit(a, i) = 1}

\* The powers of the bits that are set add up to the number, as far as it has them.
LEMMA BitsAddUp ==
    ASSUME NEW a \in Nat
    PROVE  \A n \in Nat : SumFunctionOnSet(power, SetBits(a, n)) = a % power[n]
<1> DEFINE T == {n \in Nat : SumFunctionOnSet(power, SetBits(a, n)) = a % power[n]}
<1>1. 0 \in T /\ T \in SUBSET Nat
  <2>1. SetBits(a, 0) = {}
    BY DEF SetBits
  <2>2. a % 1 = 0
    OBVIOUS
  <2> QED
    BY <2>1, <2>2, SumEmpty, PowerIs
<1>2. ASSUME NEW n \in T PROVE n + 1 \in T
  <2>1. n \in Nat /\ n + 1 \in Nat /\ power[n] \in Nat \ {0} /\ power[n + 1] = 2 * power[n]
    BY PowerIs
  <2>2. a % power[n + 1] = (a % power[n]) + power[n] * Bit(a, n)
    BY <2>1, NextBit DEF Bit
  <2>3. SumFunctionOnSet(power, SetBits(a, n)) = a % power[n] /\ a % power[n] \in Nat
    <3>1. SumFunctionOnSet(power, SetBits(a, n)) = a % power[n]
      OBVIOUS
    <3>2. a % power[n] \in 0 .. power[n] - 1
      BY <2>1, Remainder
    <3> QED
      BY <2>1, <3>1, <3>2
  <2>4. Bit(a, n) \in {0, 1}
    <3>1. a \div power[n] \in Nat
      BY <2>1, Quotient
    <3> QED
      BY <3>1 DEF Bit
  <2>5. CASE Bit(a, n) = 0
    <3>1. SetBits(a, n + 1) = SetBits(a, n)
      BY <2>5 DEF SetBits
    <3> QED
      BY <2>1, <2>2, <2>3, <2>5, <3>1
  <2>6. CASE Bit(a, n) = 1
    <3>1. n \in SetBits(a, n + 1) /\ SetBits(a, n + 1) \ {n} = SetBits(a, n)
      BY <2>6 DEF SetBits
    <3>2. IsFiniteSet(SetBits(a, n + 1)) /\ \A x \in SetBits(a, n + 1) : power[x] \in Int
      <4>1. SetBits(a, n + 1) \in SUBSET (0 .. n)
        BY DEF SetBits
      <4>2. IsFiniteSet(0 .. n)
        BY FS_Interval
      <4>3. IsFiniteSet(SetBits(a, n + 1))
        BY <4>1, <4>2, FS_Subset
      <4>4. \A x \in Nat : power[x] \in Int
        BY PowerIs
      <4>5. \A x \in SetBits(a, n + 1) : x \in Nat
        BY <4>1
      <4> QED
        BY <4>3, <4>4, <4>5
    <3>3. SumFunctionOnSet(power, SetBits(a, n + 1)) = power[n] + SumFunctionOnSet(power, SetBits(a, n))
      BY <3>1, <3>2, SumTaken
    <3> QED
      BY <2>1, <2>2, <2>3, <2>6, <3>3
  <2> QED
    BY <2>4, <2>5, <2>6
<1>3. \A n \in Nat : n \in T
  <2> HIDE DEF T
  <2> QED
    BY <1>1, <1>2, InductionOn
<1> QED
  BY <1>3

-----------------------------------------------------------------------------
(* LEDs *)

MeterRecords == [type : {"lumen", "flash", "strobe", "bar", "dot", "binary"},
                 count : Nat \ {0}, floor : BOOLEAN, gate : Int]

\* A quotient of a number below b times c + 1
LEMMA QuotientLess ==
    ASSUME NEW n \in Nat, NEW b \in Nat \ {0}, NEW c \in Nat, n < b * c + b
    PROVE  n \div b <= c
<1>1. PICK q \in Nat : q = n \div b /\ b * q <= n
  BY Quotient
<1> SUFFICES ASSUME c < q PROVE FALSE
  BY <1>1
<1>2. PICK k \in Nat : q = c + 1 + k
  <2>1. q - c - 1 \in Nat /\ q = c + 1 + (q - c - 1)
    OBVIOUS
  <2> QED
    BY <2>1
<1>3. b * q = b * c + b + b * k /\ b * k \in Nat /\ b * c \in Nat
  BY <1>2, ProductNat
<1> QED
  BY <1>1, <1>3

\* The scale of val by m.count is share, and its last LED stands for filled.
Reached(m, val, max, h, filled, share) ==
    /\ h = Highest(m, val, max) /\ filled = h * max /\ share = val * m.count
    /\ val = 0 => h = 0
    /\ val # 0 /\ m.floor => filled <= share /\ share < filled + max
    /\ val # 0 /\ ~m.floor => 2 * filled <= 2 * share + max /\ 2 * share < 2 * filled + max

\* The LEDs of a scale: not more than there are, and rounded down or to the nearest.
LEMMA HighestFits ==
    ASSUME NEW m \in MeterRecords, NEW val \in Nat, NEW max \in Nat, val <= max
    PROVE  \E h \in 0 .. m.count : \E filled \in Nat : \E share \in Nat :
               Reached(m, val, max, h, filled, share)
<1>1. m.count \in Nat \ {0} /\ m.floor \in BOOLEAN
  BY DEF MeterRecords
<1>2. PICK share \in Nat : share = val * m.count
  BY <1>1, ProductNat
<1>3. CASE val = 0
  <2>1. Highest(m, val, max) = 0 /\ 0 * max = 0
    BY <1>3 DEF Highest
  <2> QED
    BY <1>1, <1>2, <1>3, <2>1 DEF Reached
<1>4. PICK whole \in Nat : whole = max * m.count /\ share <= whole
  <2>1. PICK k \in Nat : max = val + k
    <3>1. max - val \in Nat /\ max = val + (max - val)
      OBVIOUS
    <3> QED
      BY <3>1
  <2>2. max * m.count = val * m.count + k * m.count /\ k * m.count \in Nat
    BY <1>1, <2>1, ProductNat
  <2> QED
    BY <1>1, <1>2, <2>2
<1>5. CASE val # 0 /\ m.floor
  <2>1. max \in Nat \ {0}
    BY <1>5
  <2>2. PICK h \in Nat : h = share \div max /\ max * h <= share /\ share < max * h + max
    BY <2>1, Quotient
  <2>3. h <= m.count
    BY <1>1, <1>4, <2>1, <2>2, QuotientLess
  <2>4. PICK filled \in Nat : filled = h * max /\ filled = max * h
    BY <2>1, <2>2, ProductNat
  <2>5. Highest(m, val, max) = h
    BY <1>2, <1>5, <2>2 DEF Highest
  <2>6. Reached(m, val, max, h, filled, share)
    BY <1>2, <1>5, <2>2, <2>4, <2>5 DEF Reached
  <2> QED
    BY <1>1, <2>3, <2>6
<1>6. CASE val # 0 /\ ~m.floor
  <2>1. 2 * max \in Nat \ {0} /\ 2 * share + max \in Nat
    BY <1>6
  <2>2. PICK h \in Nat : /\ h = (2 * share + max) \div (2 * max)
                         /\ (2 * max) * h <= 2 * share + max
                         /\ 2 * share + max < (2 * max) * h + 2 * max
    BY <2>1, Quotient
  <2>3. h <= m.count
    <3>1. (2 * max) * m.count = 2 * whole
      BY <1>1, <1>4
    <3>2. 2 * share + max < (2 * max) * m.count + 2 * max
      BY <1>4, <3>1, <1>6
    <3> QED
      BY <1>1, <2>1, <2>2, <3>2, QuotientLess
  <2>4. PICK filled \in Nat : filled = h * max
    BY <2>2, ProductNat
  <2>5. (2 * max) * h = 2 * filled
    BY <2>4
  <2>6. Highest(m, val, max) = h
    <3>1. 2 * val * m.count = 2 * share
      BY <1>1, <1>2
    <3> QED
      BY <1>6, <2>2, <3>1 DEF Highest
  <2>7. 2 * filled <= 2 * share + max /\ 2 * share < 2 * filled + max
    BY <2>2, <2>5
  <2>8. Reached(m, val, max, h, filled, share)
    BY <1>2, <1>6, <2>4, <2>6, <2>7 DEF Reached
  <2> QED
    BY <1>1, <2>3, <2>8
<1> QED
  BY <1>1, <1>3, <1>5, <1>6

\* An LED that is lit is told from one that is dark.
LEMMA LitIsNotDark == Lit # Dark /\ Lit.num = 1 /\ Dark.num = 0 /\ Dark.den = 1
BY DEF Lit, Dark, Fraction

\* A panel is within half an LED of its value, or of one LED below.
Near(m, position, val, max) ==
    LET off == position * max - val * m.count
    IN  IF m.floor THEN (-max < off /\ off <= 0) \/ (val = 0 /\ position = 0)
                   ELSE -max <= 2 * off /\ 2 * off <= max

\* The last LED of a scale tells the value.
LEMMA HighestNear ==
    ASSUME NEW m \in MeterRecords, NEW val \in Nat, NEW max \in Nat, val <= max
    PROVE  Highest(m, val, max) \in 0 .. m.count /\ Near(m, Highest(m, val, max), val, max)
<1>1. m.count \in Nat \ {0} /\ m.floor \in BOOLEAN
  BY DEF MeterRecords
<1>2. PICK h \in 0 .. m.count, filled \in Nat, share \in Nat : Reached(m, val, max, h, filled, share)
  BY HighestFits
<1>3. val = 0 => filled = 0 /\ share = 0
  BY <1>1, <1>2 DEF Reached
<1>4. IF m.floor THEN (-max < filled - share /\ filled - share <= 0) \/ (val = 0 /\ h = 0)
                 ELSE -max <= 2 * (filled - share) /\ 2 * (filled - share) <= max
  <2>1. CASE m.floor
    BY <1>2, <2>1 DEF Reached
  <2>2. CASE ~m.floor
    <3>1. CASE val = 0
      BY <1>3, <2>2, <3>1
    <3>2. CASE val # 0
      BY <1>2, <2>2, <3>2 DEF Reached
    <3> QED
      BY <3>1, <3>2
  <2> QED
    BY <2>1, <2>2
<1>5. h = Highest(m, val, max) /\ filled = h * max /\ share = val * m.count
  BY <1>2 DEF Reached
<1>6. Near(m, h, val, max)
  BY <1>4, <1>5 DEF Near
<1> QED
  BY <1>5, <1>6

\* Every type of meter tells a value of its scale.
LEMMA UpdateTells ==
    ASSUME NEW m \in MeterRecords, NEW val \in Nat, NEW max \in Nat, val <= max
    PROVE  Tells(m, Update(m, val, max), val, max)
<1> DEFINE leds == Update(m, val, max)
<1>1. m.count \in Nat \ {0} /\ m.type \in {"lumen", "flash", "strobe", "bar", "dot", "binary"}
  BY DEF MeterRecords
<1>2. DOMAIN leds = 0 .. m.count - 1
  BY DEF Update, LedsOf
<1>3. PICK h \in 0 .. m.count : h = Highest(m, val, max) /\ Near(m, h, val, max)
  BY HighestNear
<1>4. CASE m.type \in {"lumen", "flash", "strobe"}
  <2>1. \A i \in DOMAIN leds : leds[i] = Share(val, max)
    BY <1>2, <1>4 DEF Update, LedsOf
  <2>2. Share(val, max).num * max = Share(val, max).den * val
    <3>1. CASE val = 0
      BY <3>1 DEF Share, Dark, Fraction
    <3>2. CASE val # 0
      <4>1. Share(val, max).num = val /\ Share(val, max).den = max
        BY <3>2 DEF Share, Fraction
      <4> QED
        BY <4>1
    <3> QED
      BY <3>1, <3>2
  <2> HIDE DEF leds
  <2>3. \A i \in DOMAIN leds : leds[i].num * max = leds[i].den * val
    BY <2>1, <2>2
  <2> QED
    BY <2>3, <1>4 DEF Tells, leds
<1>5. CASE m.type = "bar"
  <2>1. \A i \in 0 .. m.count - 1 : leds[i] = IF i < h THEN Lit ELSE Dark
    BY <1>3, <1>5 DEF Update, LedsOf
  <2> HIDE DEF leds
  <2>2. LitLeds(leds) = 0 .. h - 1
    BY <1>1, <1>2, <2>1, LitIsNotDark DEF LitLeds
  <2>3. Cardinality(LitLeds(leds)) = h
    BY <2>2, FS_Interval
  <2> QED
    BY <1>3, <1>5, <2>3 DEF Tells, Near, leds
<1>6. CASE m.type = "dot"
  <2>1. \A i \in 0 .. m.count - 1 : leds[i] = IF i = h - 1 THEN Lit ELSE Dark
    BY <1>3, <1>6 DEF Update, LedsOf
  <2> HIDE DEF leds
  <2> DEFINE places == [i \in LedsOf(m) |-> i + 1]
  <2>2. SumFunctionOnSet(places, LitLeds(leds)) = h
    <3>1. CASE h = 0
      <4>1. LitLeds(leds) = {}
        BY <3>1, <1>1, <1>2, <2>1, LitIsNotDark DEF LitLeds
      <4> QED
        BY <3>1, <4>1, SumEmpty
    <3>2. CASE h # 0
      <4>1. LitLeds(leds) = {h - 1}
        BY <3>2, <1>1, <1>2, <2>1, LitIsNotDark DEF LitLeds
      <4>2. places[h - 1] = h /\ h \in Int
        BY <3>2, <1>1 DEF LedsOf
      <4> HIDE DEF places
      <4> QED
        BY <4>1, <4>2, SumOne
    <3> QED
      BY <3>1, <3>2
  <2> QED
    BY <1>3, <1>6, <2>2 DEF Tells, Near, leds
<1>7. CASE m.type = "binary"
  <2>1. \A i \in 0 .. m.count - 1 : leds[i] = IF Bit(val, i) = 1 THEN Lit ELSE Dark
    BY <1>7 DEF Update, LedsOf
  <2> HIDE DEF leds
  <2>2. LitLeds(leds) = SetBits(val, m.count)
    BY <1>2, <2>1, LitIsNotDark DEF LitLeds, SetBits
  <2>3. SumFunctionOnSet(power, LitLeds(leds)) = val % power[m.count]
    BY <1>1, <2>2, BitsAddUp
  <2> QED
    BY <1>7, <2>3 DEF Tells, leds
<1> QED
  BY <1>1, <1>4, <1>5, <1>6, <1>7

\* A gated value is still within the max.
LEMMA GatedIs ==
    ASSUME NEW val \in Nat, NEW max \in Nat, val <= max, NEW gate \in Int
    PROVE  Gated(val, max, gate) \in Nat /\ Gated(val, max, gate) <= max
BY DEF Gated

\* Neither does it show an error.
LEMMA UpdateNeverFails ==
    ASSUME NEW m \in MeterRecords, NEW val \in Nat, NEW max
    PROVE  Update(m, val, max) # ErrorLeds(m)
<1>1. 0 \in LedsOf(m) /\ m.type \in {"lumen", "flash", "strobe", "bar", "dot", "binary"}
  BY DEF MeterRecords, LedsOf
<1>2. Update(m, val, max)[0] \in {Share(val, max), Lit, Dark}
  BY <1>1 DEF Update
<1>3. Share(val, max).num \in Nat /\ Lit.num \in Nat /\ Dark.num \in Nat
  BY DEF Share, Lit, Dark, Fraction
<1>4. ErrorLeds(m)[0].num = -1
  BY <1>1 DEF ErrorLeds, Fraction
<1> QED
  BY <1>2, <1>3, <1>4

\* A meter shows an error for a value above its max, and otherwise tells it.
LEMMA Visualised ==
    ASSUME NEW m \in MeterRecords, NEW shown \in [val : Nat, max : Int]
    PROVE  IF shown.val <= shown.max
           THEN /\ visualise(m, shown) # ErrorLeds(m)
                /\ Tells(m, visualise(m, shown), Gated(shown.val, shown.max, m.gate), shown.max)
           ELSE visualise(m, shown) = ErrorLeds(m)
<1>1. CASE shown.val <= shown.max
  <2>1. shown.val \in Nat /\ shown.max \in Nat /\ m.gate \in Int
    BY <1>1 DEF MeterRecords
  <2>2. PICK v \in Nat : v = Gated(shown.val, shown.max, m.gate) /\ v <= shown.max
    BY <1>1, <2>1, GatedIs
  <2>3. visualise(m, shown) = Update(m, v, shown.max)
    BY <1>1, <2>1, <2>2 DEF visualise
  <2> QED
    BY <1>1, <2>1, <2>2, <2>3, UpdateTells, UpdateNeverFails
<1>2. CASE shown.val > shown.max
  BY <1>2 DEF visualise
<1> QED
  BY <1>1, <1>2

-----------------------------------------------------------------------------
(* What is sent *)

\* What is sent is a value, within its max if it has one.
InRange(m) == m.max < 0 \/ m.val <= m.max

\* Metrics as they are sent, and as the reader takes them
Pairs  == [val : Int, max : Int]
Values == [val : Nat, max : Int]

\* A quotient of a number of any sign
LEMMA QuotientInt ==
    ASSUME NEW a \in Int, NEW b \in Nat \ {0}
    PROVE  a \div b \in Int
OBVIOUS

\* Percentages are numbers whatever the reading.
LEMMA PercentsInt ==
    ASSUME NEW r \in [CpuFields -> Int], NEW delta \in Int
    PROVE  Percents(delta, r) \subseteq Int
<1>1. PICK t \in Int : t = AllTicks(r)
  BY DEF AllTicks, CpuFields
<1>2. CASE delta < 0
  BY <1>2 DEF Percents
<1>3. CASE delta >= 0 /\ t > 0
  <2>1. (100 * delta) \div t \in Int
    BY <1>3, QuotientInt
  <2>2. Percents(delta, r) = {(100 * delta) \div t}
    BY <1>1, <1>3 DEF Percents
  <2> QED
    BY <2>1, <2>2
<1>4. CASE delta >= 0 /\ t < 0
  <2>1. PICK q \in Int : q = (100 * delta) \div (-t)
    BY <1>4, QuotientInt
  <2>2. Percents(delta, r) = {-q}
    BY <1>1, <1>4, <2>1 DEF Percents
  <2> QED
    BY <2>1, <2>2
<1>5. CASE delta >= 0 /\ t = 0
  BY <1>1, <1>5 DEF Percents, Smallest, Largest
<1> QED
  BY <1>2, <1>3, <1>4, <1>5

\* A part of the ticks is at most 100 percent of them, and so are two parts together.
LEMMA PercentsFit ==
    ASSUME NEW r \in [CpuFields -> Int], NEW t \in Nat, t = AllTicks(r),
           NEW a \in Nat, NEW b \in Nat, a + b <= t,
           NEW u \in Percents(a, r), NEW s \in Percents(b, r)
    PROVE  u \in Int /\ s \in Int /\ u <= 100 /\ u + s <= 100
<1>1. CASE t = 0
  <2>1. a = 0 /\ b = 0
    BY <1>1
  <2>2. u \in {Smallest, 0} /\ s \in {Smallest, 0}
    BY <1>1, <2>1 DEF Percents
  <2> QED
    BY <2>2 DEF Smallest
<1>2. CASE t > 0
  <2>1. u = (100 * a) \div t /\ s = (100 * b) \div t
    BY <1>2 DEF Percents
  <2>2. /\ u \in Nat /\ t * u <= 100 * a
        /\ s \in Nat /\ t * s <= 100 * b
    <3>1. PICK x \in Nat, y \in Nat : x = 100 * a /\ y = 100 * b
      BY ProductNat
    <3>2. u = x \div t /\ s = y \div t
      BY <2>1, <3>1, Zenon
    <3>3. t \in Nat \ {0}
      BY <1>2
    <3> QED
      BY <3>1, <3>2, <3>3, Quotient
  <2>3. ~ (u + s > 100)
    <3> SUFFICES ASSUME u + s > 100 PROVE FALSE
      OBVIOUS
    <3>1. PICK k \in Nat : u + s = 101 + k
      <4>1. u + s - 101 \in Nat /\ u + s = 101 + (u + s - 101)
        BY <2>2
      <4> QED
        BY <4>1
    <3>2. t * u + t * s = 101 * t + t * k
      <4>1. t * (u + s) = t * u + t * s /\ t * (101 + k) = 101 * t + t * k
        BY <2>2
      <4> QED
        BY <3>1, <4>1
    <3>3. t * k \in Nat /\ t * u \in Nat /\ t * s \in Nat
      BY <2>2, ProductNat
    <3> QED
      BY <1>2, <2>2, <3>2, <3>3
  <2> QED
    BY <2>2, <2>3
<1> QED
  BY <1>1, <1>2

\* The parts of a reading without a counter that went back add up to no more than all
\* ticks: guests, counted twice, are in both.
LEMMA ReadingAddsUp ==
    ASSUME NEW r \in [CpuFields -> Int], ~WentBack(r)
    PROVE  /\ AllTicks(r) \in Nat
           /\ \A delta \in CpuParts(r) : delta \in Nat /\ delta <= AllTicks(r)
           /\ UserTicks(r) \in Nat /\ r.system \in Nat /\ UserTicks(r) + r.system <= AllTicks(r)
<1>1. \A f \in CpuFields : r[f] \in Nat
  BY DEF WentBack
<1>2. /\ r.user \in Nat /\ r.nice \in Nat /\ r.system \in Nat /\ r.idle \in Nat /\ r.iowait \in Nat
      /\ r.irq \in Nat /\ r.softirq \in Nat /\ r.steal \in Nat /\ r.guest \in Nat /\ r.guestNice \in Nat
  BY <1>1 DEF CpuFields
<1> QED
  BY <1>2 DEF AllTicks, CpuParts, UserTicks

\* Parts of any reading are numbers.
LEMMA PartsInt ==
    ASSUME NEW r \in [CpuFields -> Int]
    PROVE  CpuParts(r) \subseteq Int /\ UserTicks(r) \in Int /\ r.system \in Int
BY DEF CpuParts, UserTicks, CpuFields

\* The metrics of a cpu line are percentages, unless a counter went back.
LEMMA ProcInRange ==
    ASSUME NEW r \in [CpuFields -> Int], NEW m \in ProcMetrics(r)
    PROVE  m \in Pairs /\ (~WentBack(r) => InRange(m))
<1>1. CASE m \in {OutOf100(v) : v \in UNION {Percents(delta, r) : delta \in CpuParts(r)}}
  <2>1. PICK delta \in CpuParts(r) : \E v \in Percents(delta, r) : m = OutOf100(v)
    BY <1>1
  <2>2. PICK v \in Percents(delta, r) : m = OutOf100(v)
    BY <2>1
  <2>3. v \in Int
    BY PartsInt, PercentsInt
  <2>4. ASSUME ~WentBack(r) PROVE v <= 100
    <3>1. PICK t \in Nat : t = AllTicks(r) /\ delta \in Nat /\ delta + 0 <= t
      BY <2>4, ReadingAddsUp
    <3>2. Percents(0, r) # {}
      <4>1. CASE t > 0
        BY <3>1, <4>1 DEF Percents
      <4>2. CASE t = 0
        BY <3>1, <4>2 DEF Percents
      <4> QED
        BY <4>1, <4>2
    <3> QED
      BY <3>1, <3>2, PercentsFit
  <2> QED
    BY <2>2, <2>3, <2>4 DEF OutOf100, InRange, Pairs
<1>2. CASE m \in {OutOf100(u + s) : u \in Percents(UserTicks(r), r), s \in Percents(r.system, r)}
  <2>1. PICK u \in Percents(UserTicks(r), r), s \in Percents(r.system, r) : m = OutOf100(u + s)
    BY <1>2
  <2>2. u \in Int /\ s \in Int
    BY PartsInt, PercentsInt
  <2>3. ASSUME ~WentBack(r) PROVE u + s <= 100
    <3>1. PICK t \in Nat, a \in Nat, b \in Nat :
              t = AllTicks(r) /\ a = UserTicks(r) /\ b = r.system /\ a + b <= t
      BY <2>3, ReadingAddsUp
    <3> QED
      BY <3>1, PercentsFit
  <2> QED
    BY <2>1, <2>2, <2>3 DEF OutOf100, InRange, Pairs
<1> QED
  BY <1>1, <1>2 DEF ProcMetrics

\* Loads are held to 100 percent.
LEMMA LoadInRange ==
    ASSUME NEW a \in Nat, NEW c \in Nat \ {0}
    PROVE  Load(a, c) \in Pairs /\ InRange(Load(a, c))
<1>1. PICK q \in Nat : q = a \div (2 * c)
  BY Quotient
<1>2. Min({q, 100}) = IF q < 100 THEN q ELSE 100
  BY DEF Min
<1> QED
  BY <1>1, <1>2 DEF Load, OutOf100, InRange, Pairs

\* Packets and operations have no max.
LEMMA RatesInRange ==
    ASSUME NEW x \in Int, NEW y \in Int, NEW m \in NetMetrics(x, y) \cup DiskMetrics(x, y)
    PROVE  m \in Pairs /\ InRange(m)
<1>1. m \in {Guessed(x), Guessed(y), Guessed(x + y)}
  BY DEF NetMetrics, DiskMetrics
<1> QED
  BY <1>1 DEF Guessed, InRange, Pairs

\* What agents send is in range, unless a counter went back.
LEMMA SentInRange ==
    ASSUME NEW s \in Sent
    PROVE  s[1] \in Pairs /\ (~s[2] => InRange(s[1]))
<1>1. CASE kind = "cpu"
  <2>1. PICK r \in CpuReadings : \E m \in ProcMetrics(r) : s = <<m, WentBack(r)>>
    BY <1>1 DEF Sent
  <2>2. PICK m \in ProcMetrics(r) : s = <<m, WentBack(r)>>
    BY <2>1
  <2>3. r \in [CpuFields -> Int]
    BY MetricsAssumption
  <2> QED
    BY <2>2, <2>3, ProcInRange
<1>2. CASE kind = "load"
  <2>0. Sent = {<<Load(a, Cpus), FALSE>> : a \in Loads}
    BY <1>2 DEF Sent
  <2>1. PICK a \in Loads : s = <<Load(a, Cpus), FALSE>>
    BY <2>0
  <2>2. a \in Nat /\ Cpus \in Nat \ {0}
    BY MetricsAssumption
  <2> QED
    BY <2>1, <2>2, LoadInRange
<1>3. CASE kind = "rate" /\ ~firstTime
  <2>0. Sent = UNION {{<<m, in < 0 \/ out < 0>> : m \in NetMetrics(in, out) \cup DiskMetrics(in, out)} :
                      in, out \in Advances}
    BY <1>3 DEF Sent
  <2>1. PICK x \in Advances, y \in Advances :
            s \in {<<m, x < 0 \/ y < 0>> : m \in NetMetrics(x, y) \cup DiskMetrics(x, y)}
    BY <2>0
  <2>2. PICK m \in NetMetrics(x, y) \cup DiskMetrics(x, y) : s = <<m, x < 0 \/ y < 0>>
    BY <2>1
  <2>3. x \in Int /\ y \in Int
    BY MetricsAssumption
  <2> QED
    BY <2>2, <2>3, RatesInRange
<1>4. kind = "cpu" \/ kind = "load" \/ (kind = "rate" /\ ~firstTime)
  <2> SUFFICES ASSUME ~(kind = "cpu"), ~(kind = "load"), ~(kind = "rate" /\ ~firstTime) PROVE Sent = {}
    OBVIOUS
  <2> QED
    BY DEF Sent
<1> QED
  BY <1>1, <1>2, <1>3, <1>4

\* Readings of the clock are in range.
LEMMA TimeInRange ==
    ASSUME NEW m \in SentByClock
    PROVE  m \in Values /\ m.max >= 0 /\ m.val <= m.max
<1>1. PICK t \in Clocks : m \in TimeMetrics(t)
  BY DEF SentByClock
<1>2. Second \in Nat \ {0}
  BY FeedsAssumption
<1>3. /\ t.hour \in 0 .. 23 /\ t.minute \in 0 .. 59 /\ t.second \in 0 .. 59
      /\ t.nanosecond \in 0 .. Second - 1
  BY MetricsAssumption
<1>4. PICK h \in 0 .. 11 : h = t.hour % 12
  BY <1>3
<1>5. m \in {[val |-> IF t.hour >= 12 THEN 1 ELSE 2, max |-> 2],
             [val |-> t.hour, max |-> 23],
             [val |-> h, max |-> 11],
             [val |-> t.minute, max |-> 59],
             [val |-> t.second, max |-> 59],
             [val |-> t.nanosecond, max |-> Second - 1],
             [val |-> t.nanosecond, max |-> Second],
             [val |-> Second - t.nanosecond, max |-> Second]}
  BY <1>1, <1>4 DEF TimeMetrics
<1> QED
  BY <1>2, <1>3, <1>5 DEF Values

\* The lights of a panel make a number.
LEMMA LightsNat ==
    ASSUME NEW n \in Nat, NEW S \in SUBSET (0 .. n)
    PROVE  Lights(S) \in Nat
<1>0. IsFiniteSet(0 .. n)
  BY FS_Interval
<1>1. IsFiniteSet(S)
  BY <1>0, FS_Subset
<1>2. \A x \in Nat : power[x] \in Nat
  BY PowerIs
<1>3. \A x \in S : power[x] \in Nat
  BY <1>2
<1> QED
  BY <1>1, <1>3, SumNat DEF Lights

-----------------------------------------------------------------------------
(* From the reading to the LEDs *)

Numbers ==
    /\ cur \in Slots /\ at \in Slots /\ loaded \in Nat
    /\ slots \in [Slots -> Nat] /\ counts \in [Slots -> Nat] /\ real \in Histories
    /\ mean \in Floats /\ variance \in Floats /\ newVariance \in Floats /\ readMean \in Floats

SumInv == timeSlots \in [Ring -> Nat] /\ curSlot \in Ring /\ sum \in Nat \cup {NoSum}

PatternInv == pdp11Counter \in 0 .. 7 /\ bsdCounter \in 0 .. PanelWidth - 1

ShownInv ==
    /\ met \in Values
    /\ Shown /\ ~back => met.val <= met.max

MetricInv == HistoryInv /\ Numbers /\ IdleInv /\ PatternInv /\ SumInv /\ ShownInv

\* What a float is before it is computed.
LEMMA NaNIsFloat == NaN \in Floats
BY FloatIs DEF NaN

\* All of it holds before anything is sent.
LEMMA MetricInitially == Init => MetricInv
<1> SUFFICES ASSUME Init PROVE MetricInv
  OBVIOUS
<1>1. ScalerInit /\ CounterInit /\ IdleBegins
  BY DEF Init
<1>2. HistoryInv /\ IdleInv
  BY <1>1, HistoryInitially, IdleInitially
<1>3. Numbers
  <2>1. Float(0, 1) \in Floats /\ NaN \in Floats
    BY FloatIs, NaNIsFloat
  <2> QED
    BY <1>1, <2>1, SlotsFinite DEF ScalerInit, Numbers, Histories, History
<1>4. PatternInv
  BY <1>1 DEF IdleBegins, PatternInv, PanelWidth
<1>5. SumInv
  BY <1>1 DEF CounterInit, SumInv, Ring, NumSlots
<1>6. ShownInv
  BY <1>1 DEF ScalerInit, ShownInv, Shown, Values
<1> QED
  BY <1>2, <1>3, <1>4, <1>5, <1>6 DEF MetricInv

-----------------------------------------------------------------------------
\* The sums
LEMMA SumStep ==
    ASSUME SumInv, [Next]_vars
    PROVE  SumInv'
<1>1. CASE account /\ sum' \in {sum, NoSum}
  <2>1. timeSlots[curSlot] + 1 \in Nat
    BY DEF SumInv
  <2> QED
    BY <1>1, <2>1 DEF account, SumInv
<1>2. CASE Tick
  <2>1. timeSlots[0] \in Nat /\ timeSlots[1] \in Nat /\ timeSlots[2] \in Nat
    BY DEF SumInv, Ring, NumSlots
  <2>2. Total \in Nat
    BY <2>1 DEF Total
  <2>3. curSlot' \in Ring
    BY <1>2, RingOfThree DEF Tick, SumInv, Ring, NumSlots
  <2> QED
    BY <1>2, <2>2, <2>3 DEF Tick, SumInv
<1>3. CASE UNCHANGED <<timeSlots, curSlot, sum>>
  BY <1>3 DEF SumInv
<1>4. (account /\ sum' \in {sum, NoSum}) \/ Tick \/ UNCHANGED <<timeSlots, curSlot, sum>>
  <2>1. CASE \/ \E s \in Sent : TakeLine(s[1], s[2])
             \/ \E m \in SentByClock : TakeTime(m)
             \/ TakePattern \/ FeedRestarts
    BY <2>1 DEF TakeLine, TakeTime, TakePattern, FeedRestarts, counterVars
  <2>2. CASE TakeSum \/ TakeOther \/ tick
    BY <2>2 DEF TakeSum, TakeOther, tick
  <2>3. CASE Remember \/ adjust \/ Show \/ shift \/ UNCHANGED vars
    BY <2>3 DEF Remember, adjust, Show, shift, vars, counterVars
  <2> QED
    BY <2>1, <2>2, <2>3 DEF Next, Consumer, TakeMetric
<1> QED
  BY <1>1, <1>2, <1>3, <1>4

\* The counters of the patterns
LEMMA PatternStep ==
    ASSUME PatternInv, [Next]_vars
    PROVE  PatternInv'
<1>1. CASE pdp11Tick
  BY <1>1 DEF pdp11Tick, PatternInv, PanelWidth
<1>2. CASE bsdTick
  BY <1>2 DEF bsdTick, PatternInv, PanelWidth
<1>3. CASE UNCHANGED <<pdp11Counter, bsdCounter>> \/ IdleBeginsAgain
  BY <1>3 DEF IdleBeginsAgain, PatternInv, PanelWidth
<1>4. pdp11Tick \/ bsdTick \/ UNCHANGED <<pdp11Counter, bsdCounter>> \/ IdleBeginsAgain
  <2>1. CASE TakePattern \/ FeedRestarts
    BY <2>1 DEF TakePattern, FeedRestarts, rt11Tick
  <2>2. CASE \/ \E s \in Sent : TakeLine(s[1], s[2])
             \/ \E m \in SentByClock : TakeTime(m)
             \/ TakeSum
    BY <2>2 DEF TakeLine, TakeTime, TakeSum, idleVars
  <2>3. CASE Remember \/ TakeOther \/ adjust \/ Show \/ shift \/ tick \/ UNCHANGED vars
    BY <2>3 DEF Remember, TakeOther, adjust, Show, shift, tick, vars, idleVars
  <2> QED
    BY <2>1, <2>2, <2>3 DEF Next, Consumer, TakeMetric
<1> QED
  BY <1>1, <1>2, <1>3, <1>4

-----------------------------------------------------------------------------
\* A shift computes with floats only.
LEMMA ShiftNumbers ==
    ASSUME Numbers, Shift
    PROVE  Numbers'
<1>1. CASE Advance
  <2>1. cur' \in Slots
    BY <1>1, NextSlot, SlotsFinite DEF Advance, Numbers, Slots
  <2> QED
    BY <1>1, <2>1 DEF Advance, adjustVars, Numbers
<1>2. CASE Analyse
  <2>1. History \in Histories
    BY DEF Numbers, History, Histories
  <2>2. mean' \in Floats
    BY <1>2, <2>1, MeanIsFloat DEF Analyse
  <2>3. newVariance' \in Floats
    BY <1>2, <2>1, <2>2, VarianceIsFloat DEF Analyse, Numbers
  <2> QED
    BY <1>2, <2>2, <2>3 DEF Analyse, adjustVars, Numbers
<1>3. CASE PublishSpread
  BY <1>3, NaNIsFloat DEF PublishSpread, adjustVars, Numbers
<1>4. CASE ZeroSlot
  BY <1>4 DEF ZeroSlot, adjustVars, Numbers
<1>5. CASE ZeroCount
  <2>1. counts' \in [Slots -> Nat] /\ real' \in Histories
    BY <1>5 DEF ZeroCount, Numbers, Histories
  <2> QED
    BY <1>5, <2>1 DEF ZeroCount, adjustVars, Numbers
<1> QED
  BY <1>1, <1>2, <1>3, <1>4, <1>5 DEF Shift

\* An add keeps sums and counts from being negative.
LEMMA AddNumbers ==
    ASSUME Numbers, met \in Values, Add
    PROVE  Numbers'
<1>1. CASE LoadSlot
  BY <1>1 DEF LoadSlot, historyVars, shiftVars, Numbers
<1>2. CASE StoreSlot
  <2>1. loaded + met.val \in Nat
    BY DEF Numbers, Values
  <2> QED
    BY <1>2, <2>1, SlotsFinite DEF StoreSlot, shiftVars, Numbers
<1>3. CASE AddCount
  <2>1. counts[cur] + 1 \in Nat /\ real.counts[cur] + 1 \in Nat /\ real.slots[cur] + met.val \in Nat
    BY DEF Numbers, Values, Histories
  <2>2. counts' \in [Slots -> Nat]
    BY <1>3, <2>1 DEF AddCount, Numbers
  <2>3. real' \in Histories
    BY <1>3, <2>1 DEF AddCount, Numbers, Histories
  <2> QED
    BY <1>3, <2>2, <2>3 DEF AddCount, shiftVars, Numbers
<1> QED
  BY <1>1, <1>2, <1>3 DEF Add

\* The numbers of the history
LEMMA NumbersStep ==
    ASSUME Numbers, met \in Values, [Next]_vars
    PROVE  Numbers'
<1>1. CASE shift
  BY <1>1, ShiftNumbers DEF shift
<1>2. CASE TakeMetric
  <2>1. PICK m : Adjust(m)
    BY <1>2 DEF TakeMetric, TakeLine, TakeTime, TakePattern, TakeSum
  <2> QED
    BY <2>1 DEF Adjust, shiftVars, Numbers
<1>3. CASE Add
  BY <1>3, AddNumbers
<1>4. CASE AskComputed \/ Scale \/ Show
  BY <1>4, NaNIsFloat DEF AskComputed, Scale, Show, historyVars, shiftVars, ghostVars, Numbers
<1>5. CASE Remember \/ TakeOther \/ tick \/ FeedRestarts \/ UNCHANGED vars
  <2>1. UNCHANGED scalerVars
    BY <1>5 DEF Remember, TakeOther, tick, FeedRestarts, vars
  <2> QED
    BY <2>1 DEF scalerVars, historyVars, shiftVars, adjustVars, ghostVars, Numbers
<1> QED
  BY <1>1, <1>2, <1>3, <1>4, <1>5 DEF Next, Consumer, adjust

-----------------------------------------------------------------------------
\* What the consumer takes is within its max, if it has one and no counter went back.
LEMMA TakenInRange ==
    ASSUME SumInv, IdleInv', PatternInv', TakeMetric
    PROVE  \E m \in Values : Adjust(m) /\ (~back' => InRange(m))
<1>1. ASSUME NEW s \in Sent, TakeLine(s[1], s[2])
      PROVE  \E m \in Values : Adjust(m) /\ (~back' => InRange(m))
  <2>1. s[1] \in Pairs /\ (~s[2] => InRange(s[1]))
    BY SentInRange
  <2>2. s[1].val >= 0 /\ Adjust(s[1]) /\ back' = s[2]
    BY <1>1 DEF TakeLine, ValidLine
  <2>3. s[1] \in Values
    BY <2>1, <2>2 DEF Pairs, Values
  <2> QED
    BY <2>1, <2>2, <2>3
<1>2. ASSUME NEW m \in SentByClock, TakeTime(m)
      PROVE  m \in Values /\ Adjust(m) /\ InRange(m)
  BY <1>2, TimeInRange DEF TakeTime, InRange
<1>3. ASSUME NEW S, NEW n \in Nat, S \subseteq 0 .. n
      PROVE  Full(Lights(S)) \in Values /\ InRange(Full(Lights(S)))
  <2>1. Lights(S) \in Nat
    BY <1>3, LightsNat
  <2> QED
    BY <2>1 DEF Full, Values, InRange
<1>4. CASE TakePattern
  <2>1. CASE Adjust(Full(Lights(pdp11Lights')))
    <3>0. PICK c \in 0 .. 7 : c = pdp11Counter'
      BY DEF PatternInv
    <3>1. pdp11Lights' \subseteq 0 .. PanelWidth
      <4>1. pdp11Lights' = {c, 15 - c}
        <5>1. pdp11Lights' = {pdp11Counter', 16 - 1 - pdp11Counter'}
          BY DEF pdp11Lights, PanelWidth
        <5>2. pdp11Lights' = {c, 16 - 1 - c}
          BY <3>0, <5>1, Zenon
        <5> QED
          BY <5>2
      <4> QED
        BY <4>1 DEF PanelWidth
    <3>2. PanelWidth \in Nat
      BY DEF PanelWidth
    <3> QED
      BY <1>3, <2>1, <3>1, <3>2
  <2>2. CASE Adjust(bsdMetric')
    <3>0. PICK c \in 0 .. 15 : c = bsdCounter'
      BY DEF PatternInv, PanelWidth
    <3>1. bsdMetric' \in Values /\ InRange(bsdMetric')
      <4>1. bsdMetric' = [val |-> 1 + bsdCounter', max |-> 16]
        BY DEF bsdMetric, PanelWidth
      <4>2. bsdMetric' = [val |-> 1 + c, max |-> 16]
        BY <3>0, <4>1, Zenon
      <4> QED
        BY <4>2 DEF Values, InRange
    <3> QED
      BY <2>2, <3>1
  <2>3. CASE Adjust(Full(Lights(rt11Lights')))
    <3>0. PICK w \in 1 .. 15, o \in 0 .. 15 : w = rt11Width' /\ o = rt11Offset'
      BY DEF IdleInv, PanelWidth, FirstWidth
    <3>1. o + w <= 16
      <4>1. rt11Offset' + rt11Width' < 16 \/ rt11Offset' + rt11Width' <= 16
        BY DEF IdleInv, PanelWidth
      <4>2. o + w < 16 \/ o + w <= 16
        BY <3>0, <4>1, Zenon
      <4> QED
        BY <4>2
    <3>3. rt11Lights' \subseteq 0 .. PanelWidth
      <4>1. rt11Lights' = rt11Offset' .. rt11Offset' + rt11Width' - 1
        BY DEF rt11Lights
      <4>2. rt11Lights' = o .. o + w - 1
        BY <3>0, <4>1, Zenon
      <4> QED
        BY <3>1, <4>2 DEF PanelWidth
    <3>2. PanelWidth \in Nat
      BY DEF PanelWidth
    <3> QED
      BY <1>3, <2>3, <3>2, <3>3
  <2> QED
    BY <1>4, <2>1, <2>2, <2>3 DEF TakePattern
<1>5. CASE TakeSum
  <2>1. sum \in Nat /\ Adjust(Guessed(sum))
    BY <1>5 DEF TakeSum, SumInv
  <2>2. Guessed(sum) \in Values /\ InRange(Guessed(sum))
    BY <2>1 DEF Guessed, Values, InRange
  <2> QED
    BY <2>1, <2>2
<1> QED
  BY <1>1, <1>2, <1>4, <1>5 DEF TakeMetric

\* What is shown is in range, as it was taken or once it is scaled.
LEMMA ShownStep ==
    ASSUME Parts, Numbers, SumInv, ShownInv, IdleInv', PatternInv', [Next]_vars
    PROVE  ShownInv'
<1>0. met \in Values
  BY DEF ShownInv
<1>1. CASE TakeMetric
  <2>1. PICK m \in Values : Adjust(m) /\ (~back' => InRange(m))
    BY <1>1, TakenInRange
  <2>2. met' = m /\ (apc' = "show" => m.max >= 0)
    BY <2>1 DEF Adjust, Values
  <2> QED
    BY <2>1, <2>2 DEF ShownInv, Shown, InRange, Values
<1>2. CASE Scale
  <2>1. PICK low \in Nat, high \in Nat :
            /\ low = Low(readMean, variance) /\ high = High(readMean, variance)
            /\ low <= high
    BY ScaleBounds DEF Numbers
  <2>2. met.val \in Nat
    BY <1>0 DEF Values
  <2>3. met' = Scaled(met.val, low, high)
    BY <1>2, <2>1 DEF Scale
  <2>4. met' \in [val : Nat, max : Nat] /\ met'.val \in 0 .. met'.max
    BY <2>1, <2>2, <2>3, ScaledFits
  <2> QED
    BY <2>4 DEF ShownInv, Values
<1>3. CASE AskComputed
  <2>1. \/ apc' = "scale" /\ met' = met
        \/ met' = [val |-> met.val, max |-> met.val]
    BY <1>0, <1>3 DEF AskComputed, Values
  <2> QED
    BY <1>0, <2>1 DEF ShownInv, Shown, Values
<1>4. CASE Add
  <2>1. apc' # "show" /\ met' = met
    BY <1>4 DEF Add, LoadSlot, StoreSlot, AddCount, AdjustAt
  <2> QED
    BY <1>0, <2>1 DEF ShownInv, Shown
<1>5. CASE Show
  <2>1. apc' = "take" /\ met' = [val |-> 0, max |-> 0]
    BY <1>5 DEF Show, AdjustAt
  <2> QED
    BY <2>1 DEF ShownInv, Shown, Values
<1>6. CASE shift
  BY <1>6 DEF shift, Shift, Advance, Analyse, PublishSpread, ZeroSlot, ZeroCount, adjustVars, ShownInv, Shown
<1>7. CASE Remember \/ TakeOther \/ tick \/ FeedRestarts \/ UNCHANGED vars
  <2>1. UNCHANGED <<back, scalerVars>>
    BY <1>7 DEF Remember, TakeOther, tick, FeedRestarts, vars
  <2> QED
    BY <2>1 DEF scalerVars, adjustVars, ShownInv, Shown
<1> QED
  BY <1>1, <1>2, <1>3, <1>4, <1>5, <1>6, <1>7 DEF Next, Consumer, adjust

\* All of it goes on to hold.
LEMMA MetricStep ==
    ASSUME MetricInv, [Next]_vars
    PROVE  MetricInv'
<1>1. HistoryInv /\ Parts /\ Numbers /\ IdleInv /\ PatternInv /\ SumInv /\ ShownInv /\ met \in Values
  BY DEF MetricInv, HistoryInv, ShownInv
<1>2. HistoryInv' /\ IdleInv'
  BY <1>1, HistoryStep, IdleStep
<1>3. Numbers' /\ PatternInv' /\ SumInv'
  BY <1>1, NumbersStep, PatternStep, SumStep
<1>4. ShownInv'
  BY <1>1, <1>2, <1>3, ShownStep
<1> QED
  BY <1>2, <1>3, <1>4 DEF MetricInv

\* What is shown is a value within its max, of the numbers that it was computed from,
\* whatever the readings, the clock, the slots and how shifts and adds meet
\* (autoscale.go:60-98, agent11/proc.go, feed.go).
LEMMA MetricInvHolds == Spec => []MetricInv
BY MetricInitially, MetricStep, PTL DEF Spec

\* The state of the autoscaler, of the counter and of the consumer has its types, the
\* history that a race leaves behind as well.
THEOREM TypeCorrect == Spec => []TypeOK
<1>1. MetricInv => TypeOK
  BY DEF MetricInv, HistoryInv, Parts, Numbers, SumInv, ShownInv, Values, Histories, TypeOK
<1> QED
  BY <1>1, MetricInvHolds, PTL

\* No metric of the program or of its agents makes the LEDs of a meter show an error,
\* whatever it is scaled with at that moment and however shifts and adds meet, unless a
\* counter of the kernel went back (metric.go:9, autoscale.go:60-85).
THEOREM LedsNeverFail == Spec => []NoErrorLeds
<1>1. MetricInv => NoErrorLeds
  <2> SUFFICES ASSUME MetricInv, Shown, ~back, NEW m \in MeterSet
               PROVE  ~Failed(m)
    BY DEF NoErrorLeds
  <2>1. m \in MeterRecords
    BY MetricsAssumption DEF MeterRecords
  <2>2. met \in [val : Nat, max : Int] /\ met.val <= met.max
    BY DEF MetricInv, ShownInv, Values
  <2> QED
    BY <2>1, <2>2, Visualised DEF Failed
<1> QED
  BY <1>1, MetricInvHolds, PTL

\* Every type of meter, with any number of LEDs, tells the value it was given, or 0 for
\* one below its gate (meter.go:62-160).
THEOREM LedsAlwaysTell == Spec => []LedsTell
<1>1. MetricInv => LedsTell
  <2> SUFFICES ASSUME MetricInv, NEW m \in MeterSet
               PROVE  Failed(m) \/ Tells(m, visualise(m, met), Gated(met.val, met.max, m.gate), met.max)
    BY DEF LedsTell
  <2>1. m \in MeterRecords
    BY MetricsAssumption DEF MeterRecords
  <2>2. met \in [val : Nat, max : Int]
    BY DEF MetricInv, ShownInv, Values
  <2> QED
    BY <2>1, <2>2, Visualised DEF Failed
<1> QED
  BY <1>1, MetricInvHolds, PTL
=============================================================================
