------------------------------ MODULE Counter ------------------------------
(***************************************************************************)
(* The message counter (counter.go): three slots of a tenth of a second,   *)
(* counted into by the consumer of the bus, summed and moved by a ticker   *)
(* under the same lock.  Every sum is sent on the bus as system.messages.  *)
(***************************************************************************)
EXTENDS Integers

NumSlots == 3       \* slots, in newMessageCounter
Ring == 0 .. NumSlots - 1
NoSum == -1

VARIABLES
    timeSlots,  \* messages per slot
    curSlot,    \* the slot counted into
    sum,        \* the sum the ticker goroutine is sending, or NoSum
    owed        \* ghost: three times the messages counted, less all the sums

counterVars == <<timeSlots, curSlot, sum, owed>>

CounterInit ==
    /\ timeSlots = [i \in Ring |-> 0]
    /\ curSlot = 0
    /\ sum = NoSum
    /\ owed = 0

\* Mutation: the slot is chosen before the lock is taken, and is the last one.
accountLate ==
    /\ timeSlots' = [timeSlots EXCEPT ![(curSlot + 2) % NumSlots] = @ + 1]
    /\ owed' = owed + NumSlots
    /\ UNCHANGED curSlot

account ==
    /\ timeSlots' = [timeSlots EXCEPT ![curSlot] = @ + 1]
    /\ owed' = owed + NumSlots
    /\ UNCHANGED curSlot

Total == timeSlots[0] + timeSlots[1] + timeSlots[2]

Tick ==
    /\ sum = NoSum
    /\ sum' = Total
    /\ owed' = owed - Total
    /\ curSlot' = (curSlot + 1) % NumSlots
    /\ timeSlots' = [timeSlots EXCEPT ![curSlot'] = 0]

-----------------------------------------------------------------------------
Earlier(n) == timeSlots[(curSlot + NumSlots - n) % NumSlots]

\* Every message counted is in exactly three of the sums that are sent, those of
\* the three ticks that follow it, whatever the time between ticks and however
\* long the ticker waits for room on the bus (counter.go:33-46): what is not yet
\* in all of its sums is in the slots.
CountedInThreeSums == owed = 3 * Earlier(0) + 2 * Earlier(1) + Earlier(2)
=============================================================================
