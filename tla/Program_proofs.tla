--------------------------- MODULE Program_proofs ---------------------------
(***************************************************************************)
(* Whatever the configurations and their checks, the lock file tells that  *)
(* an instance runs, or ended without removing it: as long as two are not  *)
(* started at the same time, which is all that its check and its creation, *)
(* two steps of main, can do.                                              *)
(*                                                                         *)
(* LockTellsRunning is not inductive: it says nothing of an instance that  *)
(* found no lock and has yet to create it.  LockInv adds that nothing else *)
(* happens to the lock meanwhile, and that a file left behind keeps every  *)
(* instance out.                                                           *)
(*                                                                         *)
(* Modes have positions of their own whatever the configuration, too: the  *)
(* positions given so far come before the next one in the order of         *)
(* sections and modes.  That is PositionsInv, which needs the positions a  *)
(* hidden section does not use up, and that imports leave them alone.      *)
(*                                                                         *)
(* A configuration is accepted exactly when it should be, and its modes    *)
(* have what they import.  VerdictInv follows makeModes to that end.  What *)
(* is parsed is a well-formed beginning of the configuration (ParseRight). *)
(* In a walk (WalkRight), every frame has been through its mode and what   *)
(* its imports before the next one reach; these pieces have no name in     *)
(* common and make up the names seen, so that a name comes up twice        *)
(* exactly when the imports are no tree; and the mode of the frame has     *)
(* what those imports have in the end.                                     *)
(***************************************************************************)
EXTENDS Program, SequenceTheorems, FiniteSetTheorems, TLAPS

LockTypes ==
    /\ main \in {"down", "clear", "locked", "spawned", "select"}
    /\ other \in {"down", "clear", "locked"}
    /\ lock \in BOOLEAN
    /\ stale \in BOOLEAN

LockInv ==
    /\ LockTypes
    /\ LockTellsRunning
    /\ main = "clear" => ~lock /\ other = "down"
    /\ other = "clear" => ~lock /\ main = "down"
    /\ stale => lock /\ main = "down" /\ other = "down"

LEMMA LockInit == Init => LockInv
BY DEF Init, LockInv, LockTypes, LockTellsRunning

\* The instance that is followed.
LEMMA MainKeepsLock ==
    ASSUME ~Overlap, LockInv, Main \/ Dies \/ Killed
    PROVE  LockInv'
<1> USE DEF LockInv, LockTypes, LockTellsRunning
<1>1. CASE Stat
  BY <1>1 DEF Stat
<1>2. CASE Create
  BY <1>2 DEF Create
<1>3. CASE StartFails
  BY <1>3 DEF StartFails
<1>4. CASE GoEventLoop
  BY <1>4 DEF GoEventLoop
<1>5. CASE SetExitHook
  BY <1>5 DEF SetExitHook
<1>6. CASE Return
  BY <1>6 DEF Return
<1>7. CASE main # "down" /\ EndsAtOnce
  BY <1>7 DEF EndsAtOnce
<1> QED
  BY <1>1, <1>2, <1>3, <1>4, <1>5, <1>6, <1>7 DEF Main, ExitAsked, ExitByUser, Dies, Killed

\* The other instance.
LEMMA OtherKeepsLock ==
    ASSUME ~Overlap, LockInv, Other
    PROVE  LockInv'
<1> USE DEF LockInv, LockTypes, LockTellsRunning
<1>1. CASE OtherStat
  BY <1>1 DEF OtherStat
<1>2. CASE OtherCreate
  BY <1>2 DEF OtherCreate
<1>3. CASE OtherReturns
  BY <1>3 DEF OtherReturns
<1>4. CASE OtherDies
  BY <1>4 DEF OtherDies
<1> QED
  BY <1>1, <1>2, <1>3, <1>4 DEF Other

LEMMA LockStep ==
    ASSUME ~Overlap, LockInv, [Next]_vars
    PROVE  LockInv'
<1>1. CASE Main \/ Dies \/ Killed
  BY <1>1, MainKeepsLock
<1>2. CASE Other
  BY <1>2, OtherKeepsLock
<1>3. CASE MakeModes \/ UNCHANGED vars
  BY <1>3 DEF MakeModes, vars, mainVars, LockInv, LockTypes, LockTellsRunning
<1>4. CASE RemoveLock
  BY <1>4 DEF RemoveLock, LockInv, LockTypes, LockTellsRunning
<1> QED
  BY <1>1, <1>2, <1>3, <1>4 DEF Next

\* Unless two instances are started at the same time, there is never more than
\* one past the lock, and the file is there exactly while one is, or after one
\* has ended without removing it (main.go:28-40).
THEOREM LockCorrect == ASSUME ~Overlap PROVE Spec => []LockTellsRunning
<1>1. LockInv /\ [Next]_vars => LockInv'
  BY LockStep
<1>2. LockInv => LockTellsRunning
  BY DEF LockInv
<1> QED
  BY LockInit, <1>1, <1>2, PTL DEF Spec

-----------------------------------------------------------------------------
Knoba(n) == nameToMode[n].knoba
Knobd(n) == nameToMode[n].knobd
Visible  == {n \in DOMAIN nameToMode : Knoba(n) # -1}

\* A position given to a mode, before the next one to be given.
Given(ka, kd) ==
    /\ ka \in 0 .. LastKnoba /\ kd \in 0 .. LastKnobd
    /\ ka < sectionNum \/ (ka = sectionNum /\ kd < modeNum)

Placed ==
    /\ \A n \in DOMAIN nameToMode : {"knoba", "knobd"} \subseteq DOMAIN nameToMode[n]
    /\ \A n \in DOMAIN nameToMode : Knoba(n) = -1 => Knobd(n) = -1
    /\ \A n \in Visible : Given(Knoba(n), Knobd(n))
    /\ \A n, o \in Visible : Knoba(n) = Knoba(o) /\ Knobd(n) = Knobd(o) => n = o
    /\ \A n \in Visible : \E o \in Visible : Knoba(o) = Knoba(n) /\ Knobd(o) = 0
    /\ modeNum # 0 => \E o \in Visible : Knoba(o) = sectionNum /\ Knobd(o) = 0

Counting ==
    /\ cfg \in Configs
    /\ sectionNum \in Nat /\ modeNum \in Nat
    /\ sec \in DOMAIN cfg => (cfg[sec].hidden => modeNum = 0)

Unmade == making = "off" /\ sectionNum = 0 /\ modeNum = 0 /\ nameToMode = Nothing

PositionsInv ==
    /\ Counting
    /\ main \notin {"spawned", "select"} => Unmade
    /\ ~Refused => Placed

\* Positions given in order are those the event loop takes for granted.
LEMMA PlacedIsRight == PositionsInv => PositionsRight
<1> SUFFICES ASSUME Placed, Counting
             PROVE  PositionsRight
  BY DEF PositionsInv, PositionsRight
<1>1. \A n \in DOMAIN nameToMode :
        /\ Knoba(n) \in -1 .. LastKnoba
        /\ Knobd(n) \in -1 .. LastKnobd
        /\ Knoba(n) = -1 <=> Knobd(n) = -1
  BY DEF Placed, Visible, Given, LastKnoba, LastKnobd
<1> QED
  BY <1>1 DEF Placed, Visible, Knoba, Knobd, PositionsRight, Positioned, OnKnobs, OnePerPosition,
              FirstInSection

LEMMA UnmadeIsPlaced == Unmade => Placed
BY DEF Unmade, Nothing, Placed, Visible

LEMMA PositionsInit == Init => PositionsInv
BY UnmadeIsPlaced, ConfigsAssumption DEF Init, Off, PositionsInv, Counting, Unmade

\* A mode with a name of its own gets the next position, or none.
LEMMA NewModePlaces ==
    ASSUME NEW name, NEW mode, NEW hidden \in BOOLEAN,
           Placed, Counting,
           name \notin DOMAIN nameToMode,
           hidden \/ (sectionNum <= LastKnoba /\ modeNum <= LastKnobd),
           {"knoba", "knobd"} \subseteq DOMAIN mode,
           mode.knoba = IF hidden THEN -1 ELSE sectionNum,
           mode.knobd = IF hidden THEN -1 ELSE modeNum,
           nameToMode' = With(nameToMode, name, mode),
           modeNum' = IF hidden THEN modeNum ELSE modeNum + 1,
           UNCHANGED sectionNum
    PROVE  Placed'
<1>1. sectionNum \in Nat /\ modeNum \in Nat
  BY DEF Counting
<1>2. /\ DOMAIN nameToMode' = {name} \cup DOMAIN nameToMode
      /\ nameToMode'[name] = mode
      /\ \A n \in DOMAIN nameToMode : nameToMode'[n] = nameToMode[n]
  BY DEF With
<1>3. /\ Knoba(name)' = IF hidden THEN -1 ELSE sectionNum
      /\ Knobd(name)' = IF hidden THEN -1 ELSE modeNum
      /\ \A n \in DOMAIN nameToMode : Knoba(n)' = Knoba(n) /\ Knobd(n)' = Knobd(n)
  BY <1>2 DEF Knoba, Knobd
<1>4. Visible' = IF hidden THEN Visible ELSE Visible \cup {name}
  BY <1>1, <1>2, <1>3 DEF Visible
<1>5. \A n \in Visible : n \in DOMAIN nameToMode
  BY DEF Visible
<1>6. \A n \in Visible : Given(Knoba(n), Knobd(n))'
  <2>1. \A n \in Visible : Given(Knoba(n), Knobd(n))
    BY DEF Placed
  <2> QED
    BY <2>1, <1>1, <1>3, <1>5 DEF Given, LastKnoba, LastKnobd
<1>7. ~hidden => Given(Knoba(name), Knobd(name))'
  BY <1>1, <1>3 DEF Given, LastKnoba, LastKnobd
<1>8. ~hidden => \A n \in Visible : ~(Knoba(n) = Knoba(name)' /\ Knobd(n) = Knobd(name)')
  BY <1>1, <1>3 DEF Placed, Given, LastKnoba, LastKnobd
<1>9. modeNum' # 0 => \E o \in Visible' : Knoba(o)' = sectionNum' /\ Knobd(o)' = 0
  <2>1. CASE modeNum # 0
    BY <2>1, <1>3, <1>4, <1>5 DEF Placed
  <2>2. CASE modeNum = 0 /\ ~hidden
    BY <2>2, <1>3, <1>4
  <2> QED
    BY <2>1, <2>2
<1>10. \A n \in Visible' : \E o \in Visible' : Knoba(o)' = Knoba(n)' /\ Knobd(o)' = 0
  <2>1. \A n \in Visible : \E o \in Visible' : Knoba(o)' = Knoba(n)' /\ Knobd(o)' = 0
    BY <1>3, <1>4, <1>5 DEF Placed
  <2>2. ~hidden => \E o \in Visible' : Knoba(o)' = Knoba(name)' /\ Knobd(o)' = 0
    BY <1>1, <1>3, <1>9
  <2> QED
    BY <2>1, <2>2, <1>4
<1>11. \A n \in DOMAIN nameToMode' : {"knoba", "knobd"} \subseteq DOMAIN nameToMode'[n]
  BY <1>2 DEF Placed
<1>12. \A n \in DOMAIN nameToMode' : Knoba(n)' = -1 => Knobd(n)' = -1
  BY <1>1, <1>2, <1>3 DEF Placed
<1>13. \A n, o \in Visible' : Knoba(n)' = Knoba(o)' /\ Knobd(n)' = Knobd(o)' => n = o
  BY <1>3, <1>4, <1>5, <1>8 DEF Placed
<1> QED
  BY <1>4, <1>6, <1>7, <1>9, <1>10, <1>11, <1>12, <1>13 DEF Placed

\* A mode is made, without a failed check.
LEMMA ParsePlaces ==
    ASSUME Counting, Placed, ParseMode, ~Refused'
    PROVE  Placed'
<1> DEFINE c == cfg[sec].modes[nth]
           hidden == cfg[sec].hidden
           mode == NewMode(c, hidden, sectionNum, modeNum)
<1>1. /\ Valid(c, hidden)
      /\ nameToMode' = With(nameToMode, c.name, mode)
      /\ modeNum' = IF hidden THEN modeNum ELSE modeNum + 1
      /\ UNCHANGED sectionNum
  BY DEF ParseMode, Passes, Panics, Refused, parseVars
<1>2. hidden \in BOOLEAN
  BY ConfigsAssumption DEF Counting, ParseMode
<1>3. /\ {"knoba", "knobd"} \subseteq DOMAIN mode
      /\ mode.knoba = IF hidden THEN -1 ELSE sectionNum
      /\ mode.knobd = IF hidden THEN -1 ELSE modeNum
  BY DEF NewMode
<1> HIDE DEF c, hidden, mode
<1> QED
  BY <1>1, <1>2, <1>3, NewModePlaces DEF Valid

\* A mode takes the feeds and the meters of an import.
LEMMA ImportPlaces ==
    ASSUME Placed, Import
    PROVE  Placed'
<1> DEFINE n == stack[Depth - 1].name
<1>1. /\ nameToMode' = [nameToMode EXCEPT ![n] = Merged(@, nameToMode[Top.name])]
      /\ UNCHANGED <<sectionNum, modeNum>>
  BY DEF Import, parseVars
<1>2. DOMAIN nameToMode' = DOMAIN nameToMode
  BY <1>1
<1>3. ASSUME NEW o \in DOMAIN nameToMode
      PROVE  /\ {"knoba", "knobd"} \subseteq DOMAIN nameToMode'[o]
             /\ nameToMode'[o].knoba = nameToMode[o].knoba
             /\ nameToMode'[o].knobd = nameToMode[o].knobd
  <2>1. {"knoba", "knobd"} \subseteq DOMAIN nameToMode[o]
    BY DEF Placed
  <2>2. CASE o # n
    BY <2>1, <2>2, <1>1
  <2>3. CASE o = n
    <3>1. nameToMode'[o] = Merged(nameToMode[o], nameToMode[Top.name])
      BY <2>3, <1>1
    <3> QED
      BY <2>1, <3>1 DEF Merged
  <2> QED
    BY <2>2, <2>3
<1>4. /\ \A o \in DOMAIN nameToMode : Knoba(o)' = Knoba(o) /\ Knobd(o)' = Knobd(o)
      /\ Visible' = Visible
  BY <1>2, <1>3 DEF Knoba, Knobd, Visible
<1> QED
  BY <1>1, <1>2, <1>3, <1>4 DEF Placed, Given, Visible

\* The next section: what was given in this one now comes before its first position.
LEMMA NextSectionPlaces ==
    ASSUME Counting, Placed, NextSection
    PROVE  Placed'
<1>1. /\ sectionNum' = IF cfg[sec].hidden THEN sectionNum ELSE sectionNum + 1
      /\ modeNum' = 0
      /\ UNCHANGED nameToMode
      /\ sectionNum \in Nat /\ modeNum \in Nat
      /\ cfg[sec].hidden => modeNum = 0
  BY DEF NextSection, Counting
<1>2. \A n : Knoba(n)' = Knoba(n) /\ Knobd(n)' = Knobd(n)
  BY <1>1 DEF Knoba, Knobd
<1>3. Visible' = Visible
  BY <1>1, <1>2 DEF Visible
<1>4. \A ka, kd : Given(ka, kd) => Given(ka, kd)'
  BY <1>1 DEF Given, LastKnoba, LastKnobd
<1> QED
  BY <1>1, <1>2, <1>3, <1>4 DEF Placed, Given

\* Whatever else changes, positions are those of the modes.
LEMMA SamePlaces ==
    ASSUME Placed, UNCHANGED <<nameToMode, sectionNum, modeNum>>
    PROVE  Placed'
BY DEF Placed, Given, Visible, Knoba, Knobd

\* A failed check is never forgotten.
LEMMA RefusedStays ==
    ASSUME makeModes, Refused
    PROVE  Refused'
<1> USE DEF Refused, Passes, Panics
<1>1. CASE ParseMode
  BY <1>1 DEF ParseMode
<1>2. CASE NextSection
  BY <1>2 DEF NextSection
<1>3. CASE ParseEnds
  BY <1>3 DEF ParseEnds
<1>4. ASSUME NEW n \in todo, WalkFrom(n)
      PROVE  Refused'
  BY <1>4 DEF WalkFrom
<1>5. CASE WalkImport
  BY <1>5 DEF WalkImport
<1>6. CASE StackOverflow
  BY <1>6 DEF StackOverflow
<1>7. CASE WalkEnds
  BY <1>7 DEF WalkEnds
<1>8. CASE Import
  BY <1>8 DEF Import
<1>9. CASE ImportUnknown
  BY <1>9 DEF ImportUnknown
<1>10. CASE CheckLeds
  BY <1>10 DEF CheckLeds
<1> QED
  BY <1>1, <1>2, <1>3, <1>4, <1>5, <1>6, <1>7, <1>8, <1>9, <1>10 DEF makeModes

\* A step of makeModes, after which no check has failed, follows others of which
\* that is true as well.
LEMMA MakeModesPlaces ==
    ASSUME Counting, Placed, makeModes, ~Refused'
    PROVE  Placed'
<1>1. CASE ParseMode
  BY <1>1, ParsePlaces
<1>2. CASE NextSection
  BY <1>2, NextSectionPlaces
<1>3. CASE ParseEnds
  BY <1>3, SamePlaces DEF ParseEnds, parseVars
<1>4. ASSUME NEW n \in todo, WalkFrom(n)
      PROVE  Placed'
  BY <1>4, SamePlaces DEF WalkFrom, parseVars
<1>5. CASE WalkImport
  BY <1>5, SamePlaces DEF WalkImport, Panics, parseVars
<1>6. CASE StackOverflow
  BY <1>6, SamePlaces DEF StackOverflow, parseVars
<1>7. CASE WalkEnds
  BY <1>7, SamePlaces DEF WalkEnds, parseVars
<1>8. CASE Import
  BY <1>8, ImportPlaces
<1>9. CASE ImportUnknown
  BY <1>9, SamePlaces DEF ImportUnknown, parseVars
<1>10. CASE CheckLeds
  BY <1>10, SamePlaces DEF CheckLeds, Panics, parseVars
<1> QED
  BY <1>1, <1>2, <1>3, <1>4, <1>5, <1>6, <1>7, <1>8, <1>9, <1>10 DEF makeModes

\* Sections and positions go on together.
LEMMA MakeModesCounts ==
    ASSUME Counting, makeModes
    PROVE  Counting'
<1> USE DEF Counting, parseVars
<1>1. CASE ParseMode
  <2>1. cfg[sec].hidden \in BOOLEAN
    BY <1>1, ConfigsAssumption DEF ParseMode
  <2>2. \/ /\ modeNum' = IF cfg[sec].hidden THEN modeNum ELSE modeNum + 1
           /\ UNCHANGED <<cfg, making, sec, sectionNum>>
        \/ /\ making' = "dead"
           /\ UNCHANGED <<cfg, sec, sectionNum, modeNum>>
    BY <1>1 DEF ParseMode, Panics
  <2> QED
    BY <1>1, <2>1, <2>2 DEF ParseMode
<1>2. CASE NextSection
  BY <1>2 DEF NextSection
<1>3. CASE ParseEnds
  BY <1>3 DEF ParseEnds
<1>4. ASSUME NEW n \in todo, WalkFrom(n)
      PROVE  Counting'
  BY <1>4 DEF WalkFrom
<1>5. CASE WalkImport
  BY <1>5 DEF WalkImport, Panics
<1>6. CASE StackOverflow
  BY <1>6 DEF StackOverflow
<1>7. CASE WalkEnds
  BY <1>7 DEF WalkEnds
<1>8. CASE Import
  BY <1>8 DEF Import
<1>9. CASE ImportUnknown
  BY <1>9 DEF ImportUnknown
<1>10. CASE CheckLeds
  BY <1>10 DEF CheckLeds, Panics
<1> QED
  BY <1>1, <1>2, <1>3, <1>4, <1>5, <1>6, <1>7, <1>8, <1>9, <1>10 DEF makeModes

\* A process that ended has made nothing.
LEMMA ClearUnmakes ==
    ASSUME Counting, Clear
    PROVE  Counting' /\ Unmade' /\ Placed'
<1>1. Counting' /\ Unmade'
  BY DEF Counting, Unmade, Clear
<1> QED
  BY <1>1 DEF Unmade, Nothing, Placed, Visible

LEMMA PositionsStep ==
    ASSUME PositionsInv, [Next]_vars
    PROVE  PositionsInv'
<1> USE DEF PositionsInv
<1>1. CASE MakeModes
  <2>1. Counting' /\ (~Refused' => Placed)
    BY <1>1, MakeModesCounts, RefusedStays DEF MakeModes
  <2>2. ~Refused' => Placed'
    BY <1>1, <2>1, MakeModesPlaces DEF MakeModes
  <2> QED
    BY <1>1, <2>1, <2>2 DEF MakeModes, mainVars
<1>2. CASE Stat
  <2>1. Counting' /\ Unmade' /\ Placed
    BY <1>2, UnmadeIsPlaced DEF Stat, Counting, Unmade, parseVars
  <2> QED
    BY <1>2, <2>1, SamePlaces DEF Stat, parseVars
<1>3. CASE GoEventLoop
  <2>1. Counting' /\ Placed
    BY <1>3, UnmadeIsPlaced DEF GoEventLoop, Counting, parseVars
  <2> QED
    BY <1>3, <2>1, SamePlaces DEF GoEventLoop, parseVars
<1>4. CASE Return \/ EndsAtOnce
  <2>1. Clear
    BY <1>4 DEF Return, EndsAtOnce
  <2> QED
    BY <2>1, ClearUnmakes
<1>5. CASE Create \/ StartFails \/ SetExitHook \/ Other \/ RemoveLock \/ UNCHANGED vars
  <2>1. /\ UNCHANGED <<cfg, making, sec, sectionNum, modeNum, nameToMode, asked>>
        /\ main' \notin {"spawned", "select"} => main \notin {"spawned", "select"}
    BY <1>5 DEF Create, StartFails, SetExitHook, Other, OtherStat, OtherCreate, OtherReturns,
        OtherDies, RemoveLock, modesVars, parseVars, vars, mainVars
  <2>2. Counting' /\ (Unmade => Unmade') /\ Refused' = Refused
    BY <2>1 DEF Counting, Unmade, Refused
  <2> QED
    BY <2>1, <2>2, SamePlaces
<1> QED
  BY <1>1, <1>2, <1>3, <1>4, <1>5 DEF Next, Main, ExitAsked, ExitByUser, Dies, Killed

\* While no check has failed, visible modes have positions of their own, numbered
\* from 0 in their section, and hidden ones have none, whatever the configuration
\* (mode.go:104-114, eventloop.go:137-144).
THEOREM PositionsCorrect == Spec => []PositionsRight
<1>1. PositionsInv /\ [Next]_vars => PositionsInv'
  BY PositionsStep
<1> QED
  BY PositionsInit, <1>1, PlacedIsRight, PTL DEF Spec

-----------------------------------------------------------------------------
(* What follows a name *)

\* A set that holds, with a name, those after it.
Keeps(next, S) == \A m \in DOMAIN next \cap S : next[m] \subseteq S

AllOf(next) == DOMAIN next \cup UNION {next[m] : m \in DOMAIN next}

\* What follows n is in every such set that holds n.
LEMMA FollowingLeast ==
    ASSUME NEW next, NEW n, NEW S \in SUBSET AllOf(next), n \in S, Keeps(next, S)
    PROVE  Following(next, n) \subseteq S
BY DEF Following, AllOf, Keeps

\* And what follows n is such a set itself.
LEMMA FollowingHolds ==
    ASSUME NEW next, NEW n \in AllOf(next)
    PROVE  /\ Following(next, n) \in SUBSET AllOf(next)
           /\ n \in Following(next, n)
           /\ Keeps(next, Following(next, n))
<1>1. Following(next, n) \in SUBSET AllOf(next) /\ n \in Following(next, n)
  BY DEF Following, AllOf
<1>2. ASSUME NEW m \in DOMAIN next \cap Following(next, n), NEW i \in next[m]
      PROVE  i \in Following(next, n)
  <2>1. i \in AllOf(next)
    BY DEF AllOf
  <2>2. ASSUME NEW S \in SUBSET AllOf(next), n \in S, Keeps(next, S)
        PROVE  i \in S
    <3>1. m \in S
      BY <2>2, FollowingLeast
    <3> QED
      BY <3>1, <2>2 DEF Keeps
  <2> QED
    BY <2>1, <2>2 DEF Following, AllOf, Keeps
<1> QED
  BY <1>1, <1>2 DEF Keeps

\* What follows a follower of n follows n.
LEMMA FollowingOn ==
    ASSUME NEW next, NEW n \in AllOf(next), NEW i \in Following(next, n)
    PROVE  Following(next, i) \subseteq Following(next, n)
BY FollowingHolds, FollowingLeast

\* Nothing but n and what follows those after it.
LEMMA FollowingIs ==
    ASSUME NEW next, NEW n \in DOMAIN next
    PROVE  Following(next, n) = {n} \cup UNION {Following(next, i) : i \in next[n]}
<1> DEFINE S == {n} \cup UNION {Following(next, i) : i \in next[n]}
<1>1. n \in AllOf(next) /\ next[n] \in SUBSET AllOf(next)
  BY DEF AllOf
<1>2. \A i \in next[n] : /\ i \in Following(next, i) /\ Following(next, i) \in SUBSET AllOf(next)
                         /\ Keeps(next, Following(next, i))
  BY <1>1, FollowingHolds
<1>3. S \in SUBSET AllOf(next) /\ n \in S
  BY <1>1, <1>2
<1>4. Keeps(next, S)
  BY <1>2 DEF Keeps
<1>5. Following(next, n) \subseteq S
  <2> HIDE DEF S
  <2> QED
    BY <1>3, <1>4, FollowingLeast
<1>6. \A i \in next[n] : i \in Following(next, n)
  BY <1>1, FollowingHolds DEF Keeps
<1>7. \A i \in next[n] : Following(next, i) \subseteq Following(next, n)
  BY <1>1, <1>6, FollowingOn
<1> QED
  BY <1>1, <1>5, <1>7, FollowingHolds

ImportsOf(c, n) == Configured(c, n).imports
ImportGraph(c) == [m \in Names(c) |-> ToSet(ImportsOf(c, m))]

\* The names of modes and of imports.
Mentioned(c) == AllOf(ImportGraph(c))

\* A mode reaches itself and what its imports reach.
LEMMA ReachedIs ==
    ASSUME NEW c, NEW n \in Names(c)
    PROVE  Reached(c, n) = {n} \cup UNION {Reached(c, i) : i \in ToSet(ImportsOf(c, n))}
<1>1. n \in DOMAIN ImportGraph(c) /\ ImportGraph(c)[n] = ToSet(ImportsOf(c, n))
  BY DEF ImportGraph
<1>2. \A i : Reached(c, i) = Following(ImportGraph(c), i)
  BY DEF Reached, ImportGraph, ImportsOf
<1> QED
  BY <1>1, <1>2, FollowingIs

\* Reaching goes on.
LEMMA ReachedOn ==
    ASSUME NEW c, NEW n \in Mentioned(c)
    PROVE  /\ n \in Reached(c, n)
           /\ Reached(c, n) \subseteq Mentioned(c)
           /\ \A i \in Reached(c, n) : Reached(c, i) \subseteq Reached(c, n)
<1>2. \A i : Reached(c, i) = Following(ImportGraph(c), i)
  BY DEF Reached, ImportGraph, ImportsOf
<1> QED
  BY <1>2, FollowingHolds, FollowingOn DEF Mentioned

\* Modes and their imports are mentioned.
LEMMA MentionedAre ==
    ASSUME NEW c, NEW n \in Names(c)
    PROVE  n \in Mentioned(c) /\ ToSet(ImportsOf(c, n)) \subseteq Mentioned(c)
BY DEF Mentioned, AllOf, ImportGraph

LEMMA LeadsIs ==
    ASSUME NEW c, NEW n, NEW p
    PROVE  Leads(c, n, p) <=> p \in DOMAIN FinalMeters(c, n)
BY DEF Leads, FinalMeters

\* The metrics that have a meter in the end.
LEMMA FinalMetrics ==
    ASSUME NEW c, NEW n \in Names(c), NEW p
    PROVE  p \in DOMAIN FinalMeters(c, n) <=>
             \/ p \in DOMAIN MetersOf(c, n)
             \/ \E i \in ToSet(ImportsOf(c, n)) : p \in DOMAIN FinalMeters(c, i)
<1>1. \A i : p \in DOMAIN FinalMeters(c, i) <=> \E j \in Reached(c, i) : p \in DOMAIN MetersOf(c, j)
  BY DEF FinalMeters
<1>2. Reached(c, n) = {n} \cup UNION {Reached(c, i) : i \in ToSet(ImportsOf(c, n))}
  BY ReachedIs
<1>3. \A j : j \in Reached(c, n) <=> j = n \/ \E i \in ToSet(ImportsOf(c, n)) : j \in Reached(c, i)
  BY <1>2
<1> QED
  BY <1>1, <1>3

\* Where the meter of a metric is in the end.
Source(c, n, p) == CHOOSE i \in Following(Lookup(c, p), n) : p \in DOMAIN MetersOf(c, i)

LEMMA FinalIs ==
    ASSUME NEW c, NEW n, NEW p \in DOMAIN FinalMeters(c, n)
    PROVE  FinalMeters(c, n)[p] = MetersOf(c, Source(c, n, p))[p]
BY DEF FinalMeters, Source

\* Own meters win.
LEMMA OwnWins ==
    ASSUME NEW c, NEW n \in Names(c), NEW p \in DOMAIN MetersOf(c, n)
    PROVE  FinalMeters(c, n)[p] = MetersOf(c, n)[p]
<1>1. p \in DOMAIN FinalMeters(c, n)
  BY FinalMetrics
<1>2. n \in DOMAIN Lookup(c, p) /\ Lookup(c, p)[n] = {}
  BY DEF Lookup
<1>3. Following(Lookup(c, p), n) = {n}
  BY <1>2, FollowingIs
<1>4. Source(c, n, p) = n
  BY <1>3 DEF Source
<1> QED
  BY <1>1, <1>4, FinalIs

\* Of the others, the first import that has it.
LEMMA FirstWins ==
    ASSUME NEW c, NEW n \in Names(c), NEW p, p \notin DOMAIN MetersOf(c, n),
           NEW k \in DOMAIN ImportsOf(c, n), DOMAIN ImportsOf(c, n) \subseteq Nat \ {0},
           p \in DOMAIN FinalMeters(c, ImportsOf(c, n)[k]),
           \A j \in DOMAIN ImportsOf(c, n) : j < k => p \notin DOMAIN FinalMeters(c, ImportsOf(c, n)[j]),
           \A j \in 1 .. k - 1 : j \in DOMAIN ImportsOf(c, n)
    PROVE  FinalMeters(c, n)[p] = FinalMeters(c, ImportsOf(c, n)[k])[p]
<1> DEFINE imports == ImportsOf(c, n)
           IsFirst(x) == /\ Leads(c, imports[x], p)
                         /\ \A j \in 1 .. x - 1 : ~Leads(c, imports[j], p)
<1>1. p \in DOMAIN FinalMeters(c, n)
  <2>1. ImportsOf(c, n)[k] \in ToSet(ImportsOf(c, n))
    BY DEF ToSet
  <2> QED
    BY <2>1, FinalMetrics
<1>2. IsFirst(k)
  BY LeadsIs
<1>3. ASSUME NEW x \in DOMAIN imports, IsFirst(x) PROVE x = k
  <2>1. x \in Nat \ {0} /\ k \in Nat \ {0}
    OBVIOUS
  <2>2. ~(x < k)
    BY <1>3, LeadsIs
  <2>3. ~(k < x)
    BY <1>2, <1>3, <2>1
  <2> QED
    BY <2>1, <2>2, <2>3
<1>4. (CHOOSE x \in DOMAIN imports : IsFirst(x)) = k
  <2> HIDE DEF IsFirst, imports
  <2>1. k \in DOMAIN imports
    BY DEF imports
  <2> QED
    BY <1>2, <1>3, <2>1
<1>5. FirstTo(c, n, p) = imports[k]
  BY <1>4 DEF FirstTo, ImportsOf
<1>6. Leads(c, n, p)
  BY <1>1, LeadsIs
<1>7. n \in DOMAIN Lookup(c, p) /\ Lookup(c, p)[n] = {imports[k]}
  BY <1>5, <1>6 DEF Lookup
<1>8. Following(Lookup(c, p), n) = {n} \cup Following(Lookup(c, p), imports[k])
  BY <1>7, FollowingIs
<1>9. {i \in Following(Lookup(c, p), n) : p \in DOMAIN MetersOf(c, i)} =
      {i \in Following(Lookup(c, p), imports[k]) : p \in DOMAIN MetersOf(c, i)}
  BY <1>8
<1>10. \A i : Source(c, i, p) = CHOOSE x : x \in {j \in Following(Lookup(c, p), i) : p \in DOMAIN MetersOf(c, j)}
  BY DEF Source
<1>11. Source(c, n, p) = Source(c, imports[k], p)
  BY <1>9, <1>10
<1> QED
  BY <1>1, <1>11, FinalIs

\* The feeds in the end are a mode's own and those of its imports.
LEMMA FinalFeedsAre ==
    ASSUME NEW c, NEW n \in Names(c)
    PROVE  FinalFeeds(c, n) = ToSet(Configured(c, n).feeds)
                              \cup UNION {FinalFeeds(c, i) : i \in ToSet(ImportsOf(c, n))}
<1>1. Reached(c, n) = {n} \cup UNION {Reached(c, i) : i \in ToSet(ImportsOf(c, n))}
  BY ReachedIs
<1> QED
  BY <1>1 DEF FinalFeeds

-----------------------------------------------------------------------------
(* The stack of the walk *)

\* What a frame has been through: its mode, and what is reached from the imports
\* before the one it is at.
Piece(c, f, k) == IF k = 0 THEN {f.name} ELSE Reached(c, ImportsOf(c, f.name)[k])

FrameTypes(c, st) ==
    /\ st \in Seq([name : Mentioned(c), next : Nat \ {0}])
    /\ st # <<>> => st[1].name \in Names(c)

\* A frame has come to the end of its imports at most, past modes only.
Within(c, f) ==
    /\ f.name \in Names(c) => f.next <= Len(ImportsOf(c, f.name)) + 1
    /\ f.name \notin Names(c) => f.next = 1
    /\ \A k \in 1 .. f.next - 1 : ImportsOf(c, f.name)[k] \in Names(c)

\* The frame g is that of the import f is at.
Calls(c, f, g) ==
    /\ f.name \in Names(c)
    /\ f.next \in DOMAIN ImportsOf(c, f.name)
    /\ g.name = ImportsOf(c, f.name)[f.next]

Frames(c, st) ==
    /\ FrameTypes(c, st)
    /\ \A l \in 1 .. Len(st) : Within(c, st[l])
    /\ \A l \in 1 .. Len(st) - 1 : Calls(c, st[l], st[l + 1])
    /\ \A l \in 1 .. Len(st) : \A m \in l .. Len(st) : st[m].name \in Reached(c, st[l].name)

\* The pieces make up the names seen.
Covered(c, st, sn) ==
    \A x : x \in sn <=> \E l \in 1 .. Len(st) : \E k \in 0 .. st[l].next - 1 : x \in Piece(c, st[l], k)

\* They have none in common.
Apart(c, st) ==
    \A l, m \in 1 .. Len(st) : \A k \in 0 .. st[l].next - 1 : \A j \in 0 .. st[m].next - 1 :
        \A x : x \in Piece(c, st[l], k) /\ x \in Piece(c, st[m], j) => l = m /\ k = j

SeenRight(c, st, sn) == Covered(c, st, sn) /\ Apart(c, st)

\* No mode is reached from n along two paths, and none is unknown.
TreeAt(c, n) ==
    /\ ToSet(ImportsOf(c, n)) \subseteq Names(c)
    /\ \A i \in DOMAIN ImportsOf(c, n) :
        /\ n \notin Reached(c, ImportsOf(c, n)[i])
        /\ \A j \in DOMAIN ImportsOf(c, n) : i # j =>
            Reached(c, ImportsOf(c, n)[i]) \cap Reached(c, ImportsOf(c, n)[j]) = {}

AllFeeds(c) == UNION {ToSet(m.feeds) : m \in ModesOf(c)}

\* The mode n has its own feeds and those of its imports before the jth, and none
\* that it will not have in the end.
FeedsFilled(c, feeds, n, j) ==
    /\ feeds \in Seq(AllFeeds(c))
    /\ ToSet(Configured(c, n).feeds) \subseteq ToSet(feeds)
    /\ ToSet(feeds) \subseteq FinalFeeds(c, n)
    /\ \A k \in 1 .. j - 1 : FinalFeeds(c, ImportsOf(c, n)[k]) \subseteq ToSet(feeds)

\* Its meters in the same way.
MetersFilled(c, meters, n, j) ==
    /\ meters = [p \in DOMAIN meters |-> FinalMeters(c, n)[p]]
    /\ DOMAIN MetersOf(c, n) \subseteq DOMAIN meters
    /\ DOMAIN meters \subseteq DOMAIN FinalMeters(c, n)
    /\ \A k \in 1 .. j - 1 : DOMAIN FinalMeters(c, ImportsOf(c, n)[k]) \subseteq DOMAIN meters

Filled(c, mode, n, j) ==
    /\ {"feeds", "meters"} \subseteq DOMAIN mode
    /\ FeedsFilled(c, mode.feeds, n, j)
    /\ MetersFilled(c, mode.meters, n, j)

Full(c, mode, n) == Filled(c, mode, n, Len(ImportsOf(c, n)) + 1)

\* Configurations are sequences of sequences.
LEMMA ConfigIs ==
    ASSUME NEW c \in Configs
    PROVE  /\ DOMAIN c = 1 .. Len(c) /\ Len(c) \in Nat
           /\ \A s \in DOMAIN c : /\ c[s].hidden \in BOOLEAN
                                  /\ DOMAIN c[s].modes = 1 .. Len(c[s].modes) /\ Len(c[s].modes) \in Nat
           /\ \A s \in DOMAIN c : \A i \in DOMAIN c[s].modes : c[s].modes[i] \in ModesOf(c)
           /\ \A m \in ModesOf(c) : \E s \in DOMAIN c : \E i \in DOMAIN c[s].modes : c[s].modes[i] = m
<1>1. c \in Seq(ToSet(c)) /\ \A s \in DOMAIN c : c[s].hidden \in BOOLEAN /\ c[s].modes \in Seq(ToSet(c[s].modes))
  BY ConfigsAssumption
<1>2. DOMAIN c = 1 .. Len(c) /\ Len(c) \in Nat
  BY <1>1
<1>3. ASSUME NEW s \in DOMAIN c
      PROVE  DOMAIN c[s].modes = 1 .. Len(c[s].modes) /\ Len(c[s].modes) \in Nat
  BY <1>1
<1>4. /\ \A s \in DOMAIN c : \A i \in DOMAIN c[s].modes : c[s].modes[i] \in ModesOf(c)
      /\ \A m \in ModesOf(c) : \E s \in DOMAIN c : \E i \in DOMAIN c[s].modes : c[s].modes[i] = m
  BY DEF ModesOf, ToSet
<1> QED
  BY <1>1, <1>2, <1>3, <1>4

\* The sequences and the map of a mode.
LEMMA ModeIs ==
    ASSUME NEW c \in Configs, NEW m \in ModesOf(c)
    PROVE  /\ m.name \in Names(c)
           /\ m.feeds \in Seq(AllFeeds(c))
           /\ DOMAIN m.imports = 1 .. Len(m.imports) /\ Len(m.imports) \in Nat
           /\ m.meters = [p \in DOMAIN m.meters |-> m.meters[p]]
<1>1. /\ m.feeds \in Seq(ToSet(m.feeds)) /\ m.imports \in Seq(ToSet(m.imports))
      /\ m.meters \in [DOMAIN m.meters -> Range(m.meters)]
  BY ConfigsAssumption
<1>2. ToSet(m.feeds) \subseteq AllFeeds(c)
  BY DEF AllFeeds
<1>3. m.feeds \in Seq(AllFeeds(c))
  BY <1>1, <1>2
<1>4. DOMAIN m.imports = 1 .. Len(m.imports) /\ Len(m.imports) \in Nat
  BY <1>1
<1>5. m.meters = [p \in DOMAIN m.meters |-> m.meters[p]]
  BY <1>1
<1> QED
  BY <1>3, <1>4, <1>5 DEF Names

\* A name is that of a mode, with its sequence of imports.
LEMMA ConfiguredIs ==
    ASSUME NEW c \in Configs, NEW n \in Names(c)
    PROVE  /\ Configured(c, n) \in ModesOf(c) /\ Configured(c, n).name = n
           /\ DOMAIN ImportsOf(c, n) = 1 .. Len(ImportsOf(c, n)) /\ Len(ImportsOf(c, n)) \in Nat
           /\ \A k \in DOMAIN ImportsOf(c, n) : ImportsOf(c, n)[k] \in ToSet(ImportsOf(c, n))
<1>1. \E m \in ModesOf(c) : m.name = n
  BY DEF Names
<1>2. Configured(c, n) \in ModesOf(c) /\ Configured(c, n).name = n
  BY <1>1 DEF Configured
<1> QED
  BY <1>2, ModeIs DEF ImportsOf, ToSet

\* Maps stay maps.
LEMMA OwnMetersAre ==
    ASSUME NEW m, NEW hidden, m.meters = [p \in DOMAIN m.meters |-> m.meters[p]]
    PROVE  OwnMeters(m, hidden) = [p \in DOMAIN OwnMeters(m, hidden) |-> OwnMeters(m, hidden)[p]]
<1> DEFINE IsMap(f) == f = [p \in DOMAIN f |-> f[p]]
<1>1. \A f, k, v : IsMap(With(f, k, v))
  BY DEF With
<1>2. \A f, metric, led : IsMap(f) => IsMap(WithDefault(f, metric, led))
  <2> HIDE DEF IsMap
  <2> QED
    BY <1>1 DEF WithDefault
<1>3. \A f : IsMap(KnobMeters(f))
  <2> HIDE DEF IsMap
  <2> QED
    BY <1>1 DEF KnobMeters
<1>4. IsMap(m.meters)
  OBVIOUS
<1> HIDE DEF IsMap
<1>5. IsMap(OwnMeters(m, hidden))
  BY <1>2, <1>3, <1>4 DEF OwnMeters
<1> QED
  BY <1>5 DEF IsMap

Grown(c, st, st2, n) ==
    /\ Len(st2) = Len(st) + 1
    /\ \A l \in 1 .. Len(st) : st2[l] = st[l]
    /\ st2[Len(st) + 1] = [name |-> n, next |-> 1]

\* The stack is a sequence of frames.
LEMMA FramesAre ==
    ASSUME NEW c, NEW st, Frames(c, st)
    PROVE  /\ Len(st) \in Nat
           /\ st = <<>> <=> Len(st) = 0
           /\ \A l \in 1 .. Len(st) : st[l].name \in Mentioned(c) /\ st[l].next \in Nat \ {0}
           /\ \A l \in 1 .. Len(st) : st[l] = [name |-> st[l].name, next |-> st[l].next]
<1>1. st \in Seq([name : Mentioned(c), next : Nat \ {0}])
  BY DEF Frames, FrameTypes
<1>2. \A l \in 1 .. Len(st) : st[l] \in [name : Mentioned(c), next : Nat \ {0}]
  BY <1>1, ElementOfSeq
<1>3. \A f \in [name : Mentioned(c), next : Nat \ {0}] :
        f.name \in Mentioned(c) /\ f.next \in Nat \ {0} /\ f = [name |-> f.name, next |-> f.next]
  OBVIOUS
<1>4. Len(st) \in Nat /\ (st = <<>> <=> Len(st) = 0)
  BY <1>1
<1>5. ASSUME NEW l \in 1 .. Len(st)
      PROVE  /\ st[l].name \in Mentioned(c) /\ st[l].next \in Nat \ {0}
             /\ st[l] = [name |-> st[l].name, next |-> st[l].next]
  <2>1. PICK f \in [name : Mentioned(c), next : Nat \ {0}] : f = st[l]
    BY <1>2
  <2> QED
    BY <2>1, <1>3
<1> QED
  BY <1>4, <1>5

\* The root of a walk.
LEMMA RootFrame ==
    ASSUME NEW c \in Configs, NEW n \in Names(c), NEW st, st = <<Frame(n)>>
    PROVE  Frames(c, st) /\ SeenRight(c, st, {n})
<1>1. n \in Mentioned(c) /\ n \in Reached(c, n)
  BY MentionedAre, ReachedOn
<1>2. Len(ImportsOf(c, n)) \in Nat
  BY ConfiguredIs
<1>3. /\ st \in Seq([name : Mentioned(c), next : Nat \ {0}])
      /\ Len(st) = 1 /\ st[1].name = n /\ st[1].next = 1
  BY <1>1 DEF Frame
<1>4. Frames(c, st)
  BY <1>1, <1>2, <1>3 DEF Frames, FrameTypes, Within, Calls
<1>5. \A k \in 0 .. st[1].next - 1 : k = 0 /\ Piece(c, st[1], k) = {n}
  BY <1>3 DEF Piece
<1>6. 0 \in 0 .. st[1].next - 1
  BY <1>3
<1> QED
  BY <1>3, <1>4, <1>5, <1>6 DEF SeenRight, Covered, Apart

\* A frame more, for the import that the last one is at.
LEMMA PushFrames ==
    ASSUME NEW c \in Configs, NEW st, Frames(c, st), st # <<>>,
           st[Len(st)].name \in Names(c),
           st[Len(st)].next \in DOMAIN ImportsOf(c, st[Len(st)].name),
           NEW n, n = ImportsOf(c, st[Len(st)].name)[st[Len(st)].next],
           NEW st2, st2 \in Seq([name : Mentioned(c), next : Nat \ {0}]), Grown(c, st, st2, n)
    PROVE  Frames(c, st2)
<1>1. PICK d \in Nat \ {0} : d = Len(st) /\ Len(st2) = d + 1
  BY FramesAre DEF Grown
<1>2. /\ \A l \in 1 .. d : st2[l] = st[l]
      /\ st2[d + 1].name = n /\ st2[d + 1].next = 1
  BY <1>1 DEF Grown
<1>3. n \in ToSet(ImportsOf(c, st[d].name)) /\ n \in Mentioned(c)
  BY <1>1, ConfiguredIs, MentionedAre
<1>4. n \in Names(c) => 1 <= Len(ImportsOf(c, n)) + 1
  BY ConfiguredIs
<1>5. n \in Reached(c, n) /\ n \in Reached(c, st[d].name)
  BY <1>1, <1>3, ReachedOn, ReachedIs
<1>6. ASSUME NEW l \in 1 .. d PROVE n \in Reached(c, st[l].name)
  <2>1. st[l].name \in Mentioned(c)
    BY <1>1, FramesAre
  <2>2. st[d].name \in Reached(c, st[l].name)
    BY <1>1 DEF Frames
  <2>3. Reached(c, st[d].name) \subseteq Reached(c, st[l].name)
    BY <2>1, <2>2, ReachedOn
  <2> QED
    BY <1>5, <2>3
<1>7. FrameTypes(c, st2)
  <2>1. st[1].name \in Names(c) /\ 1 \in 1 .. d
    BY <1>1 DEF Frames, FrameTypes
  <2> QED
    BY <1>2, <2>1 DEF FrameTypes
<1>8. ASSUME NEW l \in 1 .. d + 1 PROVE Within(c, st2[l])
  <2>1. CASE l \in 1 .. d
    BY <2>1, <1>1, <1>2 DEF Frames
  <2>2. CASE l = d + 1
    BY <2>2, <1>2, <1>4 DEF Within
  <2> QED
    BY <2>1, <2>2
<1>9. ASSUME NEW l \in 1 .. d PROVE Calls(c, st2[l], st2[l + 1])
  <2>1. CASE l = d
    BY <2>1, <1>1, <1>2 DEF Calls
  <2>2. CASE l \in 1 .. d - 1
    <3>1. l \in 1 .. d /\ l + 1 \in 1 .. d
      BY <1>1, <2>2
    <3> QED
      BY <3>1, <2>2, <1>1, <1>2 DEF Frames
  <2> QED
    BY <1>1, <2>1, <2>2
<1>10. ASSUME NEW l \in 1 .. d + 1, NEW m \in l .. d + 1
       PROVE  st2[m].name \in Reached(c, st2[l].name)
  <2>1. CASE m \in l .. d
    <3>1. l \in 1 .. d /\ m \in 1 .. d
      BY <2>1
    <3>2. st[m].name \in Reached(c, st[l].name)
      BY <2>1, <3>1, <1>1 DEF Frames
    <3> QED
      BY <3>1, <3>2, <1>2
  <2>2. CASE m = d + 1 /\ l \in 1 .. d
    BY <2>2, <1>2, <1>6
  <2>3. CASE m = d + 1 /\ l = d + 1
    BY <2>3, <1>2, <1>5
  <2> QED
    BY <2>1, <2>2, <2>3
<1>11. (d + 1) - 1 = d
  OBVIOUS
<1> QED
  BY <1>1, <1>7, <1>8, <1>9, <1>10, <1>11 DEF Frames

\* Its name is the only piece that is new.
LEMMA PushSeen ==
    ASSUME NEW c \in Configs, NEW st, Frames(c, st), NEW sn, SeenRight(c, st, sn),
           NEW n, n \notin sn, NEW st2, Grown(c, st, st2, n)
    PROVE  SeenRight(c, st2, sn \cup {n})
<1>1. PICK d \in Nat : d = Len(st) /\ Len(st2) = d + 1
  BY FramesAre DEF Grown
<1>2. /\ \A l \in 1 .. d : st2[l] = st[l]
      /\ st2[d + 1].name = n /\ st2[d + 1].next = 1
  BY <1>1 DEF Grown
<1>3. \A k \in 0 .. st2[d + 1].next - 1 : k = 0 /\ Piece(c, st2[d + 1], k) = {n}
  BY <1>2 DEF Piece
<1>4. 0 \in 0 .. st2[d + 1].next - 1
  BY <1>2
<1>5. \A x : x \in sn <=> \E l \in 1 .. d : \E k \in 0 .. st2[l].next - 1 : x \in Piece(c, st2[l], k)
  <2>1. \A x : x \in sn <=> \E l \in 1 .. d : \E k \in 0 .. st[l].next - 1 : x \in Piece(c, st[l], k)
    BY <1>1 DEF SeenRight, Covered
  <2> QED
    BY <1>2, <2>1
<1>6. \A l, m \in 1 .. d : \A k \in 0 .. st2[l].next - 1 : \A j \in 0 .. st2[m].next - 1 :
        \A x : x \in Piece(c, st2[l], k) /\ x \in Piece(c, st2[m], j) => l = m /\ k = j
  <2>1. \A l, m \in 1 .. d : \A k \in 0 .. st[l].next - 1 : \A j \in 0 .. st[m].next - 1 :
        \A x : x \in Piece(c, st[l], k) /\ x \in Piece(c, st[m], j) => l = m /\ k = j
    BY <1>1 DEF SeenRight, Apart
  <2> QED
    BY <1>2, <2>1
<1>7. \A l : l \in 1 .. d + 1 <=> l \in 1 .. d \/ l = d + 1
  OBVIOUS
<1>8. \A x : x \in sn \cup {n} <=>
        \E l \in 1 .. d + 1 : \E k \in 0 .. st2[l].next - 1 : x \in Piece(c, st2[l], k)
  BY <1>3, <1>4, <1>5, <1>7
<1>9. ASSUME NEW l \in 1 .. d + 1, NEW m \in 1 .. d + 1, NEW k \in 0 .. st2[l].next - 1,
             NEW j \in 0 .. st2[m].next - 1,
             NEW x, x \in Piece(c, st2[l], k), x \in Piece(c, st2[m], j)
      PROVE  l = m /\ k = j
  <2>1. CASE l \in 1 .. d /\ m \in 1 .. d
    BY <2>1, <1>6, <1>9
  <2>2. CASE l = d + 1 /\ m = d + 1
    BY <2>2, <1>3
  <2>3. CASE l = d + 1 /\ m \in 1 .. d
    BY <2>3, <1>3, <1>5, <1>9
  <2>4. CASE m = d + 1 /\ l \in 1 .. d
    BY <2>4, <1>3, <1>5, <1>9
  <2> QED
    BY <2>1, <2>2, <2>3, <2>4, <1>7
<1> QED
  BY <1>1, <1>8, <1>9 DEF SeenRight, Covered, Apart

\* The frame of an import is gone, and its caller is at the next one.
Shrunk(st, st2) ==
    LET d == Len(st) - 1
    IN  /\ Len(st2) = d
        /\ \A l \in 1 .. d - 1 : st2[l] = st[l]
        /\ st2[d] = [name |-> st[d].name, next |-> st[d].next + 1]

\* The frame f is at the end of its imports.
AtEnd(c, f) == f.name \in Names(c) /\ f.next \notin DOMAIN ImportsOf(c, f.name)

\* A frame at its end has been through all that is reached from its mode.
LEMMA EndReached ==
    ASSUME NEW c \in Configs, NEW f, f.next \in Nat \ {0}, Within(c, f), AtEnd(c, f)
    PROVE  /\ f.next = Len(ImportsOf(c, f.name)) + 1
           /\ \A x : x \in Reached(c, f.name) <=> \E k \in 0 .. f.next - 1 : x \in Piece(c, f, k)
<1>1. /\ DOMAIN ImportsOf(c, f.name) = 1 .. Len(ImportsOf(c, f.name))
      /\ Len(ImportsOf(c, f.name)) \in Nat
  BY ConfiguredIs DEF AtEnd
<1>2. f.next = Len(ImportsOf(c, f.name)) + 1
  BY <1>1 DEF AtEnd, Within
<1>3. \A k : k \in 0 .. f.next - 1 <=> k = 0 \/ k \in DOMAIN ImportsOf(c, f.name)
  BY <1>1, <1>2
<1>4. 0 \notin DOMAIN ImportsOf(c, f.name)
  BY <1>1
<1>5. \A x : x \in Reached(c, f.name) <=>
        x = f.name \/ \E i \in ToSet(ImportsOf(c, f.name)) : x \in Reached(c, i)
  BY ReachedIs DEF AtEnd
<1>6. \A x : x \in Reached(c, f.name) <=>
        x = f.name \/ \E k \in DOMAIN ImportsOf(c, f.name) : x \in Reached(c, ImportsOf(c, f.name)[k])
  BY <1>5 DEF ToSet
<1>7. \A k : Piece(c, f, k) = IF k = 0 THEN {f.name} ELSE Reached(c, ImportsOf(c, f.name)[k])
  BY DEF Piece
<1> HIDE DEF Piece
<1>8. \A x : x \in Reached(c, f.name) <=> \E k \in 0 .. f.next - 1 : x \in Piece(c, f, k)
  BY <1>3, <1>4, <1>6, <1>7
<1> QED
  BY <1>2, <1>8

\* A frame less, at whose end all of its imports are modes.
LEMMA PopFrames ==
    ASSUME NEW c \in Configs, NEW st, Frames(c, st), Len(st) > 1, AtEnd(c, st[Len(st)]),
           NEW st2, st2 \in Seq([name : Mentioned(c), next : Nat \ {0}]), Shrunk(st, st2)
    PROVE  Frames(c, st2)
<1>1. PICK d \in Nat \ {0} : d + 1 = Len(st) /\ d = Len(st) - 1
  <2>1. Len(st) \in Nat
    BY FramesAre
  <2>2. Len(st) - 1 \in Nat \ {0} /\ (Len(st) - 1) + 1 = Len(st)
    BY <2>1
  <2> QED
    BY <2>2
<1>2. /\ Len(st2) = d
      /\ \A l \in 1 .. d - 1 : st2[l] = st[l]
      /\ st2[d].name = st[d].name /\ st2[d].next = st[d].next + 1
  BY <1>1 DEF Shrunk
<1>3. /\ \A l \in 1 .. d + 1 : Within(c, st[l])
      /\ \A l \in 1 .. d : Calls(c, st[l], st[l + 1])
      /\ \A l \in 1 .. d + 1 : \A m \in l .. d + 1 : st[m].name \in Reached(c, st[l].name)
  BY <1>1 DEF Frames
<1>4. \A l \in 1 .. d : st2[l].name = st[l].name
  <2>1. \A l \in 1 .. d : l \in 1 .. d - 1 \/ l = d
    OBVIOUS
  <2> QED
    BY <1>2, <2>1
<1>5. FrameTypes(c, st2)
  <2>1. st # <<>>
    BY <1>1, FramesAre
  <2>2. st[1].name \in Names(c)
    BY <2>1 DEF Frames, FrameTypes
  <2>3. st2[1].name = st[1].name
    BY <1>4
  <2> QED
    BY <2>2, <2>3 DEF FrameTypes
<1>6. Within(c, st2[d])
  <2>1. Calls(c, st[d], st[d + 1]) /\ Within(c, st[d]) /\ d + 1 = Len(st)
    BY <1>1, <1>3
  <2>2. /\ DOMAIN ImportsOf(c, st[d].name) = 1 .. Len(ImportsOf(c, st[d].name))
        /\ Len(ImportsOf(c, st[d].name)) \in Nat
    BY <2>1, ConfiguredIs DEF Calls
  <2>3. st[d].next <= Len(ImportsOf(c, st[d].name)) /\ st[d].next \in Nat \ {0}
    BY <2>1, <2>2 DEF Calls
  <2>4. ImportsOf(c, st[d].name)[st[d].next] \in Names(c)
    BY <2>1 DEF Calls, AtEnd
  <2>5. \A k \in 1 .. st[d].next : ImportsOf(c, st[d].name)[k] \in Names(c)
    BY <2>1, <2>3, <2>4 DEF Within
  <2>6. (st[d].next + 1) - 1 = st[d].next
    BY <2>3
  <2> QED
    BY <2>1, <2>2, <2>3, <2>5, <2>6, <1>2 DEF Within, Calls
<1>7. ASSUME NEW l \in 1 .. d PROVE Within(c, st2[l])
  <2>1. CASE l = d
    BY <2>1, <1>6
  <2>2. CASE l \in 1 .. d - 1
    BY <2>2, <1>2, <1>3
  <2> QED
    BY <2>1, <2>2
<1>8. ASSUME NEW l \in 1 .. d - 1 PROVE Calls(c, st2[l], st2[l + 1])
  <2>1. l \in 1 .. d /\ l + 1 \in 1 .. d
    BY <1>1
  <2>2. st2[l] = st[l] /\ st2[l + 1].name = st[l + 1].name
    BY <2>1, <1>2, <1>4
  <2> QED
    BY <2>1, <2>2, <1>3 DEF Calls
<1>9. ASSUME NEW l \in 1 .. d, NEW m \in l .. d
      PROVE  st2[m].name \in Reached(c, st2[l].name)
  <2>1. m \in 1 .. d /\ l \in 1 .. d + 1 /\ m \in l .. d + 1
    BY <1>1
  <2> QED
    BY <2>1, <1>3, <1>4
<1> QED
  BY <1>2, <1>5, <1>7, <1>8, <1>9 DEF Frames

\* Its pieces make up the one that its caller has been through now.
LEMMA PopSeen ==
    ASSUME NEW c \in Configs, NEW st, Frames(c, st), Len(st) > 1, AtEnd(c, st[Len(st)]),
           NEW sn, SeenRight(c, st, sn),
           NEW st2, Shrunk(st, st2)
    PROVE  SeenRight(c, st2, sn)
<1>1. PICK d \in Nat \ {0} : d + 1 = Len(st) /\ d = Len(st) - 1
  <2>1. Len(st) \in Nat
    BY FramesAre
  <2>2. Len(st) - 1 \in Nat \ {0} /\ (Len(st) - 1) + 1 = Len(st)
    BY <2>1
  <2> QED
    BY <2>2
<1>2. /\ Len(st2) = d
      /\ \A l \in 1 .. d - 1 : st2[l] = st[l]
      /\ st2[d].name = st[d].name /\ st2[d].next = st[d].next + 1
  BY <1>1 DEF Shrunk
<1>3. PICK e \in Nat \ {0} : e = st[d].next
  BY <1>1, FramesAre
\* The new piece of the caller is made of those of the callee.
<1>4. Piece(c, st2[d], e) = Reached(c, st[d + 1].name)
  BY <1>1, <1>2, <1>3 DEF Frames, Calls, Piece
<1>5. \A x : x \in Piece(c, st2[d], e) <=> \E k \in 0 .. st[d + 1].next - 1 : x \in Piece(c, st[d + 1], k)
  <2>1. st[d + 1].next \in Nat \ {0} /\ Within(c, st[d + 1]) /\ AtEnd(c, st[d + 1])
    BY <1>1, FramesAre DEF Frames
  <2> QED
    BY <1>4, <2>1, EndReached
\* The others are as before.
<1>6. /\ \A l \in 1 .. d - 1 : st2[l] = st[l]
      /\ \A k : Piece(c, st2[d], k) = Piece(c, st[d], k)
      /\ \A k : k \in 0 .. st2[d].next - 1 <=> k \in 0 .. st[d].next - 1 \/ k = e
      /\ e \notin 0 .. st[d].next - 1
  BY <1>2, <1>3 DEF Piece
<1> DEFINE Old(l, k) == l \in 1 .. d + 1 /\ k \in 0 .. st[l].next - 1
           New(l, k) == l \in 1 .. d /\ k \in 0 .. st2[l].next - 1
<1>7. ASSUME NEW l, NEW k
      PROVE  New(l, k) <=> (l = d /\ k = e) \/ (Old(l, k) /\ l # d + 1)
  <2>1. CASE l = d
    BY <2>1, <1>6
  <2>2. CASE l \in 1 .. d - 1
    BY <2>2, <1>6
  <2>3. CASE l \notin 1 .. d
    BY <2>3
  <2> QED
    BY <2>1, <2>2, <2>3
<1>8. ~Old(d, e) /\ \A k : Old(d + 1, k) <=> k \in 0 .. st[d + 1].next - 1
  BY <1>6
<1>9. \A l, k : New(l, k) => Piece(c, st2[l], k) = Piece(c, st[l], k)
  <2>1. \A l \in 1 .. d : l = d \/ st2[l] = st[l]
    BY <1>2
  <2> QED
    BY <2>1, <1>6
<1>10. \A x : x \in sn <=> \E l, k : Old(l, k) /\ x \in Piece(c, st[l], k)
  BY <1>1 DEF SeenRight, Covered
<1>11. \A l, m, k, j, x :
         Old(l, k) /\ Old(m, j) /\ x \in Piece(c, st[l], k) /\ x \in Piece(c, st[m], j) => l = m /\ k = j
  BY <1>1 DEF SeenRight, Apart
<1>12. d # d + 1
  OBVIOUS
<1> HIDE DEF Old, New
<1>13. \A x : x \in sn <=> \E l, k : New(l, k) /\ x \in Piece(c, st2[l], k)
  <2>1. ASSUME NEW x, x \in sn PROVE \E l, k : New(l, k) /\ x \in Piece(c, st2[l], k)
    <3>1. PICK l, k : Old(l, k) /\ x \in Piece(c, st[l], k)
      BY <2>1, <1>10
    <3>2. CASE l = d + 1
      BY <3>1, <3>2, <1>5, <1>7, <1>8
    <3>3. CASE l # d + 1
      BY <3>1, <3>3, <1>7, <1>9
    <3> QED
      BY <3>2, <3>3
  <2>2. ASSUME NEW x, NEW l, NEW k, New(l, k), x \in Piece(c, st2[l], k) PROVE x \in sn
    <3>1. CASE l = d /\ k = e
      BY <3>1, <2>2, <1>5, <1>8, <1>10
    <3>2. CASE Old(l, k)
      BY <3>2, <2>2, <1>9, <1>10
    <3> QED
      BY <3>1, <3>2, <2>2, <1>7
  <2> QED
    BY <2>1, <2>2
\* A piece of the new stack holds nothing but what a piece of the old one does.
<1>14. ASSUME NEW l, NEW m, NEW k, NEW j, NEW x, New(l, k), New(m, j),
              x \in Piece(c, st2[l], k), x \in Piece(c, st2[m], j)
       PROVE  l = m /\ k = j
  <2>1. CASE Old(l, k) /\ Old(m, j)
    BY <2>1, <1>14, <1>9, <1>11
  <2>2. CASE l = d /\ k = e /\ m = d /\ j = e
    BY <2>2
  <2>3. ASSUME l = d, k = e, Old(m, j), m # d + 1 PROVE FALSE
    BY <2>3, <1>14, <1>5, <1>8, <1>9, <1>11
  <2>4. ASSUME m = d, j = e, Old(l, k), l # d + 1 PROVE FALSE
    BY <2>4, <1>14, <1>5, <1>8, <1>9, <1>11
  <2> QED
    BY <2>1, <2>2, <2>3, <2>4, <1>7, <1>14
<1>15. Covered(c, st2, sn)
  BY <1>2, <1>13 DEF Covered, New
<1>16. Apart(c, st2)
  BY <1>2, <1>14 DEF Apart, New
<1> QED
  BY <1>15, <1>16 DEF SeenRight

\* The walk from a mode that took no path to a mode twice shows the tree below it.
LEMMA RootTree ==
    ASSUME NEW c \in Configs, NEW st, Frames(c, st), NEW sn, SeenRight(c, st, sn),
           Len(st) = 1, AtEnd(c, st[1])
    PROVE  TreeAt(c, st[1].name)
<1> DEFINE n == st[1].name
           imports == ImportsOf(c, n)
<1>1. 1 \in 1 .. Len(st)
  OBVIOUS
<1>2. st[1].next = Len(imports) + 1 /\ Within(c, st[1])
  BY <1>1, FramesAre, EndReached DEF Frames
<1>3. DOMAIN imports = 1 .. Len(imports) /\ Len(imports) \in Nat
  BY ConfiguredIs DEF AtEnd
<1>4. /\ (st[1].next - 1) = Len(imports)
      /\ \A k \in DOMAIN imports : k \in 1 .. st[1].next - 1 /\ k \in 0 .. st[1].next - 1 /\ k # 0
      /\ 0 \in 0 .. st[1].next - 1
  BY <1>2, <1>3
<1>5. \A k \in DOMAIN imports : Piece(c, st[1], k) = Reached(c, imports[k])
  BY <1>4 DEF Piece
<1>6. Piece(c, st[1], 0) = {n}
  BY DEF Piece
<1>7. \A k, j \in 0 .. st[1].next - 1 : \A x : x \in Piece(c, st[1], k) /\ x \in Piece(c, st[1], j) => k = j
  BY <1>1 DEF SeenRight, Apart
<1>8. ToSet(imports) \subseteq Names(c)
  BY <1>2, <1>4 DEF ToSet, Within
<1>9. \A i \in DOMAIN imports : n \notin Reached(c, imports[i])
  BY <1>4, <1>5, <1>6, <1>7
<1>10. \A i, j \in DOMAIN imports : i # j => Reached(c, imports[i]) \cap Reached(c, imports[j]) = {}
  BY <1>4, <1>5, <1>7
<1> QED
  BY <1>8, <1>9, <1>10 DEF TreeAt

\* Names are those of one mode.
LEMMA Unique ==
    ASSUME NEW c \in Configs, WellFormed(c), NEW m \in ModesOf(c)
    PROVE  Configured(c, m.name) = m
<1>1. /\ m.name \in Names(c)
      /\ Configured(c, m.name) \in ModesOf(c) /\ Configured(c, m.name).name = m.name
  BY ModeIs, ConfiguredIs
<1>2. PICK s \in DOMAIN c : \E i \in DOMAIN c[s].modes : c[s].modes[i] = m
  BY ConfigIs
<1>3. PICK i \in DOMAIN c[s].modes : c[s].modes[i] = m
  BY <1>2
<1>4. PICK t \in DOMAIN c : \E j \in DOMAIN c[t].modes : c[t].modes[j] = Configured(c, m.name)
  BY <1>1, ConfigIs
<1>5. PICK j \in DOMAIN c[t].modes : c[t].modes[j] = Configured(c, m.name)
  BY <1>4
<1>6. s = t /\ i = j
  <2>1. c[s].modes[i].name = c[t].modes[j].name
    BY <1>1, <1>3, <1>5
  <2> QED
    BY <2>1 DEF WellFormed
<1> QED
  BY <1>3, <1>5, <1>6

\* The imports are trees when they are below every mode.
LEMMA TreesAre ==
    ASSUME NEW c \in Configs, WellFormed(c)
    PROVE  ImportTrees(c) <=> \A n \in Names(c) : TreeAt(c, n)
<1>1. ASSUME ImportTrees(c), NEW n \in Names(c) PROVE TreeAt(c, n)
  <2>1. Configured(c, n) \in ModesOf(c) /\ Configured(c, n).name = n
    BY ConfiguredIs
  <2> QED
    BY <1>1, <2>1 DEF ImportTrees, TreeAt, ImportsOf
<1>2. ASSUME \A n \in Names(c) : TreeAt(c, n), NEW m \in ModesOf(c)
      PROVE  /\ ToSet(m.imports) \subseteq Names(c)
             /\ \A i \in DOMAIN m.imports :
                 /\ m.name \notin Reached(c, m.imports[i])
                 /\ \A j \in DOMAIN m.imports : i # j =>
                     Reached(c, m.imports[i]) \cap Reached(c, m.imports[j]) = {}
  <2>1. m.name \in Names(c) /\ Configured(c, m.name) = m
    BY ModeIs, Unique
  <2> QED
    BY <1>2, <2>1 DEF TreeAt, ImportsOf
<1> QED
  BY <1>1, <1>2 DEF ImportTrees

\* On a tree, the walk never comes to a name again.
LEMMA NotSeen ==
    ASSUME NEW c \in Configs, \A m \in Names(c) : TreeAt(c, m),
           NEW st, Frames(c, st), NEW sn, SeenRight(c, st, sn), st # <<>>,
           st[Len(st)].name \in Names(c),
           st[Len(st)].next \in DOMAIN ImportsOf(c, st[Len(st)].name),
           NEW n, n = ImportsOf(c, st[Len(st)].name)[st[Len(st)].next]
    PROVE  n \notin sn
<1>1. PICK d \in Nat \ {0} : d = Len(st)
  BY FramesAre
<1>2. \A l \in 1 .. d - 1 : Calls(c, st[l], st[l + 1])
  BY <1>1 DEF Frames
<1>3. \A l \in 1 .. d : /\ st[l].name \in Names(c)
                        /\ st[l].next \in DOMAIN ImportsOf(c, st[l].name)
  <2>1. \A l \in 1 .. d : l = d \/ l \in 1 .. d - 1
    BY <1>1
  <2> QED
    BY <1>1, <1>2, <2>1 DEF Calls
<1>4. n \in ToSet(ImportsOf(c, st[d].name)) /\ n \in Mentioned(c)
  BY <1>1, ConfiguredIs, MentionedAre
<1>5. n \in Reached(c, n) /\ n \in Reached(c, st[d].name)
  BY <1>1, <1>4, ReachedOn, ReachedIs
\* The import that each frame is at leads to n.
<1>6. ASSUME NEW l \in 1 .. d PROVE n \in Reached(c, ImportsOf(c, st[l].name)[st[l].next])
  <2>1. CASE l = d
    BY <2>1, <1>1, <1>5
  <2>2. CASE l \in 1 .. d - 1
    <3>1. st[l + 1].name = ImportsOf(c, st[l].name)[st[l].next]
      BY <2>2, <1>2 DEF Calls
    <3>2. l + 1 \in 1 .. d /\ d \in l + 1 .. d
      BY <2>2, <1>1
    <3>3. st[d].name \in Reached(c, st[l + 1].name) /\ st[l + 1].name \in Mentioned(c)
      BY <3>2, <1>1, FramesAre DEF Frames
    <3>4. Reached(c, st[d].name) \subseteq Reached(c, st[l + 1].name)
      BY <3>3, ReachedOn
    <3> QED
      BY <3>1, <3>4, <1>5
  <2> QED
    BY <1>1, <2>1, <2>2
<1>7. ASSUME NEW l \in 1 .. d, NEW k \in 0 .. st[l].next - 1, n \in Piece(c, st[l], k)
      PROVE  FALSE
  <2>1. TreeAt(c, st[l].name) /\ st[l].next \in DOMAIN ImportsOf(c, st[l].name)
    BY <1>3
  <2>2. CASE k = 0
    <3>1. n = st[l].name
      BY <2>2, <1>7 DEF Piece
    <3> QED
      BY <3>1, <2>1, <1>6 DEF TreeAt
  <2>3. CASE k # 0
    <3>1. n \in Reached(c, ImportsOf(c, st[l].name)[k])
      BY <2>3, <1>7 DEF Piece
    <3>2. DOMAIN ImportsOf(c, st[l].name) = 1 .. Len(ImportsOf(c, st[l].name))
          /\ Len(ImportsOf(c, st[l].name)) \in Nat
      BY <1>3, ConfiguredIs
    <3>3. k \in DOMAIN ImportsOf(c, st[l].name) /\ k # st[l].next
      BY <3>2, <2>1, <2>3
    <3> QED
      BY <3>1, <3>3, <2>1, <1>6 DEF TreeAt
  <2> QED
    BY <2>2, <2>3
<1> QED
  BY <1>1, <1>7 DEF SeenRight, Covered

\* A stack of frames that the walk has come to once is no higher than there are modes.
LEMMA StackFits ==
    ASSUME NEW c \in Configs,
           NEW st, Frames(c, st), NEW sn, SeenRight(c, st, sn), st # <<>>,
           st[Len(st)].name \in Names(c),
           NEW n \in Names(c), n \notin sn
    PROVE  Len(st) < MaxDepth
<1>1. PICK d \in Nat \ {0} : d = Len(st)
  BY FramesAre
<1>2. \A l \in 1 .. d : st[l].name \in Names(c)
  <2>1. \A l \in 1 .. d - 1 : Calls(c, st[l], st[l + 1])
    BY <1>1 DEF Frames
  <2>2. \A l \in 1 .. d : l = d \/ l \in 1 .. d - 1
    BY <1>1
  <2> QED
    BY <1>1, <2>1, <2>2 DEF Calls
<1>3. \A l \in 1 .. d : 0 \in 0 .. st[l].next - 1
  BY <1>1, FramesAre
<1>4. \A l : Piece(c, st[l], 0) = {st[l].name}
  BY DEF Piece
<1>5. \A l \in 1 .. d : st[l].name \in sn
  BY <1>1, <1>3, <1>4 DEF SeenRight, Covered
<1>6. \A l, m \in 1 .. d : st[l].name = st[m].name => l = m
  BY <1>1, <1>3, <1>4 DEF SeenRight, Apart
<1> DEFINE f == [l \in 1 .. d + 1 |-> IF l = d + 1 THEN n ELSE st[l].name]
<1>7. f \in Injection(1 .. d + 1, Names(c))
  <2>1. \A l \in 1 .. d + 1 : l = d + 1 \/ l \in 1 .. d
    OBVIOUS
  <2>2. \A l \in 1 .. d + 1 : f[l] \in Names(c)
    BY <1>2, <2>1
  <2>3. ASSUME NEW l \in 1 .. d + 1, NEW m \in 1 .. d + 1, f[l] = f[m] PROVE l = m
    BY <1>5, <1>6, <2>1, <2>3
  <2>4. f \in [1 .. d + 1 -> Names(c)]
    BY <2>2
  <2> HIDE DEF f
  <2> QED
    BY <2>3, <2>4 DEF Injection, IsInjective
<1>8. IsFiniteSet(Names(c)) /\ Cardinality(Names(c)) <= MaxDepth /\ MaxDepth \in Nat
  BY ConfigsAssumption
<1>9. Cardinality(1 .. d + 1) <= Cardinality(Names(c))
  <2> HIDE DEF f
  <2> QED
    BY <1>7, <1>8, FS_Injection
<1>10. Cardinality(1 .. d + 1) = d + 1
  BY FS_Interval
<1>11. Cardinality(Names(c)) \in Nat
  BY <1>8, FS_CardinalityType
<1> QED
  BY <1>1, <1>8, <1>9, <1>10, <1>11

\* A mode with those of all its imports has what it will have in the end.
LEMMA FullIs ==
    ASSUME NEW c \in Configs, NEW n \in Names(c), NEW mode, Full(c, mode, n)
    PROVE  /\ ToSet(mode.feeds) = FinalFeeds(c, n) /\ mode.feeds \in Seq(AllFeeds(c))
           /\ mode.meters = FinalMeters(c, n)
<1> DEFINE imports == ImportsOf(c, n)
<1>1. DOMAIN imports = 1 .. Len(imports) /\ Len(imports) \in Nat
  BY ConfiguredIs
<1>2. \A k \in DOMAIN imports : k \in 1 .. (Len(imports) + 1) - 1
  BY <1>1
<1>3. FeedsFilled(c, mode.feeds, n, Len(imports) + 1) /\ MetersFilled(c, mode.meters, n, Len(imports) + 1)
  BY DEF Full, Filled
<1>4. \A i \in ToSet(imports) : FinalFeeds(c, i) \subseteq ToSet(mode.feeds)
  <2>1. \A k \in DOMAIN imports : FinalFeeds(c, imports[k]) \subseteq ToSet(mode.feeds)
    BY <1>2, <1>3 DEF FeedsFilled
  <2>2. \A i \in ToSet(imports) : \E k \in DOMAIN imports : i = imports[k]
    BY DEF ToSet
  <2> QED
    BY <2>1, <2>2
<1>5. ToSet(mode.feeds) = FinalFeeds(c, n)
  <2>1. FinalFeeds(c, n) = ToSet(Configured(c, n).feeds) \cup UNION {FinalFeeds(c, i) : i \in ToSet(imports)}
    BY FinalFeedsAre
  <2>2. UNION {FinalFeeds(c, i) : i \in ToSet(imports)} \subseteq ToSet(mode.feeds)
    BY <1>4
  <2>3. ToSet(Configured(c, n).feeds) \subseteq ToSet(mode.feeds) /\ ToSet(mode.feeds) \subseteq FinalFeeds(c, n)
    BY <1>3 DEF FeedsFilled
  <2> HIDE DEF imports
  <2> QED
    BY <2>1, <2>2, <2>3
<1>6. \A i \in ToSet(imports) : DOMAIN FinalMeters(c, i) \subseteq DOMAIN mode.meters
  <2>1. \A k \in DOMAIN imports : DOMAIN FinalMeters(c, imports[k]) \subseteq DOMAIN mode.meters
    BY <1>2, <1>3 DEF MetersFilled
  <2> HIDE DEF imports
  <2> QED
    BY <2>1 DEF ToSet
<1>7. ASSUME NEW p \in DOMAIN FinalMeters(c, n) PROVE p \in DOMAIN mode.meters
  BY <1>3, <1>6, FinalMetrics DEF MetersFilled
<1>8. DOMAIN mode.meters = DOMAIN FinalMeters(c, n)
  BY <1>3, <1>7 DEF MetersFilled
<1>9. mode.meters = [p \in DOMAIN FinalMeters(c, n) |-> FinalMeters(c, n)[p]]
  BY <1>3, <1>8 DEF MetersFilled
<1>10. FinalMeters(c, n) = [p \in DOMAIN FinalMeters(c, n) |-> FinalMeters(c, n)[p]]
  BY DEF FinalMeters
<1>11. mode.meters = FinalMeters(c, n)
  BY <1>9, <1>10, Zenon
<1> QED
  BY <1>3, <1>5, <1>11 DEF FeedsFilled

\* Two sequences in a row have the elements of both.
LEMMA ConcatSet ==
    ASSUME NEW S, NEW s \in Seq(S), NEW t \in Seq(S)
    PROVE  s \o t \in Seq(S) /\ ToSet(s \o t) = ToSet(s) \cup ToSet(t)
<1>1. /\ s \o t \in Seq(S)
      /\ Len(s \o t) = Len(s) + Len(t)
      /\ \A i \in 1 .. Len(s) + Len(t) : (s \o t)[i] = IF i <= Len(s) THEN s[i] ELSE t[i - Len(s)]
  BY ConcatProperties
<1>2. /\ Len(s) \in Nat /\ DOMAIN s = 1 .. Len(s)
      /\ Len(t) \in Nat /\ DOMAIN t = 1 .. Len(t)
      /\ DOMAIN (s \o t) = 1 .. Len(s) + Len(t)
  BY <1>1
<1>3. ASSUME NEW i \in DOMAIN s PROVE s[i] \in ToSet(s \o t)
  <2>1. i \in 1 .. Len(s) + Len(t) /\ (s \o t)[i] = s[i]
    BY <1>1, <1>2
  <2> QED
    BY <1>2, <2>1 DEF ToSet
<1>4. ASSUME NEW i \in DOMAIN t PROVE t[i] \in ToSet(s \o t)
  <2>1. PICK j \in 1 .. Len(s) + Len(t) : j = Len(s) + i
    BY <1>2
  <2>2. (s \o t)[j] = t[i]
    BY <1>1, <1>2, <2>1
  <2> QED
    BY <1>2, <2>1, <2>2 DEF ToSet
<1>5. ASSUME NEW i \in DOMAIN (s \o t) PROVE (s \o t)[i] \in ToSet(s) \cup ToSet(t)
  <2>1. CASE i <= Len(s)
    BY <2>1, <1>1, <1>2 DEF ToSet
  <2>2. CASE ~(i <= Len(s))
    <3>1. PICK j \in DOMAIN t : j = i - Len(s)
      BY <2>2, <1>2
    <3>2. (s \o t)[i] = t[j]
      BY <2>2, <3>1, <1>1, <1>2
    <3> QED
      BY <3>2 DEF ToSet
  <2> QED
    BY <2>1, <2>2
<1> QED
  BY <1>1, <1>3, <1>4, <1>5 DEF ToSet

\* The feeds of an import are among those of the mode in the end.
LEMMA MergeFeeds ==
    ASSUME NEW c \in Configs, NEW n \in Names(c), NEW k \in DOMAIN ImportsOf(c, n),
           NEW j \in Nat \ {0}, NEW feeds, FeedsFilled(c, feeds, n, j),
           NEW used \in Seq(AllFeeds(c)), ToSet(used) = FinalFeeds(c, ImportsOf(c, n)[k])
    PROVE  /\ FeedsFilled(c, feeds \o used, n, j)
           /\ k = j => FeedsFilled(c, feeds \o used, n, j + 1)
<1>1. feeds \o used \in Seq(AllFeeds(c)) /\ ToSet(feeds \o used) = ToSet(feeds) \cup ToSet(used)
  BY ConcatSet DEF FeedsFilled
<1>2. ToSet(used) \subseteq FinalFeeds(c, n)
  <2>1. ImportsOf(c, n)[k] \in ToSet(ImportsOf(c, n))
    BY DEF ToSet
  <2> QED
    BY <2>1, FinalFeedsAre
<1>3. \A i \in 1 .. (j + 1) - 1 : i = j \/ i \in 1 .. j - 1
  OBVIOUS
<1> QED
  BY <1>1, <1>2, <1>3 DEF FeedsFilled

\* Its meters are, too, where the mode has none yet.
LEMMA MergeMeters ==
    ASSUME NEW c \in Configs, NEW n \in Names(c), NEW k \in DOMAIN ImportsOf(c, n),
           NEW j \in Nat \ {0}, k <= j, NEW meters, MetersFilled(c, meters, n, j),
           NEW used, used = FinalMeters(c, ImportsOf(c, n)[k])
    PROVE  /\ MetersFilled(c, MetersWith(meters, used), n, j)
           /\ k = j => MetersFilled(c, MetersWith(meters, used), n, j + 1)
<1> DEFINE imports == ImportsOf(c, n)
           all == MetersWith(meters, used)
<1>1. DOMAIN imports = 1 .. Len(imports) /\ Len(imports) \in Nat
  BY ConfiguredIs
<1>2. /\ DOMAIN all = DOMAIN meters \cup DOMAIN used
      /\ \A p \in DOMAIN all : all[p] = IF p \in DOMAIN meters THEN meters[p] ELSE used[p]
      /\ all = [p \in DOMAIN all |-> all[p]]
  BY DEF MetersWith
<1>3. DOMAIN used \subseteq DOMAIN FinalMeters(c, n)
  <2>1. imports[k] \in ToSet(imports)
    BY DEF ToSet
  <2> QED
    BY <2>1, FinalMetrics
<1>4. ASSUME NEW p \in DOMAIN all PROVE all[p] = FinalMeters(c, n)[p]
  <2>1. CASE p \in DOMAIN meters
    BY <2>1, <1>2 DEF MetersFilled
  <2>2. CASE p \notin DOMAIN meters
    <3>1. p \notin DOMAIN MetersOf(c, n) /\ p \in DOMAIN FinalMeters(c, imports[k])
      BY <2>2, <1>2 DEF MetersFilled
    <3>2. \A i \in DOMAIN imports : i < k => p \notin DOMAIN FinalMeters(c, imports[i])
      <4>1. \A i \in DOMAIN imports : i < k => i \in 1 .. j - 1
        BY <1>1
      <4> QED
        BY <4>1, <2>2 DEF MetersFilled
    <3>3. DOMAIN imports \subseteq Nat \ {0} /\ \A i \in 1 .. k - 1 : i \in DOMAIN imports
      BY <1>1
    <3>4. FinalMeters(c, n)[p] = FinalMeters(c, imports[k])[p]
      BY <3>1, <3>2, <3>3, FirstWins
    <3> QED
      BY <2>2, <3>4, <1>2
  <2> QED
    BY <2>1, <2>2
<1>5. all = [p \in DOMAIN all |-> FinalMeters(c, n)[p]]
  <2> HIDE DEF all
  <2> QED
    BY <1>2, <1>4
<1>6. \A i \in 1 .. (j + 1) - 1 : i = j \/ i \in 1 .. j - 1
  OBVIOUS
<1>7. DOMAIN all \subseteq DOMAIN FinalMeters(c, n) /\ DOMAIN meters \subseteq DOMAIN all
      /\ DOMAIN FinalMeters(c, imports[k]) \subseteq DOMAIN all
  BY <1>2, <1>3 DEF MetersFilled
<1> HIDE DEF all
<1>8. MetersFilled(c, all, n, j)
  BY <1>5, <1>7 DEF MetersFilled
<1>9. k = j => MetersFilled(c, all, n, j + 1)
  BY <1>5, <1>6, <1>7 DEF MetersFilled
<1> QED
  BY <1>8, <1>9 DEF all

\* An import that is full fills the mode; the next import, one step further.
LEMMA MergeFills ==
    ASSUME NEW c \in Configs, NEW n \in Names(c), NEW k \in DOMAIN ImportsOf(c, n),
           ImportsOf(c, n)[k] \in Names(c),
           NEW j \in Nat \ {0}, k <= j, NEW mode, Filled(c, mode, n, j),
           NEW used, Full(c, used, ImportsOf(c, n)[k])
    PROVE  /\ Filled(c, Merged(mode, used), n, j)
           /\ k = j => Filled(c, Merged(mode, used), n, j + 1)
<1>1. /\ DOMAIN Merged(mode, used) = DOMAIN mode
      /\ Merged(mode, used).feeds = mode.feeds \o used.feeds
      /\ Merged(mode, used).meters = MetersWith(mode.meters, used.meters)
  BY DEF Merged, Filled
<1>2. /\ FeedsFilled(c, mode.feeds \o used.feeds, n, j)
      /\ k = j => FeedsFilled(c, mode.feeds \o used.feeds, n, j + 1)
  BY FullIs, MergeFeeds DEF Filled
<1>3. /\ MetersFilled(c, MetersWith(mode.meters, used.meters), n, j)
      /\ k = j => MetersFilled(c, MetersWith(mode.meters, used.meters), n, j + 1)
  BY FullIs, MergeMeters DEF Filled
<1> QED
  BY <1>1, <1>2, <1>3 DEF Filled

\* More is asked of a mode that has come further.
LEMMA FilledBefore ==
    ASSUME NEW c, NEW mode, NEW n, NEW j \in Nat \ {0}, NEW i \in Nat \ {0}, i <= j, Filled(c, mode, n, j)
    PROVE  Filled(c, mode, n, i)
<1>1. \A k \in 1 .. i - 1 : k \in 1 .. j - 1
  OBVIOUS
<1> QED
  BY <1>1 DEF Filled, FeedsFilled, MetersFilled

\* A mode as it is parsed.
LEMMA FilledFirst ==
    ASSUME NEW c \in Configs, NEW n \in Names(c), NEW mode,
           {"feeds", "meters"} \subseteq DOMAIN mode,
           mode.feeds = Configured(c, n).feeds, mode.meters = MetersOf(c, n)
    PROVE  Filled(c, mode, n, 1)
<1>1. Configured(c, n) \in ModesOf(c)
  BY ConfiguredIs
<1>2. \A k : k \notin 1 .. 1 - 1
  OBVIOUS
<1>3. FeedsFilled(c, mode.feeds, n, 1)
  <2>1. mode.feeds \in Seq(AllFeeds(c))
    BY <1>1, ModeIs
  <2>2. ToSet(mode.feeds) \subseteq FinalFeeds(c, n)
    BY FinalFeedsAre
  <2> QED
    BY <1>2, <2>1, <2>2 DEF FeedsFilled
<1>4. MetersFilled(c, mode.meters, n, 1)
  <2>1. MetersOf(c, n) = [p \in DOMAIN MetersOf(c, n) |-> MetersOf(c, n)[p]]
    <3> DEFINE hidden == \E s \in DOMAIN c : c[s].hidden /\ Configured(c, n) \in ToSet(c[s].modes)
    <3>1. MetersOf(c, n) = OwnMeters(Configured(c, n), hidden)
      BY DEF MetersOf
    <3> HIDE DEF hidden
    <3>2. Configured(c, n).meters = [p \in DOMAIN Configured(c, n).meters |-> Configured(c, n).meters[p]]
      BY <1>1, ModeIs
    <3>3. OwnMeters(Configured(c, n), hidden) = [p \in DOMAIN OwnMeters(Configured(c, n), hidden) |->
                                                  OwnMeters(Configured(c, n), hidden)[p]]
      BY <3>2, OwnMetersAre
    <3> QED
      BY <3>1, <3>3
  <2>2. \A p \in DOMAIN MetersOf(c, n) : /\ MetersOf(c, n)[p] = FinalMeters(c, n)[p]
                                         /\ p \in DOMAIN FinalMeters(c, n)
    BY OwnWins, FinalMetrics
  <2>3. MetersOf(c, n) = [p \in DOMAIN MetersOf(c, n) |-> FinalMeters(c, n)[p]]
    BY <2>1, <2>2
  <2> QED
    BY <1>2, <2>2, <2>3 DEF MetersFilled
<1> QED
  BY <1>3, <1>4 DEF Filled

-----------------------------------------------------------------------------
(* Parsing *)

\* The ith mode of section s comes before the nth of section se.
Passed(s, i, se, n) == s < se \/ (s = se /\ i < n)

VisibleBefore(c, s) == {t \in 1 .. s - 1 : ~c[t].hidden}

\* The parser is at a mode, or at the end of a section or of the configuration, and
\* counts the sections and modes that have positions.
ParserAt(c, se, n, sn, mn) ==
    /\ se \in 1 .. Len(c) + 1
    /\ n \in Nat \ {0}
    /\ se \in DOMAIN c => n <= Len(c[se].modes) + 1
    /\ sn = Cardinality(VisibleBefore(c, se))
    /\ se \in DOMAIN c => mn = IF c[se].hidden THEN 0 ELSE n - 1

\* The configuration is well-formed up to here.
Sound(c, se, n) ==
    /\ \A s \in DOMAIN c : \A i \in DOMAIN c[s].modes : Passed(s, i, se, n) =>
        /\ c[s].modes[i].name # ""
        /\ ~c[s].hidden => Cardinality(VisibleBefore(c, s)) <= LastKnoba /\ i - 1 <= LastKnobd
    /\ \A s, t \in DOMAIN c : \A i \in DOMAIN c[s].modes : \A j \in DOMAIN c[t].modes :
        /\ Passed(s, i, se, n) /\ Passed(t, j, se, n)
        /\ c[s].modes[i].name = c[t].modes[j].name
        => s = t /\ i = j

ImportsIn(imps, n) == IF n \in DOMAIN imps THEN imps[n] ELSE <<>>

\* The modes have a mode and the imports of m.
MadeOf(modes, imps, m, hidden) ==
    /\ m.name \in DOMAIN modes
    /\ ImportsIn(imps, m.name) = m.imports
    /\ {"feeds", "meters"} \subseteq DOMAIN modes[m.name]
    /\ modes[m.name].feeds = m.feeds
    /\ modes[m.name].meters = OwnMeters(m, hidden)

\* The modes made are those that the parser has passed.
MadeRight(c, se, n, modes, imps) ==
    /\ DOMAIN imps \subseteq DOMAIN modes
    /\ \A name \in DOMAIN modes : \E s \in DOMAIN c : \E i \in DOMAIN c[s].modes :
        Passed(s, i, se, n) /\ c[s].modes[i].name = name
    /\ \A s \in DOMAIN c : \A i \in DOMAIN c[s].modes :
        Passed(s, i, se, n) => MadeOf(modes, imps, c[s].modes[i], c[s].hidden)

ParseRight(c, se, n, sn, mn, modes, imps) ==
    /\ ParserAt(c, se, n, sn, mn)
    /\ Sound(c, se, n)
    /\ MadeRight(c, se, n, modes, imps)

\* Before the first mode.
LEMMA ParseFirst ==
    ASSUME NEW c \in Configs
    PROVE  ParseRight(c, 1, 1, 0, 0, Nothing, Nothing)
<1>1. DOMAIN c = 1 .. Len(c) /\ Len(c) \in Nat
  BY ConfigIs
<1>2. \A s \in DOMAIN c : DOMAIN c[s].modes = 1 .. Len(c[s].modes) /\ Len(c[s].modes) \in Nat
  BY ConfigIs
<1>3. \A s \in DOMAIN c : \A i \in DOMAIN c[s].modes : ~Passed(s, i, 1, 1)
  <2>1. ASSUME NEW s \in DOMAIN c, NEW i \in DOMAIN c[s].modes PROVE s \in Nat \ {0} /\ i \in Nat \ {0}
    BY <1>1, <1>2
  <2> QED
    BY <2>1 DEF Passed
<1>4. VisibleBefore(c, 1) = {}
  BY DEF VisibleBefore
<1>5. ParserAt(c, 1, 1, 0, 0)
  <2>1. 1 \in DOMAIN c => 1 <= Len(c[1].modes) + 1
    BY <1>2
  <2>2. 0 = Cardinality(VisibleBefore(c, 1))
    BY <1>4, FS_EmptySet
  <2> QED
    BY <1>1, <2>1, <2>2 DEF ParserAt
<1> QED
  BY <1>3, <1>5 DEF ParseRight, Sound, MadeRight, Nothing

\* What the checks of a mode ask of one that has a name of its own and a position.
Fine(c, se, n, sn, mn, modes) ==
    /\ c[se].modes[n].name # ""
    /\ c[se].modes[n].name \notin DOMAIN modes
    /\ ~c[se].hidden => sn <= LastKnoba /\ mn <= LastKnobd

\* One mode more.
LEMMA ParseMore ==
    ASSUME NEW c \in Configs, NEW se \in DOMAIN c, NEW n \in DOMAIN c[se].modes,
           NEW sn, NEW mn, NEW modes, NEW imps,
           ParseRight(c, se, n, sn, mn, modes, imps), Fine(c, se, n, sn, mn, modes),
           NEW made, {"feeds", "meters"} \subseteq DOMAIN made,
           made.feeds = c[se].modes[n].feeds,
           made.meters = OwnMeters(c[se].modes[n], c[se].hidden),
           NEW imps2, imps2 = IF c[se].modes[n].imports = <<>> THEN imps
                              ELSE With(imps, c[se].modes[n].name, c[se].modes[n].imports)
    PROVE  ParseRight(c, se, n + 1, sn, IF c[se].hidden THEN mn ELSE mn + 1,
                      With(modes, c[se].modes[n].name, made), imps2)
<1> DEFINE m == c[se].modes[n]
           modes2 == With(modes, m.name, made)
           mn2 == IF c[se].hidden THEN mn ELSE mn + 1
<1>1. /\ DOMAIN c = 1 .. Len(c) /\ Len(c) \in Nat
      /\ \A s \in DOMAIN c : DOMAIN c[s].modes = 1 .. Len(c[s].modes) /\ Len(c[s].modes) \in Nat
  BY ConfigIs
<1>2. /\ \A s \in DOMAIN c : s \in Nat \ {0}
      /\ \A s \in DOMAIN c : \A i \in DOMAIN c[s].modes : i \in Nat \ {0}
      /\ n \in Nat \ {0} /\ n <= Len(c[se].modes)
  <2>1. \A s \in DOMAIN c : s \in Nat \ {0}
    BY <1>1
  <2>2. ASSUME NEW s \in DOMAIN c, NEW i \in DOMAIN c[s].modes PROVE i \in Nat \ {0} /\ i <= Len(c[s].modes)
    BY <1>1
  <2> QED
    BY <2>1, <2>2
<1>3. \A s \in DOMAIN c : \A i \in DOMAIN c[s].modes :
        Passed(s, i, se, n + 1) <=> Passed(s, i, se, n) \/ (s = se /\ i = n)
  BY <1>2 DEF Passed
<1>4. ~Passed(se, n, se, n)
  BY <1>2 DEF Passed
<1>5. /\ DOMAIN modes2 = DOMAIN modes \cup {m.name}
      /\ modes2[m.name] = made
      /\ \A o \in DOMAIN modes : o # m.name => modes2[o] = modes[o]
  BY DEF With
<1>6. ParserAt(c, se, n, sn, mn) /\ Sound(c, se, n) /\ MadeRight(c, se, n, modes, imps)
  BY DEF ParseRight
<1>7. \A s \in DOMAIN c : \A i \in DOMAIN c[s].modes : Passed(s, i, se, n) =>
        c[s].modes[i].name \in DOMAIN modes /\ c[s].modes[i].name # m.name
  BY <1>6 DEF MadeRight, MadeOf, Fine
<1>8. ParserAt(c, se, n + 1, sn, mn2)
  BY <1>1, <1>2, <1>6 DEF ParserAt
<1>9. Sound(c, se, n + 1)
  <2>1. m.name # "" /\ (~c[se].hidden => Cardinality(VisibleBefore(c, se)) <= LastKnoba /\ n - 1 <= LastKnobd)
    BY <1>6 DEF Fine, ParserAt
  <2>2. ASSUME NEW s \in DOMAIN c, NEW i \in DOMAIN c[s].modes, Passed(s, i, se, n + 1)
        PROVE  /\ c[s].modes[i].name # ""
               /\ ~c[s].hidden => Cardinality(VisibleBefore(c, s)) <= LastKnoba /\ i - 1 <= LastKnobd
    <3>1. CASE s = se /\ i = n
      BY <3>1, <2>1
    <3>2. CASE Passed(s, i, se, n)
      BY <3>2, <1>6 DEF Sound
    <3> QED
      BY <2>2, <3>1, <3>2, <1>3
  <2>3. ASSUME NEW s \in DOMAIN c, NEW t \in DOMAIN c, NEW i \in DOMAIN c[s].modes,
               NEW j \in DOMAIN c[t].modes,
               Passed(s, i, se, n + 1), Passed(t, j, se, n + 1),
               c[s].modes[i].name = c[t].modes[j].name
        PROVE  s = t /\ i = j
    <3>1. CASE Passed(s, i, se, n) /\ Passed(t, j, se, n)
      BY <3>1, <2>3, <1>6 DEF Sound
    <3>2. CASE s = se /\ i = n /\ Passed(t, j, se, n)
      BY <3>2, <2>3, <1>7
    <3>3. CASE t = se /\ j = n /\ Passed(s, i, se, n)
      BY <3>3, <2>3, <1>7
    <3>4. CASE s = se /\ i = n /\ t = se /\ j = n
      BY <3>4
    <3> QED
      BY <2>3, <3>1, <3>2, <3>3, <3>4, <1>3
  <2> QED
    BY <2>2, <2>3 DEF Sound
<1>10. /\ DOMAIN imps2 \subseteq DOMAIN modes2
       /\ ImportsIn(imps2, m.name) = m.imports
       /\ \A o : o # m.name => ImportsIn(imps2, o) = ImportsIn(imps, o)
  <2>1. m.name \notin DOMAIN imps /\ DOMAIN imps \subseteq DOMAIN modes
    BY <1>6 DEF MadeRight, Fine
  <2>2. CASE m.imports = <<>>
    BY <2>1, <2>2, <1>5 DEF ImportsIn
  <2>3. CASE m.imports # <<>>
    <3>1. imps2 = With(imps, m.name, m.imports)
      BY <2>3
    <3>2. /\ DOMAIN imps2 = DOMAIN imps \cup {m.name}
          /\ imps2[m.name] = m.imports
          /\ \A o \in DOMAIN imps : o # m.name => imps2[o] = imps[o]
      BY <3>1 DEF With
    <3> HIDE DEF m, modes2
    <3> QED
      BY <2>1, <3>2, <1>5 DEF ImportsIn
  <2> QED
    BY <2>2, <2>3
<1> HIDE DEF modes2, mn2
<1>11. MadeRight(c, se, n + 1, modes2, imps2)
  <2>1. ASSUME NEW o \in DOMAIN modes2
        PROVE  \E s \in DOMAIN c : \E i \in DOMAIN c[s].modes :
                 Passed(s, i, se, n + 1) /\ c[s].modes[i].name = o
    <3>1. CASE o = m.name
      BY <3>1, <1>3
    <3>2. CASE o \in DOMAIN modes
      BY <3>2, <1>3, <1>6 DEF MadeRight
    <3> QED
      BY <3>1, <3>2, <1>5
  <2>2. ASSUME NEW s \in DOMAIN c, NEW i \in DOMAIN c[s].modes, Passed(s, i, se, n + 1)
        PROVE  MadeOf(modes2, imps2, c[s].modes[i], c[s].hidden)
    <3>1. CASE s = se /\ i = n
      BY <3>1, <1>5, <1>10 DEF MadeOf
    <3>2. CASE Passed(s, i, se, n)
      <4>1. MadeOf(modes, imps, c[s].modes[i], c[s].hidden) /\ c[s].modes[i].name # m.name
        BY <3>2, <1>6, <1>7 DEF MadeRight
      <4> QED
        BY <4>1, <1>5, <1>10 DEF MadeOf
    <3> QED
      BY <2>2, <3>1, <3>2, <1>3
  <2> QED
    BY <2>1, <2>2, <1>10 DEF MadeRight
<1>12. ParseRight(c, se, n + 1, sn, mn2, modes2, imps2)
  BY <1>8, <1>9, <1>11 DEF ParseRight
<1> QED
  BY <1>12 DEF mn2, modes2

\* The next section.
LEMMA ParseNext ==
    ASSUME NEW c \in Configs, NEW se \in DOMAIN c, NEW n, n \notin DOMAIN c[se].modes,
           NEW sn, NEW mn, NEW modes, NEW imps,
           ParseRight(c, se, n, sn, mn, modes, imps)
    PROVE  ParseRight(c, se + 1, 1, IF c[se].hidden THEN sn ELSE sn + 1, 0, modes, imps)
<1>1. /\ DOMAIN c = 1 .. Len(c) /\ Len(c) \in Nat
      /\ \A s \in DOMAIN c : DOMAIN c[s].modes = 1 .. Len(c[s].modes) /\ Len(c[s].modes) \in Nat
  BY ConfigIs
<1>2. ParserAt(c, se, n, sn, mn) /\ Sound(c, se, n) /\ MadeRight(c, se, n, modes, imps)
  BY DEF ParseRight
<1>3. n = Len(c[se].modes) + 1
  BY <1>1, <1>2 DEF ParserAt
<1>4. ASSUME NEW s \in DOMAIN c, NEW i \in DOMAIN c[s].modes
      PROVE  Passed(s, i, se + 1, 1) <=> Passed(s, i, se, n)
  <2>1. s \in Nat /\ se \in Nat /\ i \in Nat \ {0} /\ i <= Len(c[s].modes)
    BY <1>1
  <2> QED
    BY <2>1, <1>1, <1>3 DEF Passed
<1>5. (IF c[se].hidden THEN sn ELSE sn + 1) = Cardinality(VisibleBefore(c, se + 1))
  <2>1. se \in Nat \ {0} /\ (se + 1) - 1 = se
    BY <1>1
  <2>2. IsFiniteSet(VisibleBefore(c, se)) /\ se \notin VisibleBefore(c, se)
    <3>1. IsFiniteSet(1 .. se - 1)
      BY <2>1, FS_Interval
    <3>2. VisibleBefore(c, se) \in SUBSET (1 .. se - 1)
      BY DEF VisibleBefore
    <3> QED
      BY <2>1, <3>1, <3>2, FS_Subset
  <2>3. CASE c[se].hidden
    <3>1. VisibleBefore(c, se + 1) = VisibleBefore(c, se)
      BY <2>1, <2>3 DEF VisibleBefore
    <3> QED
      BY <2>3, <3>1, <1>2 DEF ParserAt
  <2>4. CASE ~c[se].hidden
    <3>1. VisibleBefore(c, se + 1) = VisibleBefore(c, se) \cup {se}
      BY <2>1, <2>4 DEF VisibleBefore
    <3> QED
      BY <2>2, <2>4, <3>1, <1>2, FS_AddElement DEF ParserAt
  <2> QED
    BY <2>3, <2>4
<1>6. ParserAt(c, se + 1, 1, IF c[se].hidden THEN sn ELSE sn + 1, 0)
  <2>1. se + 1 \in 1 .. Len(c) + 1
    BY <1>1
  <2>2. se + 1 \in DOMAIN c => 1 <= Len(c[se + 1].modes) + 1
    BY <1>1
  <2> QED
    BY <2>1, <2>2, <1>5 DEF ParserAt
<1>7. Sound(c, se + 1, 1)
  BY <1>2, <1>4 DEF Sound
<1>8. MadeRight(c, se + 1, 1, modes, imps)
  BY <1>2, <1>4 DEF MadeRight
<1> QED
  BY <1>6, <1>7, <1>8 DEF ParseRight

\* What is made of the modes before any import.
Parsed(c, modes, imps) ==
    /\ DOMAIN modes = Names(c)
    /\ DOMAIN imps \subseteq Names(c)
    /\ \A n \in Names(c) : ImportsIn(imps, n) = ImportsOf(c, n)

\* The end of the configuration.
LEMMA ParseOver ==
    ASSUME NEW c \in Configs, NEW se, se \notin DOMAIN c, NEW n,
           NEW sn, NEW mn, NEW modes, NEW imps,
           ParseRight(c, se, n, sn, mn, modes, imps)
    PROVE  /\ WellFormed(c)
           /\ Parsed(c, modes, imps)
           /\ \A o \in Names(c) : Filled(c, modes[o], o, 1)
<1>1. /\ DOMAIN c = 1 .. Len(c) /\ Len(c) \in Nat
      /\ \A s \in DOMAIN c : DOMAIN c[s].modes = 1 .. Len(c[s].modes) /\ Len(c[s].modes) \in Nat
  BY ConfigIs
<1>2. ParserAt(c, se, n, sn, mn) /\ Sound(c, se, n) /\ MadeRight(c, se, n, modes, imps)
  BY DEF ParseRight
<1>3. \A s \in DOMAIN c : s < se
  <2>1. se = Len(c) + 1
    BY <1>1, <1>2 DEF ParserAt
  <2> QED
    BY <2>1, <1>1
<1>4. \A s \in DOMAIN c : \A i \in DOMAIN c[s].modes : Passed(s, i, se, n)
  BY <1>3 DEF Passed
<1>5. \A o \in Names(c) : \E s \in DOMAIN c : \E i \in DOMAIN c[s].modes : c[s].modes[i].name = o
  <2>1. \A o \in Names(c) : \E m \in ModesOf(c) : m.name = o
    BY DEF Names
  <2>2. \A m \in ModesOf(c) : \E s \in DOMAIN c : \E i \in DOMAIN c[s].modes : c[s].modes[i] = m
    BY ConfigIs
  <2> QED
    BY <2>1, <2>2
<1>6. \A s \in DOMAIN c : \A i \in DOMAIN c[s].modes : c[s].modes[i].name \in Names(c)
  BY ConfigIs DEF Names
<1>7. WellFormed(c)
  <2>1. "" \notin Names(c)
    BY <1>2, <1>4, <1>5 DEF Sound
  <2>2. \A s, t \in DOMAIN c : \A i \in DOMAIN c[s].modes : \A j \in DOMAIN c[t].modes :
          c[s].modes[i].name = c[t].modes[j].name => s = t /\ i = j
    BY <1>2, <1>4 DEF Sound
  <2>3. ASSUME NEW s \in DOMAIN c, ~c[s].hidden, c[s].modes # <<>>
        PROVE  /\ Cardinality({t \in 1 .. s - 1 : ~c[t].hidden}) <= LastKnoba
               /\ Len(c[s].modes) - 1 <= LastKnobd
    <3>1. Len(c[s].modes) \in DOMAIN c[s].modes
      <4>1. c[s].modes \in Seq(ToSet(c[s].modes))
        BY ConfigsAssumption
      <4>2. Len(c[s].modes) # 0
        BY <4>1, <2>3
      <4> QED
        BY <4>2, <1>1
    <3>2. Cardinality(VisibleBefore(c, s)) <= LastKnoba /\ Len(c[s].modes) - 1 <= LastKnobd
      BY <3>1, <2>3, <1>2, <1>4 DEF Sound
    <3> QED
      BY <3>2 DEF VisibleBefore
  <2> QED
    BY <2>1, <2>2, <2>3 DEF WellFormed
<1>8. DOMAIN modes = Names(c)
  BY <1>2, <1>4, <1>5, <1>6 DEF MadeRight, MadeOf
<1>9. ASSUME NEW o \in Names(c)
      PROVE  ImportsIn(imps, o) = ImportsOf(c, o) /\ Filled(c, modes[o], o, 1)
  <2>1. PICK s \in DOMAIN c : \E i \in DOMAIN c[s].modes : c[s].modes[i].name = o
    BY <1>5
  <2>2. PICK i \in DOMAIN c[s].modes : c[s].modes[i].name = o
    BY <2>1
  <2>3. c[s].modes[i] \in ModesOf(c)
    BY ConfigIs
  <2>4. Configured(c, o) = c[s].modes[i]
    BY <2>2, <2>3, <1>7, Unique
  <2>5. MadeOf(modes, imps, Configured(c, o), c[s].hidden) /\ Configured(c, o).name = o
    BY <2>2, <2>4, <1>2, <1>4 DEF MadeRight
  <2>6. (\E t \in DOMAIN c : c[t].hidden /\ Configured(c, o) \in ToSet(c[t].modes)) = c[s].hidden
    <3>1. Configured(c, o) \in ToSet(c[s].modes)
      BY <2>4 DEF ToSet
    <3>2. ASSUME NEW t \in DOMAIN c, Configured(c, o) \in ToSet(c[t].modes) PROVE t = s
      <4>1. PICK j \in DOMAIN c[t].modes : c[t].modes[j] = Configured(c, o)
        BY <3>2 DEF ToSet
      <4>2. c[t].modes[j].name = c[s].modes[i].name
        BY <4>1, <2>4
      <4> QED
        BY <4>2, <1>7 DEF WellFormed
    <3>3. c[s].hidden \in BOOLEAN
      BY ConfigIs
    <3> QED
      BY <3>1, <3>2, <3>3
  <2>7. MetersOf(c, o) = OwnMeters(Configured(c, o), c[s].hidden)
    BY <2>6 DEF MetersOf
  <2>8. ImportsIn(imps, o) = ImportsOf(c, o)
    BY <2>5 DEF MadeOf, ImportsOf
  <2>9. /\ {"feeds", "meters"} \subseteq DOMAIN modes[o]
        /\ modes[o].feeds = Configured(c, o).feeds
        /\ modes[o].meters = MetersOf(c, o)
    BY <2>5, <2>7 DEF MadeOf
  <2> QED
    BY <2>8, <2>9, FilledFirst
<1> QED
  BY <1>2, <1>7, <1>8, <1>9 DEF Parsed, MadeRight

\* The checks pass a mode of a well-formed configuration.
LEMMA ParsePasses ==
    ASSUME NEW c \in Configs, WellFormed(c), NEW se \in DOMAIN c, NEW n \in DOMAIN c[se].modes,
           NEW sn, NEW mn, NEW modes, NEW imps,
           ParseRight(c, se, n, sn, mn, modes, imps)
    PROVE  Fine(c, se, n, sn, mn, modes)
<1>1. /\ DOMAIN c = 1 .. Len(c) /\ Len(c) \in Nat
      /\ \A s \in DOMAIN c : DOMAIN c[s].modes = 1 .. Len(c[s].modes) /\ Len(c[s].modes) \in Nat
  BY ConfigIs
<1>2. ParserAt(c, se, n, sn, mn) /\ Sound(c, se, n) /\ MadeRight(c, se, n, modes, imps)
  BY DEF ParseRight
<1>3. c[se].modes[n].name # ""
  <2>1. c[se].modes[n].name \in Names(c)
    BY ConfigIs DEF Names
  <2> QED
    BY <2>1 DEF WellFormed
<1>4. c[se].modes[n].name \notin DOMAIN modes
  <2>1. SUFFICES ASSUME c[se].modes[n].name \in DOMAIN modes PROVE FALSE
    OBVIOUS
  <2>2. PICK s \in DOMAIN c : \E i \in DOMAIN c[s].modes :
               Passed(s, i, se, n) /\ c[s].modes[i].name = c[se].modes[n].name
    BY <2>1, <1>2 DEF MadeRight
  <2>3. PICK i \in DOMAIN c[s].modes : Passed(s, i, se, n) /\ c[s].modes[i].name = c[se].modes[n].name
    BY <2>2
  <2>4. s = se /\ i = n
    BY <2>3 DEF WellFormed
  <2>5. se \in Nat /\ n \in Nat
    BY <1>1
  <2> QED
    BY <2>3, <2>4, <2>5 DEF Passed
<1>5. ASSUME ~c[se].hidden PROVE sn <= LastKnoba /\ mn <= LastKnobd
  <2>1. c[se].modes # <<>>
    BY <1>1
  <2>2. Cardinality(VisibleBefore(c, se)) <= LastKnoba /\ Len(c[se].modes) - 1 <= LastKnobd
    BY <2>1, <1>5 DEF WellFormed, VisibleBefore
  <2>3. sn = Cardinality(VisibleBefore(c, se)) /\ mn = n - 1
    BY <1>2, <1>5 DEF ParserAt
  <2>4. n - 1 <= Len(c[se].modes) - 1 /\ n \in Nat /\ Len(c[se].modes) \in Nat
    BY <1>1
  <2> QED
    BY <2>2, <2>3, <2>4 DEF LastKnobd
<1> QED
  BY <1>3, <1>4, <1>5 DEF Fine

-----------------------------------------------------------------------------
(* The walk *)

\* Modes are filled as far as the walk has come with them.
Filling(c, modes, st) ==
    /\ \A n \in Names(c) : Filled(c, modes[n], n, 1)
    /\ \A l \in 1 .. Len(st) : st[l].name \in Names(c) => Filled(c, modes[st[l].name], st[l].name, st[l].next)

\* The walks from other modes than those left and the root are over.
Walked(c, modes, st, left) ==
    \A n \in Names(c) \ left : (st = <<>> \/ n # st[1].name) => TreeAt(c, n) /\ Full(c, modes[n], n)

WalkRight(c, modes, imps, left, st, sn) ==
    /\ WellFormed(c)
    /\ Parsed(c, modes, imps)
    /\ left \subseteq Names(c)
    /\ Frames(c, st)
    /\ st # <<>> => SeenRight(c, st, sn)
    /\ Filling(c, modes, st)
    /\ Walked(c, modes, st, left)

\* Before any walk.
LEMMA WalkFirst ==
    ASSUME NEW c \in Configs, NEW modes, NEW imps, NEW sn,
           WellFormed(c), Parsed(c, modes, imps),
           \A o \in Names(c) : Filled(c, modes[o], o, 1)
    PROVE  WalkRight(c, modes, imps, DOMAIN modes, <<>>, sn)
<1>1. Frames(c, <<>>)
  BY DEF Frames, FrameTypes
<1>2. Filling(c, modes, <<>>)
  BY DEF Filling
<1>3. Walked(c, modes, <<>>, DOMAIN modes)
  BY DEF Walked, Parsed
<1> QED
  BY <1>1, <1>2, <1>3 DEF WalkRight, Parsed

\* A walk begins.
LEMMA WalkRoot ==
    ASSUME NEW c \in Configs, NEW modes, NEW imps, NEW left, NEW sn, NEW n \in left,
           WalkRight(c, modes, imps, left, <<>>, sn),
           NEW st, st = <<Frame(n)>>
    PROVE  WalkRight(c, modes, imps, left \ {n}, st, {n})
<1>1. n \in Names(c)
  BY DEF WalkRight
<1>2. Frames(c, st) /\ SeenRight(c, st, {n})
  BY <1>1, RootFrame
<1>3. Len(st) = 1 /\ st[1].name = n /\ st[1].next = 1
  BY DEF Frame
<1>4. Filling(c, modes, st)
  BY <1>1, <1>3 DEF Filling, WalkRight
<1>5. Walked(c, modes, st, left \ {n})
  BY <1>3 DEF Walked, WalkRight
<1> QED
  BY <1>2, <1>4, <1>5 DEF WalkRight

\* The frame on top calls for the import n.
CallsFor(imps, f, n) ==
    /\ f.next \in DOMAIN ImportsIn(imps, f.name)
    /\ n = ImportsIn(imps, f.name)[f.next]

\* The imports recorded are those of the configuration.
LEMMA CallIs ==
    ASSUME NEW c \in Configs, NEW modes, NEW imps, Parsed(c, modes, imps),
           NEW f, NEW n, CallsFor(imps, f, n)
    PROVE  /\ f.name \in Names(c)
           /\ f.next \in DOMAIN ImportsOf(c, f.name)
           /\ n = ImportsOf(c, f.name)[f.next]
           /\ n \in Mentioned(c)
<1>1. f.name \in DOMAIN imps
  <2>1. DOMAIN <<>> = {}
    OBVIOUS
  <2> QED
    BY <2>1 DEF CallsFor, ImportsIn
<1>2. f.name \in Names(c) /\ ImportsIn(imps, f.name) = ImportsOf(c, f.name)
  BY <1>1 DEF Parsed
<1>3. f.next \in DOMAIN ImportsOf(c, f.name) /\ n = ImportsOf(c, f.name)[f.next]
  BY <1>2 DEF CallsFor
<1> QED
  BY <1>2, <1>3, ConfiguredIs, MentionedAre

\* The walk goes on with an import that it has not seen.
LEMMA WalkCall ==
    ASSUME NEW c \in Configs, NEW modes, NEW imps, NEW left, NEW sn, NEW st, st # <<>>,
           WalkRight(c, modes, imps, left, st, sn),
           NEW n, CallsFor(imps, st[Len(st)], n), n \notin sn
    PROVE  WalkRight(c, modes, imps, left, Append(st, Frame(n)), sn \cup {n})
<1> DEFINE st2 == Append(st, Frame(n))
<1>1. /\ st[Len(st)].name \in Names(c)
      /\ st[Len(st)].next \in DOMAIN ImportsOf(c, st[Len(st)].name)
      /\ n = ImportsOf(c, st[Len(st)].name)[st[Len(st)].next]
      /\ n \in Mentioned(c)
  BY CallIs DEF WalkRight
<1>2. st \in Seq([name : Mentioned(c), next : Nat \ {0}]) /\ Frames(c, st) /\ SeenRight(c, st, sn)
  BY DEF WalkRight, Frames, FrameTypes
<1>3. PICK d \in Nat \ {0} : d = Len(st)
  BY <1>2, FramesAre
<1>4. Frame(n) \in [name : Mentioned(c), next : Nat \ {0}]
  BY <1>1 DEF Frame
<1>5. st2 \in Seq([name : Mentioned(c), next : Nat \ {0}]) /\ Grown(c, st, st2, n) /\ st2 # <<>>
  <2>1. /\ st2 \in Seq([name : Mentioned(c), next : Nat \ {0}])
        /\ Len(st2) = Len(st) + 1
        /\ \A i \in 1 .. Len(st) : st2[i] = st[i]
        /\ st2[Len(st) + 1] = Frame(n)
        /\ st2 # <<>>
    BY <1>2, <1>4, AppendProperties
  <2> HIDE DEF st2
  <2> QED
    BY <2>1 DEF Grown, Frame
<1> HIDE DEF st2
<1>6. Frames(c, st2)
  BY <1>1, <1>2, <1>5, PushFrames
<1>7. SeenRight(c, st2, sn \cup {n})
  BY <1>2, <1>5, PushSeen
<1>8. /\ Len(st2) = d + 1 /\ \A l \in 1 .. d : st2[l] = st[l]
      /\ st2[d + 1].name = n /\ st2[d + 1].next = 1
  BY <1>3, <1>5 DEF Grown
<1>9. Filling(c, modes, st2)
  <2>1. \A o \in Names(c) : Filled(c, modes[o], o, 1)
    BY DEF WalkRight, Filling
  <2>2. \A l \in 1 .. d : st[l].name \in Names(c) => Filled(c, modes[st[l].name], st[l].name, st[l].next)
    BY <1>3 DEF WalkRight, Filling
  <2>3. \A l \in 1 .. d + 1 : l \in 1 .. d \/ l = d + 1
    OBVIOUS
  <2> QED
    BY <2>1, <2>2, <2>3, <1>8 DEF Filling
<1>10. Walked(c, modes, st2, left)
  <2>1. st2[1] = st[1]
    BY <1>3, <1>8
  <2> QED
    BY <2>1, <1>5 DEF WalkRight, Walked
<1>11. WalkRight(c, modes, imps, left, st2, sn \cup {n})
  BY <1>6, <1>7, <1>9, <1>10 DEF WalkRight
<1> QED
  BY <1>11 DEF st2

\* The frame on top of a stack without those that were called from it.
LEMMA ShrinkIs ==
    ASSUME NEW c, NEW st, Frames(c, st), Len(st) > 1
    PROVE  LET st2 == [Front(st) EXCEPT ![Len(st) - 1].next = @ + 1]
           IN  st2 \in Seq([name : Mentioned(c), next : Nat \ {0}]) /\ Shrunk(st, st2)
<1> DEFINE F == [name : Mentioned(c), next : Nat \ {0}]
           front == Front(st)
           st2 == [front EXCEPT ![Len(st) - 1].next = @ + 1]
<1>1. st \in Seq(F)
  BY DEF Frames, FrameTypes
<1>2. PICK d \in Nat \ {0} : d = Len(st) - 1 /\ Len(st) = d + 1
  BY FramesAre
<1>3. front \in Seq(F) /\ Len(front) = d /\ \A l \in 1 .. d : front[l] = st[l]
  <2>1. \A l \in 1 .. d : st[l] \in F
    <3>1. \A l \in 1 .. d : l \in 1 .. Len(st)
      BY <1>2
    <3> HIDE DEF F
    <3> QED
      BY <1>1, <3>1, ElementOfSeq
  <2>2. front = SubSeq(st, 1, d)
    BY <1>2 DEF Front
  <2>3. /\ SubSeq(st, 1, d) \in Seq(F)
        /\ Len(SubSeq(st, 1, d)) = IF 1 <= d THEN d - 1 + 1 ELSE 0
        /\ \A l \in 1 .. d - 1 + 1 : SubSeq(st, 1, d)[l] = st[1 + l - 1]
    <3> HIDE DEF F
    <3> QED
      BY <2>1, SubSeqProperties
  <2>4. \A l \in 1 .. d : l \in 1 .. d - 1 + 1 /\ 1 + l - 1 = l
    OBVIOUS
  <2>5. 1 <= d /\ d - 1 + 1 = d
    OBVIOUS
  <2> HIDE DEF F
  <2> QED
    BY <2>2, <2>3, <2>4, <2>5
<1> HIDE DEF front
<1>4. st[d].name \in Mentioned(c) /\ st[d].next \in Nat \ {0}
      /\ st[d] = [name |-> st[d].name, next |-> st[d].next]
  BY <1>2, FramesAre
<1>5. DOMAIN front = 1 .. d
  BY <1>3
<1>6. st2 = [l \in 1 .. d |-> IF l = d THEN [front[d] EXCEPT !.next = @ + 1] ELSE front[l]]
  BY <1>2, <1>5
<1>7. [front[d] EXCEPT !.next = @ + 1] = [name |-> st[d].name, next |-> st[d].next + 1]
  <2>1. front[d] = [name |-> st[d].name, next |-> st[d].next]
    BY <1>3, <1>4
  <2> QED
    BY <2>1
<1>8. /\ DOMAIN st2 = 1 .. d
      /\ \A l \in 1 .. d - 1 : st2[l] = st[l]
      /\ st2[d] = [name |-> st[d].name, next |-> st[d].next + 1]
  BY <1>3, <1>6, <1>7
<1>9. \A l \in 1 .. d : st2[l] \in F
  <2>1. \A l \in 1 .. d : l = d \/ l \in 1 .. d - 1
    OBVIOUS
  <2>2. \A l \in 1 .. d : front[l] \in F
    <3> HIDE DEF F
    <3> QED
      BY <1>3, ElementOfSeq
  <2>3. [name |-> st[d].name, next |-> st[d].next + 1] \in F
    BY <1>4
  <2> QED
    BY <2>1, <2>2, <2>3, <1>6, <1>7
<1>10. st2 = [l \in 1 .. d |-> st2[l]]
  BY <1>6
<1> HIDE DEF st2, F
<1>11. st2 \in Seq(F) /\ Len(st2) = d
  BY <1>8, <1>9, <1>10
<1>12. Shrunk(st, st2)
  BY <1>2, <1>8, <1>11 DEF Shrunk
<1> QED
  BY <1>11, <1>12 DEF st2, F, front

\* Frames are those of different modes.
LEMMA NamesApart ==
    ASSUME NEW c, NEW st, Frames(c, st), NEW sn, SeenRight(c, st, sn),
           NEW l \in 1 .. Len(st), NEW m \in 1 .. Len(st), st[l].name = st[m].name
    PROVE  l = m
<1>1. 0 \in 0 .. st[l].next - 1 /\ 0 \in 0 .. st[m].next - 1
  BY FramesAre
<1>2. st[l].name \in Piece(c, st[l], 0) /\ st[l].name \in Piece(c, st[m], 0)
  BY DEF Piece
<1> QED
  BY <1>1, <1>2 DEF SeenRight, Apart

\* The frame has no import left.
Through(imps, f) == f.next \notin DOMAIN ImportsIn(imps, f.name)

\* Which is the end of what is configured.
LEMMA ThroughIsEnd ==
    ASSUME NEW c, NEW modes, NEW imps, Parsed(c, modes, imps), NEW f, Through(imps, f), f.name \in Names(c)
    PROVE  AtEnd(c, f)
BY DEF Parsed, Through, AtEnd

\* A frame at its end has filled its mode.
LEMMA EndFull ==
    ASSUME NEW c \in Configs, NEW modes, NEW imps, NEW left, NEW sn, NEW st,
           WalkRight(c, modes, imps, left, st, sn),
           NEW l \in 1 .. Len(st), AtEnd(c, st[l])
    PROVE  Full(c, modes[st[l].name], st[l].name)
<1>1. Within(c, st[l]) /\ st[l].next \in Nat \ {0}
  BY FramesAre DEF WalkRight, Frames
<1>2. st[l].next = Len(ImportsOf(c, st[l].name)) + 1
  BY <1>1, EndReached
<1>3. Filled(c, modes[st[l].name], st[l].name, st[l].next)
  BY DEF WalkRight, Filling, AtEnd
<1> QED
  BY <1>2, <1>3 DEF Full

\* The walk of an import is over: its caller takes its feeds and meters.
LEMMA WalkBack ==
    ASSUME NEW c \in Configs, NEW modes, NEW imps, NEW left, NEW sn, NEW st, Len(st) > 1,
           WalkRight(c, modes, imps, left, st, sn),
           Through(imps, st[Len(st)]), st[Len(st)].name \in DOMAIN modes,
           NEW n, n = st[Len(st) - 1].name,
           NEW modes2, modes2 = [modes EXCEPT ![n] = Merged(@, modes[st[Len(st)].name])],
           NEW st2 \in Seq([name : Mentioned(c), next : Nat \ {0}]), Shrunk(st, st2)
    PROVE  WalkRight(c, modes2, imps, left, st2, sn)
<1>1. PICK d \in Nat \ {0} : d = Len(st) - 1 /\ Len(st) = d + 1
  <2>1. Len(st) \in Nat
    BY FramesAre DEF WalkRight
  <2>2. Len(st) - 1 \in Nat \ {0} /\ Len(st) = (Len(st) - 1) + 1
    BY <2>1
  <2> QED
    BY <2>2
<1>2. /\ Frames(c, st) /\ SeenRight(c, st, sn) /\ Parsed(c, modes, imps)
      /\ DOMAIN modes = Names(c)
  BY <1>1 DEF WalkRight, Parsed
<1>3. AtEnd(c, st[d + 1])
  BY <1>1, <1>2, ThroughIsEnd
<1>5. Frames(c, st2) /\ SeenRight(c, st2, sn)
  BY <1>1, <1>2, <1>3, PopFrames, PopSeen
<1>6. /\ Len(st2) = d
      /\ \A l \in 1 .. d - 1 : st2[l] = st[l]
      /\ st2[d].name = st[d].name /\ st2[d].next = st[d].next + 1
  BY <1>1 DEF Shrunk
<1> DEFINE i == st[d + 1].name
           used == modes[i]
           k == st[d].next
<1>7. /\ n = st[d].name /\ n \in Names(c)
      /\ k \in DOMAIN ImportsOf(c, n) /\ i = ImportsOf(c, n)[k] /\ i \in Names(c)
  <2>1. Calls(c, st[d], st[d + 1])
    BY <1>1, <1>2 DEF Frames
  <2> QED
    BY <2>1, <1>1, <1>2 DEF Calls
<1>8. Full(c, used, i)
  BY <1>1, <1>3, EndFull
<1>9. /\ DOMAIN modes2 = Names(c)
      /\ modes2[n] = Merged(modes[n], used)
      /\ \A o \in Names(c) : o # n => modes2[o] = modes[o]
  BY <1>1, <1>2, <1>7
<1>10. k \in Nat \ {0}
  BY <1>1, <1>2, FramesAre
<1> HIDE DEF used, i, k
<1>11. \A j \in Nat \ {0} : k <= j /\ Filled(c, modes[n], n, j) =>
         /\ Filled(c, modes2[n], n, j)
         /\ k = j => Filled(c, modes2[n], n, j + 1)
  BY <1>7, <1>8, <1>9, MergeFills
<1>12. Filled(c, modes2[n], n, k + 1)
  <2>1. Filled(c, modes[n], n, k)
    BY <1>1, <1>7 DEF WalkRight, Filling, k
  <2> QED
    BY <2>1, <1>10, <1>11
<1>13. Filling(c, modes2, st2)
  <2>1. ASSUME NEW o \in Names(c) PROVE Filled(c, modes2[o], o, 1)
    <3>1. CASE o = n
      <4>1. 1 <= k + 1 /\ k + 1 \in Nat \ {0}
        BY <1>10
      <4> QED
        BY <3>1, <4>1, <1>12, FilledBefore
    <3>2. CASE o # n
      BY <3>2, <1>9 DEF WalkRight, Filling
    <3> QED
      BY <3>1, <3>2
  <2>2. ASSUME NEW l \in 1 .. d, st2[l].name \in Names(c)
        PROVE  Filled(c, modes2[st2[l].name], st2[l].name, st2[l].next)
    <3>1. CASE l = d
      BY <3>1, <1>6, <1>7, <1>12 DEF k
    <3>2. CASE l \in 1 .. d - 1
      <4>1. l \in 1 .. Len(st) /\ d \in 1 .. Len(st) /\ l # d
        BY <1>1, <3>2
      <4>2. st[l].name # n
        BY <4>1, <1>2, <1>7, NamesApart
      <4>3. st2[l] = st[l]
        BY <3>2, <1>6
      <4>4. Filled(c, modes[st[l].name], st[l].name, st[l].next)
        BY <4>1, <4>3, <2>2 DEF WalkRight, Filling
      <4> QED
        BY <4>2, <4>3, <4>4, <2>2, <1>9
    <3> QED
      BY <3>1, <3>2
  <2> QED
    BY <2>1, <2>2, <1>6 DEF Filling
<1>14. Walked(c, modes2, st2, left)
  <2>1. st2[1].name = st[1].name /\ st # <<>> /\ st2 # <<>>
    <3>1. Len(st2) # 0 /\ Len(st) # 0
      BY <1>1, <1>6
    <3>2. st # <<>> /\ st2 # <<>>
      BY <3>1, <1>2, <1>5, FramesAre
    <3>3. CASE d = 1
      BY <3>2, <3>3, <1>6
    <3>4. CASE d # 1
      <4>1. 1 \in 1 .. d - 1
        BY <3>4
      <4> QED
        BY <4>1, <3>2, <1>6
    <3> QED
      BY <3>3, <3>4
  <2>2. ASSUME NEW o \in Names(c) \ left, o # st2[1].name
        PROVE  TreeAt(c, o) /\ Full(c, modes2[o], o)
    <3>1. TreeAt(c, o) /\ Full(c, modes[o], o)
      BY <2>1, <2>2 DEF WalkRight, Walked
    <3>2. CASE o # n
      BY <3>1, <3>2, <1>9
    <3>3. CASE o = n
      <4>1. /\ DOMAIN ImportsOf(c, n) = 1 .. Len(ImportsOf(c, n))
            /\ Len(ImportsOf(c, n)) \in Nat
        BY <1>7, ConfiguredIs
      <4>2. k <= Len(ImportsOf(c, n)) + 1 /\ Len(ImportsOf(c, n)) + 1 \in Nat \ {0}
        BY <4>1, <1>7
      <4> QED
        BY <3>1, <3>3, <4>2, <1>11 DEF Full
    <3> QED
      BY <3>2, <3>3
  <2> QED
    BY <2>1, <2>2 DEF Walked
<1>15. Parsed(c, modes2, imps)
  BY <1>2, <1>9 DEF Parsed
<1> QED
  BY <1>5, <1>13, <1>14, <1>15 DEF WalkRight

\* The walk from a mode is over.
LEMMA WalkDone ==
    ASSUME NEW c \in Configs, NEW modes, NEW imps, NEW left, NEW sn, NEW st, Len(st) = 1,
           WalkRight(c, modes, imps, left, st, sn), Through(imps, st[1])
    PROVE  WalkRight(c, modes, imps, left, <<>>, sn)
<1>1. /\ Frames(c, st) /\ SeenRight(c, st, sn) /\ Parsed(c, modes, imps) /\ st # <<>>
  BY FramesAre DEF WalkRight
<1>2. st[1].name \in Names(c)
  BY <1>1 DEF Frames, FrameTypes
<1>3. AtEnd(c, st[1])
  BY <1>1, <1>2, ThroughIsEnd
<1>4. TreeAt(c, st[1].name)
  BY <1>1, <1>3, RootTree
<1>5. Full(c, modes[st[1].name], st[1].name)
  BY <1>3, EndFull
<1>6. Walked(c, modes, <<>>, left)
  BY <1>1, <1>4, <1>5 DEF WalkRight, Walked
<1>7. Frames(c, <<>>)
  BY DEF Frames, FrameTypes
<1>8. Filling(c, modes, <<>>)
  BY DEF WalkRight, Filling
<1> QED
  BY <1>6, <1>7, <1>8 DEF WalkRight

\* When there is no mode left to walk from.
LEMMA WalkOver ==
    ASSUME NEW c \in Configs, NEW modes, NEW imps, NEW sn,
           WalkRight(c, modes, imps, {}, <<>>, sn)
    PROVE  /\ DOMAIN modes = Names(c)
           /\ \A n \in Names(c) : Full(c, modes[n], n) /\ modes[n].meters = FinalMeters(c, n)
           /\ WellFormed(c) /\ ImportTrees(c)
<1>1. WellFormed(c) /\ DOMAIN modes = Names(c)
  BY DEF WalkRight, Parsed
<1>2. \A n \in Names(c) : TreeAt(c, n) /\ Full(c, modes[n], n)
  BY DEF WalkRight, Walked
<1>3. ImportTrees(c)
  BY <1>1, <1>2, TreesAre
<1>4. \A n \in Names(c) : modes[n].meters = FinalMeters(c, n)
  BY <1>2, FullIs
<1> QED
  BY <1>1, <1>2, <1>3, <1>4

\* The modes have what they will have in the end.
Results(c, modes) == DOMAIN modes = Names(c) /\ \A n \in Names(c) : Full(c, modes[n], n)

\* What is true of makeModes where it is, as long as no check has failed.
Sane ==
    /\ making \in {"off", "parse"} =>
        /\ stack = <<>>
        /\ ParseRight(cfg, sec, nth, sectionNum, modeNum, nameToMode, nameToImports)
    /\ making = "walk" => WalkRight(cfg, nameToMode, nameToImports, todo, stack, seen)
    /\ making = "made" => Acceptable(cfg) /\ Results(cfg, nameToMode)

VerdictInv ==
    /\ cfg \in Configs
    /\ making \in {"off", "parse", "walk", "made", "dead"}
    /\ main \notin {"spawned", "select"} => Off
    /\ Acceptable(cfg) => ~Refused
    /\ ~Refused => Sane

\* The checks pass what is fine.
LEMMA ValidIsFine ==
    ASSUME NEW m, m = cfg[sec].modes[nth]
    PROVE  Valid(m, cfg[sec].hidden) <=> Fine(cfg, sec, nth, sectionNum, modeNum, nameToMode)
BY DEF Valid, Fine

\* Before the first mode.
LEMMA OffIsSane ==
    ASSUME Off, cfg \in Configs
    PROVE  Sane /\ ~Refused
<1>1. ParseRight(cfg, 1, 1, 0, 0, Nothing, Nothing)
  BY ParseFirst
<1> QED
  BY <1>1 DEF Off, Sane, Refused

\* One lemma per action of makeModes: a mode is parsed, or refused.
LEMMA ParseModeSane ==
    ASSUME cfg \in Configs, ~Refused, Sane, ParseMode
    PROVE  (Acceptable(cfg) => ~Refused') /\ (~Refused' => Sane')
<1> DEFINE m == cfg[sec].modes[nth]
           hidden == cfg[sec].hidden
           made == NewMode(m, hidden, sectionNum, modeNum)
<1>1. /\ making = "parse" /\ ~asked
      /\ sec \in DOMAIN cfg /\ nth \in DOMAIN cfg[sec].modes
      /\ stack = <<>>
      /\ ParseRight(cfg, sec, nth, sectionNum, modeNum, nameToMode, nameToImports)
  BY DEF ParseMode, Sane, Refused
<1>2. WellFormed(cfg) => Valid(m, hidden)
  BY <1>1, ParsePasses, ValidIsFine
<1>3. Valid(m, hidden) => ~Refused'
  BY <1>1 DEF ParseMode, Passes, Panics, Refused
<1>4. ASSUME ~Refused' PROVE Sane'
  <2>1. /\ Valid(m, hidden)
        /\ nameToMode' = With(nameToMode, m.name, made)
        /\ nameToImports' = IF m.imports = <<>> THEN nameToImports
                            ELSE With(nameToImports, m.name, m.imports)
        /\ modeNum' = IF hidden THEN modeNum ELSE modeNum + 1
        /\ nth' = nth + 1
        /\ UNCHANGED <<cfg, making, sec, sectionNum, stack>>
    BY <1>4 DEF ParseMode, Passes, Panics, Refused, walkVars
  <2>2. /\ {"feeds", "meters"} \subseteq DOMAIN made
        /\ made.feeds = m.feeds /\ made.meters = OwnMeters(m, hidden)
    BY DEF NewMode
  <2>3. Fine(cfg, sec, nth, sectionNum, modeNum, nameToMode)
    BY <2>1, ValidIsFine
  <2> HIDE DEF made
  <2>4. ParseRight(cfg, sec, nth + 1, sectionNum, IF hidden THEN modeNum ELSE modeNum + 1,
                   With(nameToMode, m.name, made),
                   IF m.imports = <<>> THEN nameToImports ELSE With(nameToImports, m.name, m.imports))
    BY <1>1, <2>2, <2>3, ParseMore
  <2>5. ParseRight(cfg, sec, nth, sectionNum, modeNum, nameToMode, nameToImports)'
    BY <2>1, <2>4
  <2> QED
    BY <1>1, <2>1, <2>5 DEF Sane
<1> QED
  BY <1>2, <1>3, <1>4 DEF Acceptable

\* The end of a section.
LEMMA NextSectionSane ==
    ASSUME cfg \in Configs, ~Refused, Sane, NextSection
    PROVE  ~Refused' /\ Sane'
<1>1. /\ making = "parse" /\ ~asked
      /\ sec \in DOMAIN cfg /\ nth \notin DOMAIN cfg[sec].modes
      /\ stack = <<>>
      /\ ParseRight(cfg, sec, nth, sectionNum, modeNum, nameToMode, nameToImports)
  BY DEF NextSection, Sane, Refused
<1>2. /\ sectionNum' = IF cfg[sec].hidden THEN sectionNum ELSE sectionNum + 1
      /\ sec' = sec + 1 /\ nth' = 1 /\ modeNum' = 0
      /\ UNCHANGED <<cfg, making, nameToMode, nameToImports, stack, asked>>
  BY DEF NextSection, walkVars
<1>3. ParseRight(cfg, sec + 1, 1, IF cfg[sec].hidden THEN sectionNum ELSE sectionNum + 1, 0,
                 nameToMode, nameToImports)
  BY <1>1, ParseNext
<1>4. ParseRight(cfg, sec, nth, sectionNum, modeNum, nameToMode, nameToImports)'
  BY <1>2, <1>3
<1> QED
  BY <1>1, <1>2, <1>4 DEF Sane, Refused

\* The end of the configuration.
LEMMA ParseEndsSane ==
    ASSUME cfg \in Configs, ~Refused, Sane, ParseEnds
    PROVE  ~Refused' /\ Sane'
<1>1. /\ making = "parse" /\ ~asked /\ sec \notin DOMAIN cfg /\ stack = <<>>
      /\ ParseRight(cfg, sec, nth, sectionNum, modeNum, nameToMode, nameToImports)
  BY DEF ParseEnds, Sane, Refused
<1>2. /\ making' = "walk" /\ todo' = DOMAIN nameToMode
      /\ UNCHANGED <<cfg, nameToMode, nameToImports, stack, seen, asked>>
  BY DEF ParseEnds, parseVars
<1>3. WalkRight(cfg, nameToMode, nameToImports, DOMAIN nameToMode, <<>>, seen)
  BY <1>1, ParseOver, WalkFirst
<1>4. WalkRight(cfg, nameToMode, nameToImports, todo, stack, seen)'
  BY <1>1, <1>2, <1>3
<1> QED
  BY <1>1, <1>2, <1>4 DEF Sane, Refused

\* A walk begins.
LEMMA WalkFromSane ==
    ASSUME cfg \in Configs, ~Refused, Sane, NEW n \in todo, WalkFrom(n)
    PROVE  ~Refused' /\ Sane'
<1>1. /\ making = "walk" /\ ~asked
      /\ WalkRight(cfg, nameToMode, nameToImports, todo, <<>>, seen)
  BY DEF WalkFrom, Sane, Refused
<1>2. /\ todo' = todo \ {n} /\ stack' = <<Frame(n)>> /\ seen' = {n}
      /\ UNCHANGED <<cfg, making, nameToMode, nameToImports, asked>>
  BY DEF WalkFrom, parseVars
<1>3. WalkRight(cfg, nameToMode, nameToImports, todo \ {n}, <<Frame(n)>>, {n})
  BY <1>1, WalkRoot
<1>4. WalkRight(cfg, nameToMode, nameToImports, todo, stack, seen)'
  BY <1>2, <1>3
<1> QED
  BY <1>1, <1>2, <1>4 DEF Sane, Refused

\* On a tree, the next import is a mode that has not been seen.
LEMMA NextIsNew ==
    ASSUME cfg \in Configs, ImportTrees(cfg), stack # <<>>,
           WalkRight(cfg, nameToMode, nameToImports, todo, stack, seen),
           NEW n, CallsFor(nameToImports, Top, n)
    PROVE  n \in Names(cfg) /\ n \notin seen /\ Top.name \in Names(cfg)
<1>1. /\ WellFormed(cfg) /\ Frames(cfg, stack) /\ SeenRight(cfg, stack, seen)
      /\ Parsed(cfg, nameToMode, nameToImports)
  BY DEF WalkRight
<1>2. /\ Top.name \in Names(cfg)
      /\ Top.next \in DOMAIN ImportsOf(cfg, Top.name)
      /\ n = ImportsOf(cfg, Top.name)[Top.next]
  BY <1>1, CallIs
<1>3. \A m \in Names(cfg) : TreeAt(cfg, m)
  BY <1>1, TreesAre
<1>4. n \notin seen
  BY <1>1, <1>2, <1>3, NotSeen DEF Top
<1>5. n \in Names(cfg)
  BY <1>2, <1>3 DEF TreeAt, ToSet
<1> QED
  BY <1>2, <1>4, <1>5

\* The walk comes to an import, or to a name again.
LEMMA WalkImportSane ==
    ASSUME cfg \in Configs, ~Refused, Sane, WalkImport
    PROVE  (Acceptable(cfg) => ~Refused') /\ (~Refused' => Sane')
<1> DEFINE n == Imports(Top.name)[Top.next]
<1>1. /\ making = "walk" /\ ~asked /\ stack # <<>>
      /\ WalkRight(cfg, nameToMode, nameToImports, todo, stack, seen)
  BY DEF WalkImport, Sane, Refused
<1>2. CallsFor(nameToImports, Top, n)
  BY DEF WalkImport, CallsFor, Imports, ImportsIn
<1>3. Unseen(n) => ~Refused'
  BY <1>1 DEF WalkImport, Passes, Panics, Refused
<1>4. Acceptable(cfg) => Unseen(n)
  <2> HIDE DEF n
  <2> QED
    BY <1>1, <1>2, NextIsNew DEF Acceptable, Unseen
<1>5. ASSUME ~Refused' PROVE Sane'
  <2>1. /\ n \notin seen /\ seen' = seen \cup {n} /\ stack' = Append(stack, Frame(n))
        /\ UNCHANGED <<cfg, making, nameToMode, nameToImports, todo>>
    BY <1>5 DEF WalkImport, Passes, Panics, Refused, Unseen, parseVars
  <2> HIDE DEF n
  <2>2. WalkRight(cfg, nameToMode, nameToImports, todo, Append(stack, Frame(n)), seen \cup {n})
    BY <1>1, <1>2, <2>1, WalkCall DEF Top
  <2>3. WalkRight(cfg, nameToMode, nameToImports, todo, stack, seen)'
    BY <2>1, <2>2
  <2> QED
    BY <1>1, <2>1, <2>3 DEF Sane
<1> QED
  BY <1>3, <1>4, <1>5

\* No stack overflows on a tree.
LEMMA OverflowRefuses ==
    ASSUME cfg \in Configs, ~Refused, Sane, StackOverflow
    PROVE  ~Acceptable(cfg) /\ Refused'
<1> DEFINE n == Imports(Top.name)[Top.next]
<1>1. /\ making = "walk" /\ Len(stack) = MaxDepth
      /\ WalkRight(cfg, nameToMode, nameToImports, todo, stack, seen)
  BY DEF StackOverflow, Sane, Refused, Depth
<1>2. stack # <<>>
  BY <1>1, ConfigsAssumption
<1>3. CallsFor(nameToImports, Top, n)
  BY DEF StackOverflow, CallsFor, Imports, ImportsIn
<1>4. ASSUME Acceptable(cfg) PROVE FALSE
  <2> HIDE DEF n
  <2>1. n \in Names(cfg) /\ n \notin seen /\ Top.name \in Names(cfg)
    BY <1>1, <1>2, <1>3, <1>4, NextIsNew DEF Acceptable
  <2>2. Frames(cfg, stack) /\ SeenRight(cfg, stack, seen)
    BY <1>1, <1>2 DEF WalkRight
  <2>3. Len(stack) < MaxDepth
    BY <1>2, <2>1, <2>2, StackFits DEF Top
  <2> QED
    BY <1>1, <2>3, ConfigsAssumption
<1> QED
  BY <1>4 DEF StackOverflow, Refused

\* The walk from a mode is over.
LEMMA WalkEndsSane ==
    ASSUME cfg \in Configs, ~Refused, Sane, WalkEnds
    PROVE  ~Refused' /\ Sane'
<1>1. /\ making = "walk" /\ ~asked /\ Len(stack) = 1
      /\ WalkRight(cfg, nameToMode, nameToImports, todo, stack, seen)
  BY DEF WalkEnds, Sane, Refused, Depth
<1>2. Through(nameToImports, stack[1])
  BY <1>1 DEF WalkEnds, Through, Top, Imports, ImportsIn
<1>3. /\ stack' = <<>>
      /\ UNCHANGED <<cfg, making, nameToMode, nameToImports, todo, seen, asked>>
  BY DEF WalkEnds, parseVars
<1>4. WalkRight(cfg, nameToMode, nameToImports, todo, <<>>, seen)
  BY <1>1, <1>2, WalkDone
<1>5. WalkRight(cfg, nameToMode, nameToImports, todo, stack, seen)'
  BY <1>3, <1>4
<1> QED
  BY <1>1, <1>3, <1>5 DEF Sane, Refused

\* The walk from an import is over.
LEMMA ImportSane ==
    ASSUME cfg \in Configs, ~Refused, Sane, Import
    PROVE  ~Refused' /\ Sane'
<1> DEFINE n == stack[Len(stack) - 1].name
           modes2 == [nameToMode EXCEPT ![n] = Merged(@, nameToMode[stack[Len(stack)].name])]
           stack2 == [Front(stack) EXCEPT ![Len(stack) - 1].next = @ + 1]
<1>1. /\ making = "walk" /\ ~asked /\ Len(stack) > 1
      /\ WalkRight(cfg, nameToMode, nameToImports, todo, stack, seen)
  BY DEF Import, Sane, Refused, Depth
<1>2. Through(nameToImports, stack[Len(stack)]) /\ stack[Len(stack)].name \in DOMAIN nameToMode
  BY DEF Import, Through, Top, Imports, ImportsIn
<1>3. /\ nameToMode' = modes2 /\ stack' = stack2
      /\ UNCHANGED <<cfg, making, nameToImports, todo, seen, asked>>
  BY DEF Import, Depth, Top, parseVars
<1>4. stack2 \in Seq([name : Mentioned(cfg), next : Nat \ {0}]) /\ Shrunk(stack, stack2)
  BY <1>1, ShrinkIs DEF WalkRight
<1> HIDE DEF stack2
<1>5. WalkRight(cfg, modes2, nameToImports, todo, stack2, seen)
  BY <1>1, <1>2, <1>4, WalkBack
<1> HIDE DEF modes2
<1>6. WalkRight(cfg, nameToMode, nameToImports, todo, stack, seen)'
  BY <1>3, <1>5
<1> QED
  BY <1>1, <1>3, <1>6 DEF Sane, Refused

\* The imports of a tree are modes.
LEMMA UnknownRefuses ==
    ASSUME cfg \in Configs, ~Refused, Sane, ImportUnknown
    PROVE  ~Acceptable(cfg) /\ Refused'
<1>1. /\ making = "walk" /\ Len(stack) > 1
      /\ WalkRight(cfg, nameToMode, nameToImports, todo, stack, seen)
      /\ stack[Len(stack)].name \notin DOMAIN nameToMode
  BY DEF ImportUnknown, Sane, Refused, Depth, Top
<1>2. WellFormed(cfg) /\ Frames(cfg, stack) /\ DOMAIN nameToMode = Names(cfg)
  BY <1>1 DEF WalkRight, Parsed
<1>3. PICK d \in Nat \ {0} : d = Len(stack) - 1 /\ Len(stack) = d + 1
  <2>1. Len(stack) \in Nat
    BY <1>2, FramesAre
  <2>2. Len(stack) - 1 \in Nat \ {0} /\ Len(stack) = (Len(stack) - 1) + 1
    BY <1>1, <2>1
  <2> QED
    BY <2>2
<1>4. Calls(cfg, stack[d], stack[d + 1])
  BY <1>2, <1>3 DEF Frames
<1>5. ASSUME ImportTrees(cfg) PROVE FALSE
  <2>1. TreeAt(cfg, stack[d].name)
    BY <1>2, <1>4, <1>5, TreesAre DEF Calls
  <2>2. stack[d + 1].name \in Names(cfg)
    BY <1>4, <2>1 DEF Calls, TreeAt, ToSet
  <2> QED
    BY <1>1, <1>2, <1>3, <2>2
<1> QED
  BY <1>5 DEF ImportUnknown, Refused, Acceptable

\* All walks are over, and LEDs have one meter or more.
LEMMA CheckLedsSane ==
    ASSUME cfg \in Configs, ~Refused, Sane, CheckLeds
    PROVE  (Acceptable(cfg) => ~Refused') /\ (~Refused' => Sane')
<1> DEFINE distinct == \A n \in DOMAIN nameToMode : Distinct(nameToMode[n].meters)
<1>1. /\ making = "walk" /\ ~asked
      /\ WalkRight(cfg, nameToMode, nameToImports, {}, <<>>, seen)
  BY DEF CheckLeds, Sane, Refused
<1>2. /\ DOMAIN nameToMode = Names(cfg)
      /\ \A n \in Names(cfg) : /\ Full(cfg, nameToMode[n], n)
                               /\ nameToMode[n].meters = FinalMeters(cfg, n)
      /\ WellFormed(cfg) /\ ImportTrees(cfg)
  BY <1>1, WalkOver
<1>3. distinct <=> Acceptable(cfg)
  BY <1>2 DEF Acceptable
<1>4. distinct => ~Refused'
  <2> HIDE DEF distinct
  <2>1. (Passes(distinct) /\ making' = "made") \/ Panics(distinct)
    BY DEF CheckLeds, distinct
  <2> QED
    BY <1>1, <2>1 DEF Passes, Panics, Refused
<1>5. ASSUME ~Refused' PROVE Sane'
  <2> HIDE DEF distinct
  <2>1. \/ Passes(distinct) /\ making' = "made" /\ UNCHANGED <<cfg, nameToMode>>
        \/ Panics(distinct)
    BY DEF CheckLeds, distinct
  <2>2. distinct /\ making' = "made" /\ UNCHANGED <<cfg, nameToMode>>
    BY <1>5, <2>1 DEF Passes, Panics, Refused
  <2>3. Results(cfg, nameToMode) /\ Acceptable(cfg)
    BY <1>2, <1>3, <2>2 DEF Results
  <2>4. (Acceptable(cfg) /\ Results(cfg, nameToMode))'
    BY <2>2, <2>3
  <2> QED
    BY <2>2, <2>4 DEF Sane
<1> QED
  BY <1>3, <1>4, <1>5

\* A step of makeModes: a check that fails is one of a configuration that is not
\* acceptable, and without one the modes are as they should be so far.
LEMMA MakeModesSane ==
    ASSUME cfg \in Configs, ~Refused, Sane, makeModes
    PROVE  (Acceptable(cfg) => ~Refused') /\ (~Refused' => Sane')
<1>1. CASE ParseMode
  BY <1>1, ParseModeSane
<1>2. CASE NextSection
  BY <1>2, NextSectionSane
<1>3. CASE ParseEnds
  BY <1>3, ParseEndsSane
<1>4. CASE \E n \in todo : WalkFrom(n)
  BY <1>4, WalkFromSane
<1>5. CASE WalkImport
  BY <1>5, WalkImportSane
<1>6. CASE StackOverflow
  BY <1>6, OverflowRefuses
<1>7. CASE WalkEnds
  BY <1>7, WalkEndsSane
<1>8. CASE Import
  BY <1>8, ImportSane
<1>9. CASE ImportUnknown
  BY <1>9, UnknownRefuses
<1>10. CASE CheckLeds
  BY <1>10, CheckLedsSane
<1> QED
  BY <1>1, <1>2, <1>3, <1>4, <1>5, <1>6, <1>7, <1>8, <1>9, <1>10 DEF makeModes

\* The configuration stays, and makeModes goes through its stages.
LEMMA MakeModesStays ==
    ASSUME makeModes, making \in {"off", "parse", "walk", "made", "dead"}
    PROVE  /\ UNCHANGED cfg
           /\ making' \in {"off", "parse", "walk", "made", "dead"}
<1>1. CASE ParseMode
  BY <1>1 DEF ParseMode, Panics
<1>2. CASE NextSection \/ ParseEnds
  BY <1>2 DEF NextSection, ParseEnds
<1>3. CASE \E n \in todo : WalkFrom(n)
  BY <1>3 DEF WalkFrom
<1>4. CASE WalkImport
  BY <1>4 DEF WalkImport, Panics
<1>5. CASE StackOverflow \/ WalkEnds \/ Import \/ ImportUnknown
  BY <1>5 DEF StackOverflow, WalkEnds, Import, ImportUnknown
<1>6. CASE CheckLeds
  BY <1>6 DEF CheckLeds, Panics
<1> QED
  BY <1>1, <1>2, <1>3, <1>4, <1>5, <1>6 DEF makeModes

LEMMA VerdictInit == Init => VerdictInv
BY OffIsSane DEF Init, VerdictInv, Off

\* Where nothing is made yet, any configuration will do.
LEMMA OffIsVerdict ==
    ASSUME Off', cfg' \in Configs
    PROVE  VerdictInv'
<1>1. ParseRight(cfg', 1, 1, 0, 0, Nothing, Nothing)
  BY ParseFirst
<1>2. ParseRight(cfg, sec, nth, sectionNum, modeNum, nameToMode, nameToImports)'
  BY <1>1 DEF Off
<1>3. Sane' /\ ~Refused'
  BY <1>2 DEF Off, Sane, Refused
<1> QED
  BY <1>3 DEF VerdictInv, Off

LEMMA VerdictStep ==
    ASSUME VerdictInv, [Next]_vars
    PROVE  VerdictInv'
<1>1. CASE MakeModes
  <2>1. /\ makeModes /\ cfg \in Configs /\ UNCHANGED <<main, cfg>> /\ main \in {"spawned", "select"}
        /\ making' \in {"off", "parse", "walk", "made", "dead"}
    BY <1>1, MakeModesStays DEF MakeModes, mainVars, VerdictInv
  <2>2. (Acceptable(cfg) => ~Refused') /\ (~Refused' => Sane')
    BY <2>1, MakeModesSane, RefusedStays DEF VerdictInv
  <2> QED
    BY <2>1, <2>2 DEF VerdictInv
<1>2. CASE Stat
  <2>1. Off' /\ (cfg \in Configs)'
    BY <1>2 DEF Stat, VerdictInv, Off, parseVars, walkVars
  <2> QED
    BY <2>1, OffIsVerdict
<1>3. CASE GoEventLoop
  <2>1. cfg \in Configs /\ Off /\ ~Refused /\ Sane /\ making = "off"
    BY <1>3, OffIsSane DEF GoEventLoop, VerdictInv, Off
  <2>2. /\ making' = "parse" /\ main' = "spawned"
        /\ UNCHANGED <<cfg, parseVars, nameToMode, stack, asked>>
    BY <1>3 DEF GoEventLoop, walkVars
  <2>3. ParseRight(cfg, sec, nth, sectionNum, modeNum, nameToMode, nameToImports) /\ stack = <<>>
    BY <2>1 DEF Sane
  <2>4. ParseRight(cfg, sec, nth, sectionNum, modeNum, nameToMode, nameToImports)'
    BY <2>2, <2>3 DEF parseVars
  <2>5. Sane' /\ ~Refused'
    BY <2>1, <2>2, <2>3, <2>4 DEF Sane, Refused
  <2> QED
    BY <2>1, <2>2, <2>5 DEF VerdictInv
<1>4. CASE Return \/ EndsAtOnce
  <2>1. Off' /\ (cfg \in Configs)'
    BY <1>4 DEF Return, EndsAtOnce, Clear, Off, VerdictInv
  <2> QED
    BY <2>1, OffIsVerdict
<1>5. CASE Create \/ StartFails \/ SetExitHook \/ Other \/ RemoveLock \/ UNCHANGED vars
  <2>1. /\ UNCHANGED <<cfg, making, parseVars, nameToMode, walkVars, asked>>
        /\ main' \notin {"spawned", "select"} => main \notin {"spawned", "select"} /\ UNCHANGED hook
    BY <1>5 DEF Create, StartFails, SetExitHook, Other, OtherStat, OtherCreate, OtherReturns,
        OtherDies, RemoveLock, modesVars, vars, mainVars
  <2>2. /\ Refused' = Refused
        /\ main' \notin {"spawned", "select"} => (Off => Off')
    BY <2>1 DEF Refused, Off, parseVars, walkVars
  <2>3. Sane => Sane'
    BY <2>1 DEF Sane, parseVars, walkVars
  <2> QED
    BY <2>1, <2>2, <2>3 DEF VerdictInv
<1> QED
  BY <1>1, <1>2, <1>3, <1>4, <1>5 DEF Next, Main, ExitAsked, ExitByUser, Dies, Killed

\* A configuration is accepted when its names, positions, imports and LEDs are
\* sound, and refused otherwise, whatever order the modes are walked in and
\* whenever the exit hook is set (mode.go:178-216).
THEOREM VerdictCorrect == Spec => []VerdictRight
<1>1. VerdictInv /\ [Next]_vars => VerdictInv'
  BY VerdictStep
<1>2. VerdictInv => VerdictRight
  BY DEF VerdictInv, VerdictRight, Accepted, Refused, Sane
<1> QED
  BY VerdictInit, <1>1, <1>2, PTL DEF Spec

\* An accepted configuration has modes that are full.
LEMMA SaneIsApplied == VerdictInv => ImportsApplied
<1> SUFFICES ASSUME VerdictInv, Accepted, NEW n \in DOMAIN nameToMode
             PROVE  /\ ToSet(nameToMode[n].feeds) = FinalFeeds(cfg, n)
                    /\ nameToMode[n].meters = FinalMeters(cfg, n)
  BY DEF ImportsApplied
<1>1. cfg \in Configs /\ Results(cfg, nameToMode)
  BY DEF VerdictInv, Sane, Accepted, Refused
<1> QED
  BY <1>1, FullIs DEF Results

\* The modes of an accepted configuration have the feeds of all they import,
\* directly or not, and the meters that overriding by name and order gives them,
\* whatever order the modes are walked in (mode.go:183-194).
THEOREM ImportsCorrect == Spec => []ImportsApplied
<1>1. VerdictInv /\ [Next]_vars => VerdictInv'
  BY VerdictStep
<1> QED
  BY VerdictInit, <1>1, SaneIsApplied, PTL DEF Spec
=============================================================================
