-------------------------- MODULE EventLoop_proofs --------------------------
(***************************************************************************)
(* Theorems about the event loop, for every configuration that makeModes   *)
(* accepts and every number of modes, controls and feeds.                  *)
(*                                                                         *)
(* The invariants TypeOK, KnobsNameBase, RememberedPositions and           *)
(* EntryEditsBase hold together as NavInv; the refinement of Panel and     *)
(* FeedsMatchMode rest on it.  The changes of mode come down to two        *)
(* operators, `to` and `back`, so each proof treats the actions through    *)
(* the lemma NextCases, which says what a step does to the navigation.     *)
(*                                                                         *)
(* The levels mode comes last: the conversions between levels and          *)
(* percents, then LevelsInv, which says of every setting kept that it is   *)
(* at rest or that its save is the only one on its way.                    *)
(***************************************************************************)
EXTENDS EventLoop, Levels, SequenceTheorems, TLAPS

\* modeForKnobs returns nil or the mode at the position asked for.
LEMMA ModeForKnobsResult ==
    ASSUME NEW ka, NEW kd,
           modeForKnobs(ka, kd) # NoMode
    PROVE  /\ modeForKnobs(ka, kd) \in Modes
           /\ KnobaOf[modeForKnobs(ka, kd)] = ka
           /\ KnobdOf[modeForKnobs(ka, kd)] = kd
  BY Zenon DEF modeForKnobs

\* It returns nil only where no mode sits.
LEMMA ModeForKnobsFinds ==
    ASSUME NEW m \in Modes
    PROVE  modeForKnobs(KnobaOf[m], KnobdOf[m]) # NoMode
  <1>1. /\ modeForKnobs(KnobaOf[m], KnobdOf[m])
            = CHOOSE n \in Modes : KnobaOf[n] = KnobaOf[m] /\ KnobdOf[n] = KnobdOf[m]
        /\ \E n \in Modes : KnobaOf[n] = KnobaOf[m] /\ KnobdOf[n] = KnobdOf[m]
    BY Zenon DEF modeForKnobs
  <1>2. modeForKnobs(KnobaOf[m], KnobdOf[m]) \in Modes
    BY <1>1, Zenon
  <1> QED
    BY <1>2, ModesAssumption, Zenon DEF NoMode

\* No configured mode is a system mode, nil, or a name the panel uses.
LEMMA Names ==
    /\ NoMode \notin Modes
    /\ NoMode \notin SystemModes
    /\ \A m \in Modes : m \notin SystemModes /\ m # "none" /\ m # "nobody"
    /\ entryMode # testMode /\ entryMode # levelsMode /\ testMode # levelsMode
  BY ModesAssumption DEF NoMode, SystemModes, testMode, levelsMode, entryMode

-----------------------------------------------------------------------------
(* What a step does to the navigation *)

\* A system mode is laid over a configured mode.
Cover(s) ==
    /\ curMode \notin SystemModes
    /\ s \in SystemModes
    /\ curMode' = s
    /\ prevMode' = curMode
    /\ modeParam' = IF s = entryMode THEN curMode ELSE modeParam
    /\ UNCHANGED <<knoba, knobd, knobaToKnobd>>

\* The system mode is left.
Uncover ==
    /\ curMode \in SystemModes
    /\ curMode' = prevMode
    /\ UNCHANGED <<prevMode, knoba, knobd, knobaToKnobd, modeParam>>

\* A knob selects another configured mode.
Move(ka, kd) ==
    /\ curMode \notin SystemModes
    /\ ka \in 0 .. 7 /\ kd \in 0 .. 3
    /\ \/ ka = knoba /\ kd \in {knobd - 1, knobd + 1}
       \/ ka \in {knoba - 1, knoba + 1}
    /\ modeForKnobs(ka, kd) # NoMode
    /\ curMode' = modeForKnobs(ka, kd)
    /\ prevMode' = curMode
    /\ knoba' = ka
    /\ knobd' = kd
    /\ knobaToKnobd' = [knobaToKnobd EXCEPT ![ka] = kd]
    /\ UNCHANGED modeParam

\* What selectMode does to the rest of the state, and to it alone.
Shown == selectMode(curMode') /\ evt' = NoEvent

\* Every step either leaves the navigation alone, or covers, uncovers or moves.
LEMMA NextCases ==
    ASSUME TypeOK, [Next]_vars
    PROVE  \/ UNCHANGED <<navVars, feedVars>> /\ (loop' = loop \/ curMode = testMode)
              /\ loop' \in {loop, "run", "off"} /\ (loop' # loop => loop = "run")
           \/ loop = "run" /\ Shown /\ (\E s \in SystemModes : Cover(s))
           \/ loop = "run" /\ Shown /\ Uncover
           \/ loop = "run" /\ Shown /\ (\E ka \in 0 .. 7, kd \in 0 .. 3 : Move(ka, kd))
  <1> USE DEF navVars, feedVars
  <1>1. CASE UNCHANGED vars
    BY <1>1 DEF vars
  <1>2. CASE Receive
    BY <1>2 DEF Receive
  <1>3. CASE TestHandler
    <2>1. CASE back
      BY <1>3, <2>1 DEF TestHandler, Handling, back, selectMode, Shown, Uncover, SystemModes
    <2>2. CASE ~back
      BY <1>3, <2>2 DEF TestHandler, Handling, Swallowed
    <2> QED
      BY <2>1, <2>2
  <1>4. CASE LevelsHandler
    BY <1>4 DEF LevelsHandler, Handling, back, selectMode, Shown, Uncover, SystemModes, Swallowed
  <1>5. CASE EntryHandler
    BY <1>5 DEF EntryHandler, Handling, back, selectMode, Shown, Uncover, SystemModes, Swallowed
  <1>6. CASE ControlHandler
    BY <1>6 DEF ControlHandler, Swallowed
  <1>7. CASE SelectTest
    <2>1. Shown /\ Cover(testMode)
      BY <1>7, Names DEF SelectTest, Handling, ReachesLoop, to, selectMode, Shown, Cover, SystemModes
    <2> QED
      BY <1>7, <2>1 DEF SelectTest, Handling, SystemModes
  <1>8. CASE SelectEntry
    <2>1. Shown /\ Cover(entryMode)
      BY <1>8, Names DEF SelectEntry, Handling, ReachesLoop, to, selectMode, Shown, Cover, SystemModes
    <2> QED
      BY <1>8, <2>1 DEF SelectEntry, Handling, SystemModes
  <1>9. CASE SelectLevels
    <2>1. Shown /\ Cover(levelsMode)
      BY <1>9, Names DEF SelectLevels, Handling, ReachesLoop, to, selectMode, Shown, Cover, SystemModes
    <2> QED
      BY <1>9, <2>1 DEF SelectLevels, Handling, SystemModes
  <1>10. CASE TurnKnoba
    <2> DEFINE ka == knoba + Click
               kd == knobaToKnobd[ka]
    <2>1. CASE ka \in 0 .. 7 /\ modeForKnobs(ka, kd) # NoMode /\ modeForKnobs(ka, kd) # curMode
      <3>1. kd \in 0 .. 3
        BY <2>1 DEF TypeOK
      <3>2. ka \in {knoba - 1, knoba + 1}
        BY DEF Click, TypeOK
      <3>3. MoveKnobs(ka, kd, modeForKnobs(ka, kd)) /\ ReachesLoop /\ Handling({"KNOBA"})
        BY <1>10, <2>1 DEF TurnKnoba
      <3>4. Shown /\ Move(ka, kd) /\ loop = "run"
        BY <2>1, <3>1, <3>2, <3>3
           DEF MoveKnobs, Handling, ReachesLoop, to, selectMode, Shown, Move
      <3> QED
        BY <2>1, <3>1, <3>4
    <2>2. CASE ~(ka \in 0 .. 7 /\ modeForKnobs(ka, kd) # NoMode /\ modeForKnobs(ka, kd) # curMode)
      BY <1>10, <2>2 DEF TurnKnoba, MoveKnobs, Swallowed
    <2> QED
      BY <2>1, <2>2
  <1>11. CASE TurnKnobd
    <2> DEFINE kd == knobd + Click
    <2>1. CASE kd \in 0 .. 3 /\ modeForKnobs(knoba, kd) # NoMode /\ modeForKnobs(knoba, kd) # curMode
      <3>1. kd \in {knobd - 1, knobd + 1} /\ knoba \in 0 .. 7
        BY DEF Click, TypeOK
      <3>2. MoveKnobs(knoba, kd, modeForKnobs(knoba, kd)) /\ ReachesLoop /\ Handling({"KNOBD"})
        BY <1>11, <2>1 DEF TurnKnobd
      <3>3. Shown /\ Move(knoba, kd) /\ loop = "run"
        BY <2>1, <3>1, <3>2
           DEF MoveKnobs, Handling, ReachesLoop, to, selectMode, Shown, Move
      <3> QED
        BY <2>1, <3>1, <3>3
    <2>2. CASE ~(kd \in 0 .. 3 /\ modeForKnobs(knoba, kd) # NoMode /\ modeForKnobs(knoba, kd) # curMode)
      BY <1>11, <2>2 DEF TurnKnobd, MoveKnobs, Swallowed
    <2> QED
      BY <2>1, <2>2
  <1>12. CASE NoCase
    BY <1>12 DEF NoCase, Swallowed
  <1>13. CASE \E m \in ControlModes : Control(m)
    BY <1>13 DEF Control, Launched, LaunchFailed, Died
  <1> QED
    BY <1>1, <1>2, <1>3, <1>4, <1>5, <1>6, <1>7, <1>8, <1>9, <1>10, <1>11, <1>12, <1>13 DEF Next

-----------------------------------------------------------------------------
(* The navigation invariant *)

NavInv == TypeOK /\ KnobsNameBase /\ RememberedPositions /\ EntryEditsBase

\* The occurrences of a feed in a mode are a natural number.
LEMMA FeedCountNat ==
    ASSUME NEW m, NEW f \in TickingFeeds
    PROVE  FeedCount(m, f) \in Nat
  BY ModesAssumption DEF FeedCount

\* Switching feeds keeps the goroutine counts natural and the statuses known.
LEMMA SwitchFeedsType ==
    ASSUME TypeOK, NEW old, NEW new, SwitchFeeds(old, new)
    PROVE  /\ feedGo' \in [TickingFeeds -> Nat]
           /\ listening' \in BOOLEAN
           /\ loop' \in {loop, "blocked"}
  <1> DEFINE stops == Stops(old, new)
             starts == Starts(old, new)
             hanging == {f \in TickingFeeds : stops[f] > feedGo[f]}
  <1>1. \A f \in TickingFeeds : stops[f] \in Nat /\ starts[f] \in Nat /\ feedGo[f] \in Nat
    BY FeedCountNat DEF Stops, Starts, TypeOK
  <1> HIDE DEF stops, starts
  <1>2. CASE /\ hanging = {}
             /\ feedGo' = [f \in TickingFeeds |-> feedGo[f] - stops[f] + starts[f]]
             /\ listening' \in {listening, TRUE}
             /\ loop' = loop
    <2>1. \A f \in TickingFeeds : feedGo[f] - stops[f] + starts[f] \in Nat
      BY <1>1, <1>2
    <2> QED
      BY <1>2, <2>1 DEF TypeOK
  <1>3. ASSUME NEW h \in hanging, NEW done \in SUBSET (TickingFeeds \ hanging),
               feedGo' = [f \in TickingFeeds |->
                            IF f = h THEN 0
                            ELSE IF f \in done THEN feedGo[f] - stops[f] ELSE feedGo[f]],
               listening' = listening,
               loop' = "blocked"
        PROVE  /\ feedGo' \in [TickingFeeds -> Nat]
               /\ listening' \in BOOLEAN
               /\ loop' \in {loop, "blocked"}
    <2>1. \A f \in done : feedGo[f] - stops[f] \in Nat
      BY <1>1
    <2> QED
      BY <1>1, <1>3, <2>1 DEF TypeOK
  <1>4. \/ /\ hanging = {}
           /\ feedGo' = [f \in TickingFeeds |-> feedGo[f] - stops[f] + starts[f]]
           /\ listening' \in {listening, TRUE}
           /\ loop' = loop
        \/ \E h \in hanging : \E done \in SUBSET (TickingFeeds \ hanging) :
           /\ feedGo' = [f \in TickingFeeds |->
                            IF f = h THEN 0
                            ELSE IF f \in done THEN feedGo[f] - stops[f] ELSE feedGo[f]]
           /\ listening' = listening
           /\ loop' = "blocked"
    BY DEF SwitchFeeds, stops, starts
  <1> QED
    BY <1>2, <1>3, <1>4, Zenon

\* The event loop starts in a state that satisfies the invariant.
LEMMA NavInit == Init => NavInv
  <1> SUFFICES ASSUME Init PROVE NavInv
    OBVIOUS
  <1>1. PICK m0 \in Modes : KnobaOf[m0] = 0 /\ KnobdOf[m0] = 0
    BY PositionsAssumption
  <1>2. modeForKnobs(0, 0) # NoMode
    BY <1>1, ModeForKnobsFinds
  <1>3. curMode \in Modes /\ KnobaOf[curMode] = 0 /\ KnobdOf[curMode] = 0
    BY <1>2, ModeForKnobsResult DEF Init
  <1>4. curMode \notin SystemModes
    BY <1>3, Names
  <1>5. TypeOK
    <2>1. feedGo \in [TickingFeeds -> Nat]
      BY FeedCountNat DEF Init
    <2>2. listening \in BOOLEAN
      BY DEF Init
    <2> QED
      BY <1>3, <2>1, <2>2 DEF Init, TypeOK
  <1>6. KnobsNameBase
    BY <1>3, <1>4 DEF Init, KnobsNameBase, Base
  <1>7. RememberedPositions
    <2> SUFFICES ASSUME NEW ka \in 0 .. 7, NEW m \in Modes, KnobaOf[m] = ka
                 PROVE  modeForKnobs(ka, knobaToKnobd[ka]) # NoMode
      BY DEF RememberedPositions
    <2>1. PICK n \in Modes : KnobaOf[n] = ka /\ KnobdOf[n] = 0
      BY PositionsAssumption DEF Positioned, FirstInSection
    <2> QED
      BY <2>1, ModeForKnobsFinds DEF Init
  <1>8. EntryEditsBase
    BY <1>4 DEF EntryEditsBase, SystemModes
  <1> QED
    BY <1>5, <1>6, <1>7, <1>8 DEF NavInv

\* Every step keeps the types.
LEMMA TypeStep == NavInv /\ [Next]_vars => TypeOK'
  <1> SUFFICES ASSUME NavInv, [Next]_vars PROVE TypeOK'
    OBVIOUS
  <1> USE DEF NavInv
  <1>1. evt' \in Events \cup {NoEvent}
    BY DEF Next, vars, TypeOK, Receive, TestHandler, LevelsHandler, EntryHandler, ControlHandler,
           SelectTest, SelectEntry, SelectLevels, TurnKnoba, TurnKnobd, NoCase, Handling,
           Control, Launched, LaunchFailed, Died
  <1>2. started' \in [ControlModes -> BOOLEAN] /\ launching' \subseteq ControlModes
    <2>1. CASE Shown
      BY <2>1 DEF Shown, selectMode, TypeOK
    <2>2. CASE UNCHANGED vars
      BY <2>2 DEF vars, TypeOK
    <2>3. CASE \E m \in ControlModes : Control(m)
      BY <2>3 DEF Control, Launched, LaunchFailed, Died, TypeOK
    <2>4. CASE UNCHANGED <<started, launching>>
      BY <2>4 DEF TypeOK
    <2>5. Shown \/ UNCHANGED vars \/ (\E m \in ControlModes : Control(m))
            \/ UNCHANGED <<started, launching>>
      <3>1. CASE TestHandler
        <4>1. CASE back
          BY <3>1, <4>1 DEF TestHandler, Handling, back, selectMode, Shown
        <4> QED
          BY <3>1, <4>1 DEF TestHandler, Swallowed
      <3>2. CASE LevelsHandler \/ EntryHandler \/ ControlHandler
        BY <3>2 DEF LevelsHandler, EntryHandler, ControlHandler, Handling, back, selectMode,
                    Shown, Swallowed
      <3>3. CASE SelectTest \/ SelectEntry \/ SelectLevels
        BY <3>3 DEF SelectTest, SelectEntry, SelectLevels, Handling, to, selectMode, Shown
      <3>4. CASE TurnKnoba \/ TurnKnobd
        BY <3>4 DEF TurnKnoba, TurnKnobd, MoveKnobs, Handling, to, selectMode, Shown, Swallowed
      <3>5. CASE Receive \/ NoCase
        BY <3>5 DEF Receive, NoCase, Swallowed
      <3> QED
        BY <3>1, <3>2, <3>3, <3>4, <3>5 DEF Next
    <2> QED
      BY <2>1, <2>2, <2>3, <2>4, <2>5
  <1>3. /\ feedGo' \in [TickingFeeds -> Nat]
        /\ listening' \in BOOLEAN
        /\ loop' \in {"run", "blocked", "off"}
    <2>1. CASE Shown
      BY <2>1, SwitchFeedsType DEF Shown, selectMode, TypeOK
    <2>2. CASE UNCHANGED feedVars /\ loop' \in {loop, "run", "off"}
      BY <2>2 DEF feedVars, TypeOK
    <2> QED
      BY <2>1, <2>2, NextCases DEF feedVars
  <1>4. /\ curMode' \in Modes \cup SystemModes
        /\ prevMode' \in Modes \cup {NoMode}
        /\ knoba' \in 0 .. 7
        /\ knobd' \in 0 .. 3
        /\ knobaToKnobd' \in [0 .. 7 -> 0 .. 3]
        /\ modeParam' \in Modes \cup {NoMode}
    <2>1. CASE UNCHANGED navVars
      BY <2>1 DEF navVars, TypeOK
    <2>2. CASE \E s \in SystemModes : Cover(s)
      BY <2>2 DEF Cover, TypeOK
    <2>3. CASE Uncover
      BY <2>3 DEF Uncover, TypeOK, KnobsNameBase, Base
    <2>4. ASSUME NEW ka \in 0 .. 7, NEW kd \in 0 .. 3, Move(ka, kd)
          PROVE  /\ curMode' \in Modes
                 /\ prevMode' \in Modes
                 /\ knoba' \in 0 .. 7
                 /\ knobd' \in 0 .. 3
                 /\ knobaToKnobd' \in [0 .. 7 -> 0 .. 3]
                 /\ modeParam' = modeParam
      BY <2>4, ModeForKnobsResult DEF Move, TypeOK
    <2> QED
      BY <2>1, <2>2, <2>3, <2>4, NextCases DEF TypeOK, navVars
  <1> QED
    BY <1>1, <1>2, <1>3, <1>4 DEF TypeOK

\* Every step keeps the knobs, the memory of the knobs and data entry in order.
LEMMA NavStep == NavInv /\ [Next]_vars => NavInv'
  <1> SUFFICES ASSUME NavInv, [Next]_vars PROVE NavInv'
    OBVIOUS
  <1> USE DEF NavInv
  <1>1. TypeOK'
    BY TypeStep
  <1>2. CASE UNCHANGED navVars
    BY <1>1, <1>2 DEF navVars, KnobsNameBase, Base, RememberedPositions, EntryEditsBase
  <1>3. ASSUME NEW s \in SystemModes, Cover(s) PROVE NavInv'
    <2>1. KnobsNameBase'
      BY <1>3 DEF Cover, KnobsNameBase, Base
    <2>2. RememberedPositions'
      BY <1>3 DEF Cover, RememberedPositions
    <2>3. EntryEditsBase'
      BY <1>3 DEF Cover, EntryEditsBase, KnobsNameBase, Base
    <2> QED
      BY <1>1, <2>1, <2>2, <2>3
  <1>4. CASE Uncover
    <2>1. prevMode \in Modes /\ prevMode \notin SystemModes
      BY <1>4, Names DEF Uncover, KnobsNameBase, Base
    <2>2. KnobsNameBase'
      BY <1>4, <2>1 DEF Uncover, KnobsNameBase, Base
    <2>3. RememberedPositions'
      BY <1>4 DEF Uncover, RememberedPositions
    <2>4. EntryEditsBase'
      BY <1>4, <2>1 DEF Uncover, EntryEditsBase, SystemModes
    <2> QED
      BY <1>1, <2>2, <2>3, <2>4
  <1>5. ASSUME NEW ka \in 0 .. 7, NEW kd \in 0 .. 3, Move(ka, kd) PROVE NavInv'
    <2>1. curMode' \in Modes /\ KnobaOf[curMode'] = ka /\ KnobdOf[curMode'] = kd
      BY <1>5, ModeForKnobsResult DEF Move
    <2>2. curMode' \notin SystemModes
      BY <2>1, Names
    <2>3. KnobsNameBase'
      BY <1>5, <2>1, <2>2 DEF Move, KnobsNameBase, Base, TypeOK
    <2>4. RememberedPositions'
      <3> SUFFICES ASSUME NEW k \in 0 .. 7, \E m \in Modes : KnobaOf[m] = k
                   PROVE  modeForKnobs(k, knobaToKnobd'[k]) # NoMode
        BY DEF RememberedPositions, modeForKnobs
      <3>1. CASE k = ka
        BY <1>5, <3>1 DEF Move, TypeOK
      <3>2. CASE k # ka
        <4>1. knobaToKnobd'[k] = knobaToKnobd[k]
          BY <1>5, <3>2 DEF Move, TypeOK
        <4> QED
          BY <4>1 DEF RememberedPositions
      <3> QED
        BY <3>1, <3>2
    <2>5. EntryEditsBase'
      BY <2>2 DEF EntryEditsBase, SystemModes
    <2> QED
      BY <1>1, <2>3, <2>4, <2>5
  <1> QED
    BY <1>2, <1>3, <1>4, <1>5, NextCases

LEMMA NavInvariant == Spec => []NavInv
  BY NavInit, NavStep, PTL DEF Spec

\* The types hold in every reachable state: no switch of modes ever shows nil.
THEOREM TypeCorrect == Spec => []TypeOK
  BY NavInvariant, PTL DEF NavInv

\* The knob positions always name the selected mode.
THEOREM KnobsAlwaysNameBase == Spec => []KnobsNameBase
  BY NavInvariant, PTL DEF NavInv

\* A section that has modes is always entered at one of them.
THEOREM SectionsAlwaysEntered == Spec => []RememberedPositions
  BY NavInvariant, PTL DEF NavInv

\* Data entry always edits the mode it covers.
THEOREM EntryAlwaysEditsBase == Spec => []EntryEditsBase
  BY NavInvariant, PTL DEF NavInv

-----------------------------------------------------------------------------
(* The event loop implements the panel *)

\* The loop starts as the panel does.
LEMMA PanelInit == Init => panel!Init
  <1> SUFFICES ASSUME Init PROVE panel!Init
    OBVIOUS
  <1>1. NavInv
    BY NavInit
  <1>2. curMode \notin SystemModes
    BY <1>1, Names DEF NavInv, TypeOK, Init, KnobsNameBase, Base
  <1>3. Base = curMode /\ Base \in Modes /\ KnobaOf[Base] = 0 /\ KnobdOf[Base] = 0
    BY <1>1, <1>2 DEF NavInv, KnobsNameBase, Base, Init
  <1> QED
    BY <1>2, <1>3 DEF panel!Init, panel!NoOverlay, panel!NoEdit, Init, SystemModes

\* A switch of modes leaves the program on.
LEMMA ShownStaysOn ==
    ASSUME TypeOK, loop = "run", Shown
    PROVE  loop' # "off"
  BY SwitchFeedsType DEF Shown, selectMode

\* Every step of the loop is a step of the panel, or changes nothing in it.
LEMMA PanelStep == NavInv /\ NavInv' /\ [Next]_vars => [panel!Next]_panel!panelVars
  <1> SUFFICES ASSUME NavInv, NavInv', [Next]_vars
               PROVE  [panel!Next]_panel!panelVars
    OBVIOUS
  <1> USE DEF NavInv
  <1>1. CASE UNCHANGED navVars /\ loop' = loop
    BY <1>1 DEF navVars, Base, panel!panelVars
  <1>2. CASE UNCHANGED navVars /\ loop' # loop /\ loop = "run" /\ loop' = "off" /\ curMode = testMode
    BY <1>2, Names DEF navVars, Base, panel!Next, panel!End, testMode, SystemModes
  <1>3. ASSUME NEW s \in SystemModes, Cover(s), Shown, loop = "run"
        PROVE  panel!Open(s) /\ s \in panel!Overlays
    <2>1. loop' # "off"
      BY <1>3, ShownStaysOn
    <2> QED
      BY <1>3, <2>1, Names
         DEF Cover, Base, panel!Open, panel!Overlays, panel!NoOverlay, panel!NoEdit,
             SystemModes, testMode, levelsMode, entryMode
  <1>4. ASSUME Uncover, Shown, loop = "run"
        PROVE  panel!Close
    <2>1. loop' # "off"
      BY <1>4, ShownStaysOn
    <2>2. prevMode \in Modes /\ prevMode \notin SystemModes
      BY <1>4, Names DEF Uncover, KnobsNameBase, Base
    <2> QED
      BY <1>4, <2>1, <2>2
         DEF Uncover, Base, panel!Close, panel!NoOverlay, panel!NoEdit,
             SystemModes, testMode, levelsMode, entryMode
  <1>5. ASSUME NEW ka \in 0 .. 7, NEW kd \in 0 .. 3, Move(ka, kd), Shown, loop = "run"
        PROVE  panel!Turn
    <2>1. loop' # "off"
      BY <1>5, ShownStaysOn
    <2>2. curMode' \in Modes /\ KnobaOf[curMode'] = ka /\ KnobdOf[curMode'] = kd
      BY <1>5, ModeForKnobsResult DEF Move
    <2>3. Base = curMode /\ Base' = curMode' /\ curMode' \notin SystemModes
      BY <1>5, <2>2, Names DEF Move, Base
    <2>4. panel!OneClick(Base, Base')
      BY <1>5, <2>2, <2>3 DEF Move, panel!OneClick, KnobsNameBase, TypeOK
    <2>5. curMode # entryMode /\ curMode' # entryMode /\ curMode \notin SystemModes
      BY <1>5, <2>3 DEF Move, SystemModes
    <2> QED
      BY <1>5, <2>1, <2>2, <2>3, <2>4, <2>5 DEF panel!Turn, panel!NoOverlay
  <1> QED
    BY <1>1, <1>2, <1>3, <1>4, <1>5, NextCases DEF panel!Next

\* The event loop implements the panel: system modes only ever cover the
\* selected mode, and the knobs move it one click at a time.
THEOREM ImplementsPanel == Spec => PanelSpec
  BY PanelInit, PanelStep, NavInvariant, PTL DEF Spec, PanelSpec, panel!Spec

-----------------------------------------------------------------------------
(* Feeds *)

FeedInv == NavInv /\ FeedsMatchMode

\* Between two modes that list no feed twice, a switch stops exactly the
\* goroutines of the feeds that are left and starts those that are new.
LEMMA SwitchFeedsExact ==
    ASSUME DuplicateFree, TypeOK, FeedsMatchMode,
           NEW new, SwitchFeeds(curMode, new)
    PROVE  /\ loop' = loop
           /\ \A f \in TickingFeeds : feedGo'[f] = FeedCount(new, f)
  <1> DEFINE stops == Stops(curMode, new)
             starts == Starts(curMode, new)
             hanging == {f \in TickingFeeds : stops[f] > feedGo[f]}
  <1>1. \A f \in TickingFeeds :
            /\ FeedCount(new, f) \in {0, 1}
            /\ FeedCount(curMode, f) \in {0, 1}
            /\ feedGo[f] = FeedCount(curMode, f)
    BY DEF DuplicateFree, FeedCount, FeedsMatchMode
  <1>2. \A f \in TickingFeeds :
            /\ stops[f] <= feedGo[f]
            /\ feedGo[f] - stops[f] + starts[f] = FeedCount(new, f)
    BY <1>1 DEF Stops, Starts
  <1>3. hanging = {}
    <2>1. \A f \in TickingFeeds : stops[f] \in {0, 1} /\ feedGo[f] \in {0, 1}
      BY <1>1 DEF Stops
    <2> QED
      BY <1>2, <2>1
  <1>4. /\ feedGo' = [f \in TickingFeeds |-> feedGo[f] - stops[f] + starts[f]]
        /\ loop' = loop
    BY <1>3 DEF SwitchFeeds
  <1> QED
    BY <1>2, <1>4

LEMMA FeedInit == Init => FeedInv
  BY NavInit DEF Init, FeedInv, FeedsMatchMode

LEMMA FeedStep == DuplicateFree /\ FeedInv /\ [Next]_vars => FeedInv'
  <1> SUFFICES ASSUME DuplicateFree, FeedInv, [Next]_vars PROVE FeedInv'
    OBVIOUS
  <1>1. NavInv'
    BY NavStep DEF FeedInv
  <1>2. CASE UNCHANGED <<navVars, feedVars>> /\ loop' \in {loop, "run", "off"}
    BY <1>1, <1>2 DEF navVars, feedVars, FeedInv, FeedsMatchMode
  <1>3. CASE Shown
    BY <1>1, <1>3, SwitchFeedsExact DEF Shown, selectMode, FeedInv, NavInv, FeedsMatchMode
  <1> QED
    BY <1>2, <1>3, NextCases DEF FeedInv, NavInv

\* In a configuration without duplicate feeds no sequence of switches leaks a
\* feed goroutine, runs one twice, or blocks the loop in a stop.
THEOREM FeedsAlwaysMatchMode ==
    ASSUME DuplicateFree
    PROVE  Spec => []FeedsMatchMode
  <1>1. Init => FeedInv
    BY FeedInit
  <1>2. FeedInv /\ [Next]_vars => FeedInv'
    BY FeedStep
  <1>3. FeedInv => FeedsMatchMode
    BY DEF FeedInv
  <1> QED
    BY <1>1, <1>2, <1>3, PTL DEF Spec

-----------------------------------------------------------------------------
(* The levels mode: conversions *)

Audible == [volume : Percents, brightness : Percents, speech : {0, 1}]

LEMMA LostPercents == LostReading \subseteq Percents \ {0} /\ LostWriting \subseteq Percents \ {0}
BY LevelsAssumption

LEMMA LevelTypes ==
    ASSUME NEW c \in Audible
    PROVE  /\ Emitted(c).volume \in 0 .. 7 /\ Emitted(c).brightness \in -1 .. 3
           /\ Emitted(c).speech \in {0, 1}
           /\ Clamp(c.brightness) \in 25 .. 100 /\ BrightnessLevel(Clamp(c.brightness)) \in 0 .. 3
BY LostPercents DEF Audible, Percents, Emitted, VolumeLevel, BrightnessLevel, Clamp, Truncated, Scale

\* A level is found again from the percent that is set and from the one that is read
\* from the file, though each way may lose one.
LEMMA VolumeRoundTrip ==
    ASSUME NEW l \in 0 .. 7
    PROVE  LET p == Truncated(VolumePercent(l), LostWriting)
           IN  /\ p \in Percents
               /\ VolumeLevel(p) = l
               /\ VolumeLevel(Truncated(p, LostWriting)) = l
<1>1. VolumePercent(l) \in {0, 14, 29, 43, 57, 71, 86, 100}
  BY DEF VolumePercent, Scale
<1> QED
  BY LostPercents DEF Percents, VolumePercent, VolumeLevel, Truncated, Scale

LEMMA BrightnessRoundTrip ==
    ASSUME NEW l \in 0 .. 3
    PROVE  /\ BrightnessPercent(l) \in 25 .. 100
           /\ BrightnessLevel(BrightnessPercent(l)) = l
BY DEF BrightnessPercent, BrightnessLevel, Scale

LEMMA StartedType ==
    ASSUME NEW t, IsTable(t)
    PROVE  Started(t) \in Audible
BY LostPercents DEF IsTable, Started, Audible, Default, Read, Found, Truncated, Percents, Settings

\* The level of a setting when the program starts.
LevelOf(s, v) ==
    CASE s = "volume"     -> VolumeLevel(Truncated(v, LostWriting))
      [] s = "brightness" -> BrightnessLevel(v)
      [] s = "speech"     -> IF v = 1 THEN 1 ELSE 0

LEMMA StartedLevel ==
    ASSUME NEW t, NEW s \in Settings, s \in DOMAIN t
    PROVE  Emitted(Started(t))[s] = LevelOf(s, t[s])
BY DEF Settings, Emitted, Started, Found, Read, LevelOf

LEMMA PutType ==
    ASSUME NEW t, IsTable(t), NEW s \in Settings, NEW v \in Percents
    PROVE  /\ IsTable(Put(t, s, v))
           /\ DOMAIN Put(t, s, v) = DOMAIN t \cup {s}
           /\ Put(t, s, v)[s] = v
           /\ \A r \in DOMAIN t \ {s} : Put(t, s, v)[r] = t[r]
BY DEF IsTable, Put, Percents, Settings

Tables == UNION {[D -> Percents] : D \in SUBSET Settings}

LEMMA AllTables == \A t : IsTable(t) <=> t \in Tables
BY DEF IsTable, Tables

LEMMA Removed ==
    ASSUME NEW S, NEW q \in Seq(S), NEW i \in DOMAIN q
    PROVE  /\ q[i] \in S /\ RemoveAt(q, i) \in Seq(S)
           /\ Len(q) \in Nat \ {0} /\ Len(RemoveAt(q, i)) = Len(q) - 1
           /\ \A j \in DOMAIN RemoveAt(q, i) : \E k \in DOMAIN q : k # i /\ RemoveAt(q, i)[j] = q[k]
<1>1. Len(q) \in Nat \ {0} /\ i \in 1 .. Len(q)
  OBVIOUS
<1> DEFINE before == SubSeq(q, 1, i - 1)
           after == SubSeq(q, i + 1, Len(q))
<1>2. /\ before \in Seq(S) /\ Len(before) = i - 1
      /\ \A j \in 1 .. i - 1 : before[j] = q[j]
  BY <1>1
<1>3. /\ after \in Seq(S) /\ Len(after) = Len(q) - i
      /\ \A j \in 1 .. Len(q) - i : after[j] = q[i + j]
  BY <1>1
<1>4. RemoveAt(q, i) = before \o after
  BY DEF RemoveAt
<1> HIDE DEF before, after
<1>5. /\ RemoveAt(q, i) \in Seq(S)
      /\ Len(RemoveAt(q, i)) = Len(q) - 1
      /\ \A j \in 1 .. Len(q) - 1 : RemoveAt(q, i)[j] = IF j < i THEN q[j] ELSE q[j + 1]
  BY <1>1, <1>2, <1>3, <1>4, ConcatProperties
<1> QED
  BY <1>1, <1>5

-----------------------------------------------------------------------------
(* The levels mode: what is kept *)

Good(t, s) == s \in DOMAIN t /\ LevelOf(s, t[s]) = kept[s]

\* The setting is where it belongs, and in nothing that is to be written otherwise.
AtRest(s) ==
    /\ Good(file, s)
    /\ up => Good(table, s)
    /\ \A i \in DOMAIN dumps : Good(dumps[i], s)
    /\ \A i \in DOMAIN writes : writes[i].setting # s
    /\ s \in saving => Saved

\* The setting is on its way, and nothing else is.
Alone(s) ==
    /\ up
    /\ saving = {s}
    /\ \/ /\ Len(writes) = 1 /\ marshals = 0 /\ dumps = <<>>
          /\ writes[1].setting = s /\ LevelOf(s, writes[1].value) = kept[s]
       \/ /\ writes = <<>> /\ marshals = 1 /\ dumps = <<>>
          /\ Good(table, s)
       \/ /\ writes = <<>> /\ marshals = 0 /\ Len(dumps) = 1
          /\ Good(table, s) /\ Good(dumps[1], s)

LevelsInv ==
    /\ LevelsTypeOK
    /\ dumps \in Seq(Tables)
    /\ ~up => Saved
    /\ ShownIsCounted
    /\ \A s \in DOMAIN kept : AtRest(s) \/ Alone(s)

LEMMA LevelsInitially == LevelsInit => LevelsInv
<1> SUFFICES ASSUME LevelsInit
             PROVE  LevelsInv
  OBVIOUS
<1>1. IsTable(file) /\ current \in Audible /\ current = Started(file) /\ table = file
  BY LevelsAssumption, StartedType DEF LevelsInit
<1>2. \A s \in DOMAIN file : s \in Settings /\ kept[s] = LevelOf(s, file[s])
  BY <1>1, StartedLevel DEF LevelsInit, IsTable
<1>3. DOMAIN kept = DOMAIN file
  BY DEF LevelsInit
<1>4. LevelsTypeOK
  <2>1. shown \in [volume : -1 .. 7, brightness : -1 .. 3, speech : {-1, 0, 1}]
    BY DEF LevelsInit, Nothing
  <2>2. DOMAIN kept \subseteq Settings
    BY <1>1, <1>3 DEF IsTable
  <2>3. writes = <<>> /\ dumps = <<>>
    BY DEF LevelsInit
  <2>4. /\ up = TRUE /\ open = FALSE /\ marshals = 0 /\ saving = {}
        /\ saves \in 0 .. MaxSaves /\ restarts \in 0 .. MaxRestarts
    BY LevelsAssumption DEF LevelsInit
  <2>5. /\ writes \in Seq([setting : Settings, value : Percents])
        /\ \A i \in DOMAIN dumps : IsTable(dumps[i])
    BY <2>3
  <2>6. up \in BOOLEAN /\ open \in BOOLEAN /\ (open => up /\ current.brightness >= 25)
    BY <2>4
  <2>7. marshals \in Nat /\ saving \subseteq Settings
    BY <2>4
  <2> QED
    BY <1>1, <2>1, <2>2, <2>4, <2>5, <2>6, <2>7 DEF LevelsTypeOK, Audible
<1>5. dumps \in Seq(Tables)
  BY DEF LevelsInit
<1>6. ShownIsCounted
  BY DEF LevelsInit, ShownIsCounted, InMode
<1>7. \A s \in DOMAIN kept : AtRest(s)
  BY <1>1, <1>2, <1>3 DEF LevelsInit, AtRest, Good
<1> QED
  BY <1>4, <1>5, <1>6, <1>7 DEF LevelsInv, LevelsInit

\* A change of a setting: a save that meets no other is on its way, one that does is
\* not kept, nor is what it met.
LEMMA SaveKeeps ==
    ASSUME LevelsInv, up, NEW s \in Settings, NEW v \in Percents, Save(s, v, LevelOf(s, v)), up' = up
    PROVE  /\ \A r \in DOMAIN kept' : AtRest(r)' \/ Alone(r)'
           /\ DOMAIN kept' \subseteq Settings /\ saving' \subseteq Settings
           /\ writes' \in Seq([setting : Settings, value : Percents])
           /\ saves' \in 0 .. MaxSaves
           /\ UNCHANGED <<table, file, dumps, marshals, restarts>>
<1> DEFINE w == [setting |-> s, value |-> v]
<1>1. /\ writes \in Seq([setting : Settings, value : Percents])
      /\ w \in [setting : Settings, value : Percents]
      /\ writes' = Append(writes, w)
      /\ UNCHANGED <<table, file, dumps, marshals, restarts>>
      /\ saves' = saves + 1 /\ saves < MaxSaves
      /\ DOMAIN kept \subseteq Settings
  BY DEF LevelsInv, LevelsTypeOK, Save, memory
<1>2. /\ writes' \in Seq([setting : Settings, value : Percents])
      /\ saves' \in 0 .. MaxSaves
      /\ saving' \subseteq Settings
  BY <1>1, LevelsAssumption DEF LevelsInv, LevelsTypeOK, Save
<1>3. /\ DOMAIN writes' = DOMAIN writes \cup {Len(writes) + 1} 
      /\ Len(writes') = Len(writes) + 1
      /\ writes'[Len(writes) + 1] = w
      /\ \A i \in DOMAIN writes : writes'[i] = writes[i]
  BY <1>1
<1>4. DOMAIN kept' \subseteq Settings
  BY <1>1 DEF Save, Put, Without
<1>5. CASE Saved
  <2>1. /\ saving' = {s} /\ kept' = Put(kept, s, LevelOf(s, v))
        /\ writes = <<>> /\ dumps = <<>> /\ marshals = 0
    BY <1>5 DEF Save, Saved
  <2>2. /\ kept'[s] = LevelOf(s, v)
        /\ DOMAIN kept' = DOMAIN kept \cup {s}
        /\ \A r \in DOMAIN kept \ {s} : kept'[r] = kept[r]
    BY <2>1 DEF Put
  <2>3. Alone(s)'
    BY <1>1, <1>3, <2>1, <2>2 DEF Alone
  <2>4. ASSUME NEW r \in DOMAIN kept \ {s}
        PROVE  AtRest(r)'
    BY <1>1, <1>3, <2>1, <2>2, <2>4 DEF LevelsInv, AtRest, Alone, Good, Saved
  <2> QED
    BY <1>1, <1>2, <1>4, <2>2, <2>3, <2>4
<1>6. CASE ~Saved
  <2>1. saving' = saving \cup {s} /\ kept' = Without(kept, saving')
    BY <1>6 DEF Save
  <2>2. /\ DOMAIN kept' = DOMAIN kept \ saving'
        /\ \A r \in DOMAIN kept' : kept'[r] = kept[r]
    BY <2>1 DEF Without
  <2>3. ASSUME NEW r \in DOMAIN kept'
        PROVE  AtRest(r)'
    <3>1. AtRest(r) /\ r # s /\ r \notin saving'
      BY <2>1, <2>2 DEF LevelsInv, Alone
    <3> QED
      BY <3>1, <1>1, <1>3, <2>2 DEF AtRest, Good
  <2> QED
    BY <1>1, <1>2, <1>4, <2>3
<1> QED
  BY <1>5, <1>6

\* What a step that saves nothing must leave alone.
LEMMA KeptAlone ==
    ASSUME LevelsInv,
           UNCHANGED <<up, table, file, goroutines, ghosts>>
    PROVE  \A s \in DOMAIN kept' : AtRest(s)' \/ Alone(s)'
BY DEF LevelsInv, AtRest, Alone, Good, Saved, goroutines, ghosts

\* A step of the handler that saves nothing.
LEMMA QuietKeeps ==
    ASSUME LevelsInv, \/ Open \/ Exit \/ PowerOffFails
                      \/ \E step \in {-1, 1} : VolumeEnd(step) \/ BrightnessEnd(step)
    PROVE  LevelsInv'
<1>1. /\ UNCHANGED <<up, table, file, goroutines, ghosts, bounds>>
      /\ up /\ open' \in BOOLEAN
      /\ \/ current' = [current EXCEPT !.brightness = Clamp(@)]
         \/ current' = [current EXCEPT !.speech = 1] /\ ~open /\ open' = open
      /\ \/ shown' = Emitted(current')
         \/ shown' = shown /\ (open' => open)
  <2>0. open \in BOOLEAN
    BY DEF LevelsInv, LevelsTypeOK
  <2>1. CASE Open
    BY <2>1 DEF Open, memory
  <2>2. CASE Exit
    BY <2>2 DEF Exit, InMode, memory
  <2>3. CASE PowerOffFails
    BY <2>0, <2>3 DEF PowerOffFails, memory
  <2>4. ASSUME NEW step \in {-1, 1}, VolumeEnd(step) \/ BrightnessEnd(step)
        PROVE  /\ UNCHANGED <<up, open, shown, table, file, goroutines, ghosts, bounds>>
               /\ up /\ current' = [current EXCEPT !.brightness = Clamp(@)]
    BY <2>4 DEF VolumeEnd, BrightnessEnd, InMode, memory
  <2> QED
    BY <2>0, <2>1, <2>2, <2>3, <2>4
<1>2. \A s \in DOMAIN kept' : AtRest(s)' \/ Alone(s)'
  BY <1>1, KeptAlone
<1>3. /\ current \in Audible /\ Clamp(current.brightness) \in 25 .. 100
      /\ open => current.brightness = Clamp(current.brightness)
  <2>1. current \in Audible /\ (open => current.brightness >= 25)
    BY DEF LevelsInv, LevelsTypeOK, Audible
  <2> QED
    BY <2>1, LevelTypes DEF Clamp, Audible, Percents
<1>4. current' \in Audible /\ (open' => current'.brightness >= 25)
  BY <1>1, <1>3 DEF Audible, Percents
<1>5. shown' \in [volume : -1 .. 7, brightness : -1 .. 3, speech : {-1, 0, 1}]
  BY <1>1, <1>4, LevelTypes DEF LevelsInv, LevelsTypeOK, Emitted
<1>6. LevelsTypeOK'
  BY <1>1, <1>4, <1>5 DEF LevelsInv, LevelsTypeOK, Audible, goroutines, ghosts, bounds
<1>7. ShownIsCounted'
  <2>1. CASE shown' = Emitted(current')
    BY <2>1 DEF ShownIsCounted
  <2>2. CASE open /\ current' = [current EXCEPT !.brightness = Clamp(@)]
    <3>1. current' = current
      BY <1>3, <2>2 DEF Audible
    <3> QED
      BY <1>1, <2>2, <3>1 DEF LevelsInv, ShownIsCounted, InMode
  <2> QED
    BY <1>1, <2>1, <2>2 DEF ShownIsCounted, InMode
<1> QED
  BY <1>1, <1>2, <1>6, <1>7 DEF LevelsInv, goroutines, ghosts, Saved

\* A step of the handler that saves a setting.
LEMMA ChangeKeeps ==
    ASSUME LevelsInv, InMode, NEW s \in Settings, NEW v \in Percents, Save(s, v, LevelOf(s, v)),
           UNCHANGED <<up, open>>,
           current' \in Audible, current'.brightness >= 25, shown' = Emitted(current')
    PROVE  LevelsInv'
<1>1. /\ \A r \in DOMAIN kept' : AtRest(r)' \/ Alone(r)'
      /\ DOMAIN kept' \subseteq Settings /\ saving' \subseteq Settings
      /\ writes' \in Seq([setting : Settings, value : Percents])
      /\ saves' \in 0 .. MaxSaves
      /\ UNCHANGED <<table, file, dumps, marshals, restarts>>
  BY SaveKeeps DEF InMode
<1>2. shown' \in [volume : -1 .. 7, brightness : -1 .. 3, speech : {-1, 0, 1}]
  BY LevelTypes DEF Emitted
<1>3. LevelsTypeOK'
  BY <1>1, <1>2 DEF LevelsInv, LevelsTypeOK, InMode, Audible
<1> QED
  BY <1>1, <1>3 DEF LevelsInv, ShownIsCounted, InMode

LEMMA KnobsKeep == LevelsInv /\ Knobs => LevelsInv'
<1> SUFFICES ASSUME LevelsInv, Knobs
             PROVE  LevelsInv'
  OBVIOUS
<1>1. current \in Audible
  BY DEF LevelsInv, LevelsTypeOK, Audible
<1>2. Clamp(current.brightness) \in 25 .. 100 /\ current.speech \in {0, 1}
  BY <1>1, LevelTypes DEF Audible
<1>3. ASSUME NEW step \in {-1, 1}, Volume(step)
      PROVE  LevelsInv'
  <2> DEFINE l == VolumeLevel(current.volume) + step
             v == Truncated(VolumePercent(l), LostWriting)
  <2>1. l \in 0 .. 7
    BY <1>3 DEF Volume, Refused
  <2>2. v \in Percents /\ VolumeLevel(v) = l /\ LevelOf("volume", v) = l
    BY <2>1, VolumeRoundTrip DEF LevelOf
  <2>3. /\ InMode /\ UNCHANGED <<up, open>>
        /\ current' = [current EXCEPT !.volume = v, !.brightness = Clamp(@)]
        /\ Save("volume", v, l)
        /\ shown' = [Emitted(current') EXCEPT !.volume = l]
    BY <1>3 DEF Volume
  <2> HIDE DEF l, v
  <2>4. current' = [volume |-> v, brightness |-> Clamp(current.brightness), speech |-> current.speech]
    BY <1>1, <2>3 DEF Audible
  <2>5. current' \in Audible /\ current'.brightness >= 25 /\ current'.volume = v
    BY <1>2, <2>2, <2>4 DEF Audible, Percents
  <2>6. shown' = Emitted(current')
    BY <2>2, <2>3, <2>5 DEF Emitted
  <2> QED
    BY <2>2, <2>3, <2>5, <2>6, ChangeKeeps DEF Settings
<1>4. ASSUME NEW step \in {-1, 1}, Brightness(step)
      PROVE  LevelsInv'
  <2> DEFINE l == BrightnessLevel(Clamp(current.brightness)) + step
             v == BrightnessPercent(l)
  <2>1. l \in 0 .. 3
    BY <1>4 DEF Brightness, Refused
  <2>2. v \in 25 .. 100 /\ BrightnessLevel(v) = l /\ LevelOf("brightness", v) = l
    BY <2>1, BrightnessRoundTrip DEF LevelOf
  <2>3. /\ InMode /\ UNCHANGED <<up, open>>
        /\ current' = [current EXCEPT !.brightness = v]
        /\ Save("brightness", v, l)
        /\ shown' = [Emitted(current') EXCEPT !.brightness = l]
    BY <1>4 DEF Brightness
  <2> HIDE DEF l, v
  <2>4. current' \in Audible /\ current'.brightness >= 25 /\ current'.brightness = v /\ v \in Percents
    BY <1>1, <2>2, <2>3 DEF Audible, Percents
  <2>5. shown' = Emitted(current')
    BY <2>2, <2>3, <2>4 DEF Emitted
  <2> QED
    BY <2>2, <2>3, <2>4, <2>5, ChangeKeeps DEF Settings
<1>5. CASE Speech
  <2> DEFINE v == 1 - current.speech
  <2>1. v \in {0, 1} /\ v \in Percents /\ LevelOf("speech", v) = v
    BY <1>2 DEF LevelOf, Percents
  <2>2. /\ InMode /\ UNCHANGED <<up, open>>
        /\ current' = [current EXCEPT !.speech = v, !.brightness = Clamp(@)]
        /\ Save("speech", v, v) /\ shown' = Emitted(current')
    BY <1>5 DEF Speech
  <2> HIDE DEF v
  <2>3. current' = [volume |-> current.volume, brightness |-> Clamp(current.brightness), speech |-> v]
    BY <1>1, <2>2 DEF Audible
  <2>4. current' \in Audible /\ current'.brightness >= 25
    BY <1>1, <1>2, <2>1, <2>3 DEF Audible, Percents
  <2> QED
    BY <2>1, <2>2, <2>4, ChangeKeeps DEF Settings
<1> QED
  BY <1>3, <1>4, <1>5, QuietKeeps DEF Knobs

-----------------------------------------------------------------------------
(* The levels mode: the goroutines, the end and the restart *)

\* What the goroutines and the file leave alone.
LEMMA TypesKept ==
    ASSUME LevelsInv, UNCHANGED <<up, current, open, shown, ghosts, bounds>>,
           IsTable(table'), IsTable(file'),
           writes' \in Seq([setting : Settings, value : Percents]),
           dumps' \in Seq(Tables), marshals' \in Nat, up,
           \A s \in DOMAIN kept : AtRest(s)' \/ Alone(s)'
    PROVE  LevelsInv'
<1>1. \A i \in DOMAIN dumps' : IsTable(dumps'[i])
  BY AllTables
<1>2. LevelsTypeOK'
  BY <1>1 DEF LevelsInv, LevelsTypeOK, ghosts, bounds
<1> QED
  BY <1>2 DEF LevelsInv, ShownIsCounted, InMode, ghosts

LEMMA WriteKeeps ==
    ASSUME LevelsInv, NEW i \in DOMAIN writes, Write(i)
    PROVE  LevelsInv'
<1> DEFINE s == writes[i].setting
           v == writes[i].value
           W == [setting : Settings, value : Percents]
<1>0. /\ writes \in Seq(W)
      /\ IsTable(table) /\ dumps \in Seq(Tables) /\ marshals \in Nat /\ IsTable(file)
  BY DEF LevelsInv, LevelsTypeOK
<1>1. writes[i] \in W /\ s \in Settings /\ v \in Percents
  <2>1. writes[i] \in W
    BY <1>0, Removed
  <2> QED
    BY <2>1
<1>2. /\ up /\ table' = Put(table, s, v) /\ writes' = RemoveAt(writes, i)
      /\ marshals' = marshals + 1
      /\ UNCHANGED <<up, current, open, shown, file, dumps, ghosts, bounds>>
  BY DEF Write
<1>3. /\ IsTable(table') /\ DOMAIN table' = DOMAIN table \cup {s}
      /\ table'[s] = v /\ \A r \in DOMAIN table \ {s} : table'[r] = table[r]
  <2>1. \A r \in Settings, p \in Percents :
            /\ IsTable(Put(table, r, p)) /\ DOMAIN Put(table, r, p) = DOMAIN table \cup {r}
            /\ Put(table, r, p)[r] = p
            /\ \A q \in DOMAIN table \ {r} : Put(table, r, p)[q] = table[q]
    <3>1. IsTable(table)
      BY <1>0
    <3> QED
      BY <3>1, PutType
  <2> HIDE DEF s, v
  <2> QED
    BY <1>1, <1>2, <2>1
<1>4. /\ writes' \in Seq(W) /\ Len(writes') = Len(writes) - 1
      /\ \A j \in DOMAIN writes' : \E k \in DOMAIN writes : k # i /\ writes'[j] = writes[k]
  BY <1>0, <1>1, <1>2, Removed
<1>5. ASSUME NEW r \in DOMAIN kept, AtRest(r)
      PROVE  AtRest(r)'
  <2>1. r # s
    BY <1>5 DEF AtRest
  <2>2. Good(table, r)'
    BY <1>2, <1>3, <1>5, <2>1 DEF AtRest, Good, ghosts
  <2>3. r \in saving => Saved'
    BY <1>2, <1>5 DEF AtRest, Saved
  <2> QED
    BY <1>2, <1>4, <1>5, <2>2, <2>3 DEF AtRest, Good, ghosts
<1>6. ASSUME NEW r \in DOMAIN kept, Alone(r)
      PROVE  Alone(r)'
  <2>1. Len(writes) = 1 /\ marshals = 0 /\ dumps = <<>> /\ r = s /\ LevelOf(r, v) = kept[r]
    BY <1>0, <1>1, <1>6 DEF Alone
  <2>2. writes' = <<>> /\ marshals' = 1
    BY <1>2, <1>4, <2>1
  <2>3. Good(table, r)'
    BY <1>2, <1>3, <2>1 DEF Good, ghosts
  <2> QED
    BY <1>2, <1>6, <2>1, <2>2, <2>3 DEF Alone, ghosts
<1> HIDE DEF s, v
<1> QED
  BY <1>0, <1>1, <1>2, <1>3, <1>4, <1>5, <1>6, TypesKept DEF LevelsInv

LEMMA MarshalKeeps == LevelsInv /\ Marshal => LevelsInv'
<1> SUFFICES ASSUME LevelsInv, Marshal
             PROVE  LevelsInv'
  OBVIOUS
<1>1. /\ writes \in Seq([setting : Settings, value : Percents]) /\ marshals \in Nat
      /\ IsTable(table) /\ table \in Tables /\ dumps \in Seq(Tables) /\ IsTable(file)
  BY AllTables DEF LevelsInv, LevelsTypeOK
<1>2. /\ up /\ marshals > 0 /\ marshals' = marshals - 1 /\ dumps' = Append(dumps, table)
      /\ UNCHANGED <<up, current, open, shown, table, file, writes, ghosts, bounds>>
  BY DEF Marshal, memory
<1>3. /\ dumps' \in Seq(Tables) /\ Len(dumps') = Len(dumps) + 1
      /\ dumps'[Len(dumps) + 1] = table
      /\ \A j \in DOMAIN dumps' : (j \in DOMAIN dumps /\ dumps'[j] = dumps[j]) \/ dumps'[j] = table
  BY <1>1, <1>2
<1>4. ASSUME NEW r \in DOMAIN kept, AtRest(r)
      PROVE  AtRest(r)'
  <2>1. r \notin saving
    BY <1>1, <1>2, <1>4 DEF AtRest, Saved
  <2> QED
    BY <1>2, <1>3, <1>4, <2>1 DEF AtRest, Good, ghosts
<1>5. ASSUME NEW r \in DOMAIN kept, Alone(r)
      PROVE  Alone(r)'
  <2>1. writes = <<>> /\ marshals = 1 /\ dumps = <<>> /\ Good(table, r)
    BY <1>1, <1>2, <1>5 DEF Alone
  <2>2. marshals' = 0 /\ Len(dumps') = 1 /\ dumps'[1] = table
    BY <1>2, <1>3, <2>1
  <2> QED
    BY <1>2, <1>5, <2>1, <2>2 DEF Alone, Good, ghosts
<1> QED
  BY <1>1, <1>2, <1>3, <1>4, <1>5, TypesKept DEF LevelsInv

LEMMA WriteFileKeeps ==
    ASSUME LevelsInv, NEW i \in DOMAIN dumps, WriteFile(i)
    PROVE  LevelsInv'
<1>1. /\ writes \in Seq([setting : Settings, value : Percents]) /\ marshals \in Nat
      /\ IsTable(table) /\ dumps \in Seq(Tables) /\ IsTable(dumps[i])
  BY DEF LevelsInv, LevelsTypeOK
<1>2. /\ up /\ file' = dumps[i] /\ dumps' = RemoveAt(dumps, i)
      /\ UNCHANGED <<up, current, open, shown, table, writes, marshals, ghosts, bounds>>
  BY DEF WriteFile
<1>3. /\ dumps' \in Seq(Tables) /\ Len(dumps') = Len(dumps) - 1
      /\ \A j \in DOMAIN dumps' : \E k \in DOMAIN dumps : k # i /\ dumps'[j] = dumps[k]
  BY <1>1, <1>2, Removed
<1>4. ASSUME NEW r \in DOMAIN kept, AtRest(r)
      PROVE  AtRest(r)'
  <2>1. r \notin saving
    BY <1>4 DEF AtRest, Saved
  <2> QED
    BY <1>2, <1>3, <1>4, <2>1 DEF AtRest, Good, ghosts
<1>5. ASSUME NEW r \in DOMAIN kept, Alone(r)
      PROVE  AtRest(r)'
  <2>1. /\ writes = <<>> /\ marshals = 0 /\ Len(dumps) = 1 /\ i = 1
        /\ Good(table, r) /\ Good(dumps[1], r)
    BY <1>1, <1>5 DEF Alone
  <2>2. dumps' = <<>>
    BY <1>3, <2>1
  <2> QED
    BY <1>2, <2>1, <2>2 DEF AtRest, Good, Saved, ghosts
<1> QED
  BY <1>1, <1>2, <1>3, <1>4, <1>5, TypesKept DEF LevelsInv

LEMMA DownKeeps == LevelsInv /\ Down => LevelsInv'
<1> SUFFICES ASSUME LevelsInv, Down
             PROVE  LevelsInv'
  OBVIOUS
<1>1. /\ up' = FALSE /\ open' = FALSE /\ writes' = <<>> /\ dumps' = <<>> /\ marshals' = 0
      /\ saving' = {} /\ kept' = IF Saved THEN kept ELSE Without(kept, saving)
      /\ UNCHANGED <<current, shown, table, file, bounds>>
  BY DEF Down, memory
<1>2. /\ DOMAIN kept' \subseteq DOMAIN kept
      /\ \A s \in DOMAIN kept' : kept'[s] = kept[s] /\ (~Saved => s \notin saving)
  BY <1>1 DEF Without
<1>3. ASSUME NEW s \in DOMAIN kept'
      PROVE  AtRest(s)'
  <2>1. AtRest(s)
    BY <1>2 DEF LevelsInv, Alone, Saved
  <2> QED
    BY <1>1, <1>2, <2>1 DEF AtRest, Good
<1>4. /\ writes' \in Seq([setting : Settings, value : Percents]) /\ dumps' \in Seq(Tables)
      /\ \A i \in DOMAIN dumps' : IsTable(dumps'[i])
  BY <1>1
<1>5. LevelsTypeOK'
  BY <1>1, <1>2, <1>4 DEF LevelsInv, LevelsTypeOK, bounds
<1> QED
  BY <1>1, <1>3, <1>4, <1>5 DEF LevelsInv, ShownIsCounted, InMode, Saved

LEMMA RestartKeeps == LevelsInv /\ Restart => LevelsInv'
<1> SUFFICES ASSUME LevelsInv, Restart
             PROVE  LevelsInv'
  OBVIOUS
<1>1. /\ ~up /\ restarts < MaxRestarts /\ restarts' = restarts + 1 /\ up' = TRUE
      /\ table' = file /\ current' = Started(file) /\ shown' = Nothing
      /\ UNCHANGED <<open, file, writes, dumps, marshals, kept, saving, saves>>
  BY DEF Restart, goroutines, ghosts
<1>2. ~open /\ Saved
  BY <1>1 DEF LevelsInv, LevelsTypeOK
<1>3. \A s \in DOMAIN kept' : AtRest(s)'
  BY <1>1, <1>2 DEF LevelsInv, AtRest, Alone, Good, Saved
<1>4. current' \in Audible
  BY <1>1, StartedType DEF LevelsInv, LevelsTypeOK
<1>5. restarts' \in 0 .. MaxRestarts
  BY <1>1, LevelsAssumption DEF LevelsInv, LevelsTypeOK
<1>6. LevelsTypeOK'
  BY <1>1, <1>2, <1>4, <1>5 DEF LevelsInv, LevelsTypeOK, Audible, Nothing
<1> QED
  BY <1>1, <1>2, <1>3, <1>6 DEF LevelsInv, ShownIsCounted, InMode, Saved

LEMMA LevelsStep == LevelsInv /\ [LevelsNext]_levelsVars => LevelsInv'
<1> SUFFICES ASSUME LevelsInv, [LevelsNext]_levelsVars
             PROVE  LevelsInv'
  OBVIOUS
<1>1. CASE UNCHANGED levelsVars
  <2>1. \A s \in DOMAIN kept' : AtRest(s)' \/ Alone(s)'
    BY <1>1, KeptAlone DEF levelsVars, memory
  <2>2. LevelsTypeOK' /\ ShownIsCounted'
    BY <1>1 DEF LevelsInv, LevelsTypeOK, ShownIsCounted, InMode,
                levelsVars, memory, goroutines, ghosts, bounds
  <2> QED
    BY <1>1, <2>1, <2>2 DEF LevelsInv, Saved, levelsVars, memory, goroutines, ghosts
<1> QED
  BY <1>1, KnobsKeep, WriteKeeps, MarshalKeeps, WriteFileKeeps, DownKeeps, RestartKeeps
     DEF LevelsNext, Goroutines

\* The variables of the levels mode have their types: no level is off its range, and
\* an open mode has a brightness it can show (newLevelsMode, console.Start).
THEOREM LevelsTypeCorrect == LevelsSpec => []LevelsTypeOK
<1>1. LevelsInv => LevelsTypeOK
  BY DEF LevelsInv
<1> QED
  BY <1>1, LevelsInitially, LevelsStep, PTL DEF LevelsSpec

\* In the levels mode the LEDs of a knob show the level the next click counts from,
\* whatever the percents that float conversions lose, and for any number of clicks
\* and restarts (scaleRound, SetVolume, GetVolume; the handler of newLevelsMode).
THEOREM ShownAlwaysCounted == LevelsSpec => []ShownIsCounted
<1>1. LevelsInv => ShownIsCounted
  BY DEF LevelsInv
<1> QED
  BY <1>1, LevelsInitially, LevelsStep, PTL DEF LevelsSpec

\* A setting whose last save overlapped with no other is on file when nothing is left
\* to save, and a start finds it at its level, whatever dumps of the other settings
\* overlapped and however often the program ended meanwhile (SaveVolume and the like,
\* memory.save, console.Start).
THEOREM RestartAlwaysKeepsLevels == LevelsSpec => []RestartKeepsLevels
<1>1. LevelsInv => RestartKeepsLevels
  <2> SUFFICES ASSUME LevelsInv, Saved, NEW s \in DOMAIN kept
               PROVE  s \in DOMAIN file /\ Emitted(Started(file))[s] = kept[s]
    BY DEF RestartKeepsLevels
  <2>1. AtRest(s)
    BY DEF LevelsInv, Alone, Saved
  <2>2. IsTable(file) /\ s \in Settings
    BY DEF LevelsInv, LevelsTypeOK
  <2> QED
    BY <2>1, <2>2, StartedLevel DEF AtRest, Good
<1> QED
  BY <1>1, LevelsInitially, LevelsStep, PTL DEF LevelsSpec
=============================================================================
