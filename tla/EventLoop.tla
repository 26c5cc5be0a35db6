----------------------------- MODULE EventLoop -----------------------------
(***************************************************************************)
(* The event loop of blink11 (eventloop.go): which mode is shown, how the  *)
(* switches and knobs of the console move between modes, which system mode *)
(* covers which configured mode, and which feed goroutines are running.    *)
(*                                                                         *)
(* The loop takes one event from console.Events (Receive) and then handles *)
(* it to the end (one action per outcome); between the two, and between    *)
(* two events, the start() goroutines of the control modes make progress.  *)
(* What the handlers do besides choosing the mode lives elsewhere: LEDs,   *)
(* bus and metrics in Display, the command of a control mode in            *)
(* ControlMode.                                                            *)
(*                                                                         *)
(* Feeds are goroutines that live until somebody sends them `done` on an   *)
(* unbuffered channel; a mode's feeds are a slice, in which a feed may     *)
(* occur more than once, so a mode has a number of occurrences per feed.   *)
(***************************************************************************)
EXTENDS Integers, Positions

CONSTANTS
    Modes,          \* the modes built by makeModes, hidden ones included
    ControlModes,   \* those with a control command
    KnobaOf,        \* mode.knoba; -1 for a mode of a hidden section
    KnobdOf,        \* mode.knobd; -1 for a mode of a hidden section
    TickingFeeds,   \* the feeds with a goroutine per start: time, idle, animation
    FeedsOf,        \* FeedsOf[m][f]: occurrences of feed f in mode m's feeds
    NetworkModes    \* the modes that list the network feed

testMode    == "system.test"
levelsMode  == "system.levels"
entryMode   == "entry"
NoMode      == "nil"
SystemModes == {testMode, levelsMode, entryMode}

\* What makeModes makes of a configuration it accepts.
ASSUME ModesAssumption ==
    /\ ControlModes \subseteq Modes
    /\ NetworkModes \subseteq Modes
    /\ Modes \cap (SystemModes \cup {NoMode, "none", "nobody"}) = {}
    /\ KnobaOf \in [Modes -> -1 .. LastKnoba]
    /\ KnobdOf \in [Modes -> -1 .. LastKnobd]
    /\ FeedsOf \in [Modes -> [TickingFeeds -> Nat]]

\* What it gives positions as (PositionsRight of Modes), and that some mode sits at
\* (0,0), without which eventLoop has no mode to start with.
ASSUME PositionsAssumption ==
    /\ Positioned(Modes, KnobaOf, KnobdOf)
    /\ \E m \in Modes : KnobaOf[m] = 0 /\ KnobdOf[m] = 0

VARIABLES
    curMode,        \* the mode shown
    prevMode,       \* the configured mode to go back to
    knoba, knobd,   \* tracked positions of the knobs
    knobaToKnobd,   \* data knob position per address knob position; 0 when absent
    modeParam,      \* the mode edited by the entry mode
    started,        \* per control mode, its `started` flag
    launching,      \* control modes with a start() goroutine before `started = true`
    feedGo,         \* per ticking feed, its running goroutines
    listening,      \* the network feed's `started` flag
    evt,            \* the event being handled, NoEvent while waiting for one
    loop            \* "run", "blocked" (for ever, in a feed's stop) or "off"

navVars  == <<curMode, prevMode, knoba, knobd, knobaToKnobd, modeParam>>
feedVars == <<feedGo, listening>>
vars == <<navVars, started, launching, feedVars, evt, loop>>

SystemEvents  == {"KNOBA", "KNOBD", "HALT", "S_BUS_CYCLE"}
ControlEvents == {"START", "REG"}    \* REG: LOAD, EXAM, DEP, CONT and SR0-SR21
EventIds == SystemEvents \cup ControlEvents
            \cup {"TEST", "S_INST", "ENABLE", "KNOBA_PUSH", "KNOBD_PUSH"}
Events   == [id : EventIds, on : BOOLEAN]
NoEvent  == [id |-> "NIL", on |-> FALSE]

modeForKnobs(ka, kd) ==
    IF \E m \in Modes : KnobaOf[m] = ka /\ KnobdOf[m] = kd
    THEN CHOOSE m \in Modes : KnobaOf[m] = ka /\ KnobdOf[m] = kd
    ELSE NoMode

\* Occurrences of a ticking feed in the feeds of any mode; system modes have none.
FeedCount(m, f) == IF m \in Modes THEN FeedsOf[m][f] ELSE 0

\* Mutation: the feeds of the old mode are stopped also when the new mode lists
\* them, and are then not started again.
StopsAll(old, new) == [f \in TickingFeeds |-> FeedCount(old, f)]

Stops(old, new)  == [f \in TickingFeeds |->
                        IF FeedCount(new, f) = 0 THEN FeedCount(old, f) ELSE 0]
Starts(old, new) == [f \in TickingFeeds |->
                        IF FeedCount(old, f) = 0 THEN FeedCount(new, f) ELSE 0]

-----------------------------------------------------------------------------

\* Switching feeds: each occurrence that the new mode does not list is stopped,
\* then each one that the old mode did not list is started.  A stop takes one
\* goroutine away, and blocks the loop for ever when none is left; the stops
\* that precede it in the slice have been done.
SwitchFeeds(old, new) ==
    LET stops == Stops(old, new)
        starts == Starts(old, new)
        hanging == {f \in TickingFeeds : stops[f] > feedGo[f]}
    IN  \/ /\ hanging = {}
           /\ feedGo' = [f \in TickingFeeds |-> feedGo[f] - stops[f] + starts[f]]
           /\ listening' \in IF new \in NetworkModes /\ old \notin NetworkModes
                             THEN {listening, TRUE}      \* net.Listen may fail
                             ELSE {listening}
           /\ loop' = loop
        \/ \E h \in hanging : \E done \in SUBSET (TickingFeeds \ hanging) :
           /\ feedGo' = [f \in TickingFeeds |->
                            IF f = h THEN 0
                            ELSE IF f \in done THEN feedGo[f] - stops[f] ELSE feedGo[f]]
           /\ listening' = listening
           /\ loop' = "blocked"

\* selectMode: show the mode, launch its command if it has one that is not
\* started, then switch feeds.
selectMode(new) ==
    /\ curMode' = new
    /\ launching' = IF new \in ControlModes /\ ~started[new]
                    THEN launching \cup {new} ELSE launching
    /\ SwitchFeeds(curMode, new)
    /\ UNCHANGED started

to(new) ==
    /\ prevMode' = IF curMode \in SystemModes THEN prevMode ELSE curMode
    /\ selectMode(new)

\* Mutation: leaving a system mode goes to the last mode that was edited.
backToEdited ==
    /\ selectMode(IF modeParam = NoMode THEN prevMode ELSE modeParam)
    /\ UNCHANGED <<prevMode, knoba, knobd, knobaToKnobd, modeParam>>

back ==
    /\ selectMode(prevMode)
    /\ UNCHANGED <<prevMode, knoba, knobd, knobaToKnobd, modeParam>>

Init ==
    /\ curMode = modeForKnobs(0, 0)
    /\ prevMode = NoMode
    /\ knoba = 0
    /\ knobd = 0
    /\ knobaToKnobd = [ka \in 0 .. 7 |-> 0]
    /\ modeParam = NoMode
    /\ started = [m \in ControlModes |-> FALSE]
    /\ launching = {curMode} \cap ControlModes
    /\ feedGo = [f \in TickingFeeds |-> FeedCount(curMode, f)]
    /\ listening \in IF curMode \in NetworkModes THEN BOOLEAN ELSE {FALSE}
    /\ evt = NoEvent
    /\ loop = "run"

-----------------------------------------------------------------------------
(* The loop *)

Receive ==
    /\ loop = "run"
    /\ evt = NoEvent
    /\ evt' \in Events
    /\ UNCHANGED <<navVars, started, launching, feedVars, loop>>

\* The loop is handling an event with this id.
Handling(ids) ==
    /\ loop = "run"
    /\ evt.id \in ids
    /\ evt' = NoEvent

\* The current mode has a handler and the event is offered to it.
Offered ==
    \/ curMode \in SystemModes
    \/ curMode \in ControlModes /\ evt.id \notin SystemEvents

\* The handler of a control mode returns the event untouched.
ControlReturnsIt == started[curMode] /\ evt.id \notin ControlEvents

\* The event reaches the switch statement of the loop.
ReachesLoop ==
    /\ curMode \notin SystemModes
    /\ Offered => ControlReturnsIt

Swallowed == UNCHANGED <<navVars, started, launching, feedVars, loop>>

\* Handler of the lamp test.  On KNOBD_PUSH main returns and the process ends;
\* on KNOBA_PUSH the machine is powered off unless the command fails.
TestHandler ==
    /\ curMode = testMode
    /\ Handling(EventIds)
    /\ CASE evt.id = "TEST" /\ ~evt.on -> back
         [] evt.id = "KNOBD_PUSH" /\ evt.on ->
                /\ loop' = "off"
                /\ UNCHANGED <<navVars, started, launching, feedVars>>
         [] evt.id = "KNOBA_PUSH" /\ evt.on ->
                /\ loop' \in {"run", "off"}
                /\ UNCHANGED <<navVars, started, launching, feedVars>>
         [] OTHER -> Swallowed

LevelsHandler ==
    /\ curMode = levelsMode
    /\ Handling(EventIds)
    /\ IF evt.id = "S_INST" THEN back ELSE Swallowed

EntryHandler ==
    /\ curMode = entryMode
    /\ Handling(EventIds)
    /\ IF evt.id = "ENABLE" THEN back ELSE Swallowed

ControlHandler ==
    /\ curMode \in ControlModes
    /\ Offered
    /\ ~ControlReturnsIt
    /\ Handling(EventIds)
    /\ Swallowed

SelectTest ==
    /\ ReachesLoop
    /\ Handling({"TEST"})
    /\ evt.on
    /\ to(testMode)
    /\ UNCHANGED <<knoba, knobd, knobaToKnobd, modeParam>>

\* Mutation: the mode to edit is taken before the new mode is remembered.
SelectEntryStale ==
    /\ ReachesLoop
    /\ Handling({"HALT"})
    /\ modeParam' = prevMode
    /\ to(entryMode)
    /\ UNCHANGED <<knoba, knobd, knobaToKnobd>>

SelectEntry ==
    /\ ReachesLoop
    /\ Handling({"HALT"})
    /\ curMode # levelsMode
    /\ modeParam' = curMode
    /\ to(entryMode)
    /\ UNCHANGED <<knoba, knobd, knobaToKnobd>>

SelectLevels ==
    /\ ReachesLoop
    /\ Handling({"S_BUS_CYCLE"})
    /\ curMode # entryMode
    /\ to(levelsMode)
    /\ UNCHANGED <<knoba, knobd, knobaToKnobd, modeParam>>

\* Mutation: the data knob position is not remembered.
MoveKnobsForgetting(ka, kd, new) ==
    IF new = NoMode \/ new = curMode
    THEN Swallowed
    ELSE /\ knoba' = ka
         /\ knobd' = kd
         /\ to(new)
         /\ UNCHANGED <<knobaToKnobd, modeParam>>

\* Mutation: it is remembered before the position is found to be empty.
MoveKnobsTooEarly(ka, kd, new) ==
    /\ knobaToKnobd' = [knobaToKnobd EXCEPT ![ka] = kd]
    /\ UNCHANGED modeParam
    /\ IF new = NoMode \/ new = curMode
       THEN UNCHANGED <<curMode, prevMode, knoba, knobd, started, launching, feedVars, loop>>
       ELSE knoba' = ka /\ knobd' = kd /\ to(new)

\* The end of the knob cases: refuse with a sound, or move.
MoveKnobs(ka, kd, new) ==
    IF new = NoMode \/ new = curMode
    THEN Swallowed
    ELSE /\ knoba' = ka
         /\ knobd' = kd
         /\ knobaToKnobd' = [knobaToKnobd EXCEPT ![ka] = kd]
         /\ to(new)
         /\ UNCHANGED modeParam

Click == IF evt.on THEN 1 ELSE -1

TurnKnoba ==
    /\ ReachesLoop
    /\ Handling({"KNOBA"})
    /\ LET ka == knoba + Click
       IN  IF ka \in 0 .. 7
           THEN MoveKnobs(ka, knobaToKnobd[ka], modeForKnobs(ka, knobaToKnobd[ka]))
           ELSE Swallowed

TurnKnobd ==
    /\ ReachesLoop
    /\ Handling({"KNOBD"})
    /\ LET kd == knobd + Click
       IN  IF kd \in 0 .. 3
           THEN MoveKnobs(knoba, kd, modeForKnobs(knoba, kd))
           ELSE Swallowed

\* No case of the switch statement is for this event.
NoCase ==
    /\ ReachesLoop
    /\ Handling(EventIds \ SystemEvents)
    /\ ~(evt.id = "TEST" /\ evt.on)
    /\ Swallowed

-----------------------------------------------------------------------------
(* The start() goroutines of the control modes, as the loop sees them *)

\* The command is running and `started` is set.
Launched(m) ==
    /\ m \in launching
    /\ launching' = launching \ {m}
    /\ started' = [started EXCEPT ![m] = TRUE]
    /\ UNCHANGED <<navVars, feedVars, evt, loop>>

\* A pipe or the command could not be had: start returns.
LaunchFailed(m) ==
    /\ m \in launching
    /\ launching' = launching \ {m}
    /\ UNCHANGED <<navVars, started, feedVars, evt, loop>>

\* The command ended with an error.
Died(m) ==
    /\ started[m]
    /\ started' = [started EXCEPT ![m] = FALSE]
    /\ UNCHANGED <<navVars, launching, feedVars, evt, loop>>

Control(m) == loop # "off" /\ (Launched(m) \/ LaunchFailed(m) \/ Died(m))

Next ==
    \/ Receive
    \/ TestHandler \/ LevelsHandler \/ EntryHandler \/ ControlHandler
    \/ SelectTest \/ SelectEntry \/ SelectLevels
    \/ TurnKnoba \/ TurnKnobd \/ NoCase
    \/ \E m \in ControlModes : Control(m)

Spec == Init /\ [][Next]_vars

-----------------------------------------------------------------------------
(* Properties *)

\* The type invariant: the mode shown is never nil, a covered mode is known.
TypeOK ==
    /\ curMode \in Modes \cup SystemModes
    /\ prevMode \in Modes \cup {NoMode}
    /\ knoba \in 0 .. 7
    /\ knobd \in 0 .. 3
    /\ knobaToKnobd \in [0 .. 7 -> 0 .. 3]
    /\ modeParam \in Modes \cup {NoMode}
    /\ started \in [ControlModes -> BOOLEAN]
    /\ launching \subseteq ControlModes
    /\ feedGo \in [TickingFeeds -> Nat]
    /\ listening \in BOOLEAN
    /\ evt \in Events \cup {NoEvent}
    /\ loop \in {"run", "blocked", "off"}

\* The configured mode that is selected, whether or not a system mode covers it.
Base == IF curMode \in SystemModes THEN prevMode ELSE curMode

\* The tracked knob positions always name the selected mode, also while a
\* system mode covers it and its knobs turn something else, and the data knob
\* position remembered for this address knob position is the current one, so
\* that a click of the address knob followed by the opposite click comes back
\* (eventloop.go:209-238).
KnobsNameBase ==
    /\ Base \in Modes
    /\ KnobaOf[Base] = knoba
    /\ KnobdOf[Base] = knobd
    /\ knobaToKnobd[knoba] = knobd

\* The data knob position remembered for a section that has modes is always
\* that of one of them: the address knob is never refused a section with modes
\* because of where the data knob was left (eventloop.go:219-223).
RememberedPositions ==
    \A ka \in 0 .. 7 :
        (\E m \in Modes : KnobaOf[m] = ka) => modeForKnobs(ka, knobaToKnobd[ka]) # NoMode

\* Data entry always edits the memory of the mode it was opened over, the one
\* that ENABLE will bring back, and never that of an earlier session
\* (eventloop.go:200-204, mode.go:465).
EntryEditsBase == curMode = entryMode => modeParam = prevMode /\ modeParam \in Modes

\* No mode lists a feed twice.
DuplicateFree == \A m \in Modes, f \in TickingFeeds : FeedsOf[m][f] \in {0, 1}

\* Through any sequence of switches, a feed has one goroutine when the mode
\* shown lists it and none when it does not, and no stop has blocked the loop
\* (eventloop.go:99-113), in a configuration without duplicate feeds.
FeedsMatchMode ==
    /\ loop # "blocked"
    /\ \A f \in TickingFeeds : feedGo[f] = FeedCount(curMode, f)

\* The panel's promise: system modes cover the selected mode and give it back,
\* knobs move one click at a time, only the lamp test ends the program.
panel == INSTANCE Panel WITH
    base    <- Base,
    overlay <- IF curMode \in SystemModes THEN curMode ELSE "none",
    edited  <- IF curMode = entryMode THEN modeParam ELSE "nobody",
    on      <- loop # "off"

PanelSpec == panel!Spec

\* The README's promise (README.md:148-150) that the TEST switch activates the
\* test mode, whatever configured mode is shown.
TestSwitchWorks ==
    [][ evt.id = "TEST" /\ evt.on /\ evt' = NoEvent /\ curMode \in Modes
        => curMode' = testMode ]_vars
=============================================================================
