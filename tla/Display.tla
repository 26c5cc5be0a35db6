------------------------------ MODULE Display ------------------------------
(***************************************************************************)
(* The display path of blink11: messages travel over the bus, a buffered   *)
(* channel, from feeds, clients and controls to the one goroutine that     *)
(* consumes them, lights the meter of the current mode and stores the last *)
(* value of each metric; meanwhile the event loop switches modes, restores *)
(* the meters of the new mode from the store, and sends to the same bus.   *)
(*                                                                         *)
(* curMode and running are plain variables shared by those goroutines with *)
(* no lock around a read and the action taken on it, so every such read is *)
(* a step of its own here.  A meter is reduced to the one LED it drives;   *)
(* a full bus blocks its senders.  Only configured modes are shown: system *)
(* modes take the same path with other sends.                              *)
(***************************************************************************)
EXTENDS Integers, Sequences

CONSTANTS
    Modes,          \* the configured modes
    ControlModes,   \* those with a control command, hence a running state
    FeedModes,      \* those that list the ticking feed
    InitialMode,    \* the mode at (0,0)
    Position,       \* Position[m]: the value the knob metrics have in mode m
    Meters,         \* Meters[m]: metric name -> LED, the meters of mode m
    FeedMetric,     \* the metric the ticking feed sends
    ClientMetric,   \* the metric a network client sends
    FeedValues,     \* the values the feed sends
    ClientValues,   \* the values the client sends
    Leds,           \* the LEDs the meters use
    BusCap          \* capacity of the bus, 50 in the code

NoMode == "nil"
RunMetric  == "system.running"
KnobMetric == "system.knobs"         \* system.knoba and system.knobd, sent in turn
Update     == [name |-> "updateRUNLed", val |-> 0]     \* the Control message
Off        == [name |-> "off", val |-> 0]              \* an LED that is not lit
NoMsg      == Off

MetricNames == {FeedMetric, ClientMetric, RunMetric, KnobMetric}

\* makeModes refuses a mode with two meters on one LED.
ASSUME DisplayAssumption ==
    /\ InitialMode \in Modes
    /\ ControlModes \subseteq Modes
    /\ FeedModes \subseteq Modes
    /\ Position \in [Modes -> Nat]
    /\ \A m \in Modes :
        /\ DOMAIN Meters[m] \subseteq MetricNames
        /\ \A n \in DOMAIN Meters[m] : Meters[m][n] \in Leds
        /\ \A n, k \in DOMAIN Meters[m] : Meters[m][n] = Meters[m][k] => n = k
    /\ FeedValues \cup ClientValues \subseteq Nat
    /\ BusCap \in Nat \ {0}

VARIABLES
    curMode,        \* the mode shown
    running,        \* per control mode, mode.running
    bus,            \* the messages in the channel
    store,          \* last value of each metric, Off when never stored
    leds,           \* what each LED shows
    lpc,            \* the event loop: where it is in selectMode
    old,            \* its oldMode
    todo,           \* the meters it has still to restore
    lmsg,           \* the metric it retrieved, or is about to send
    cpc,            \* the consumer: where it is with a message
    cmsg,           \* that message
    cled,           \* the LEDs of the meter it found
    fpc,            \* the feed's goroutine: "none", "select" or "send"
    spc             \* per control mode, setRunning: "idle" or "notify"

loopVars == <<lpc, old, todo, lmsg>>
consVars == <<cpc, cmsg, cled>>
vars == <<curMode, running, bus, store, leds, loopVars, consVars, fpc, spc>>

Metric(n, v) == [name |-> n, val |-> v]

\* bus <- msg: possible while the channel is not full.
Send(msg) == Len(bus) < BusCap /\ bus' = Append(bus, msg)

\* curMode.meters[name]: the LEDs lit for a metric in a mode, none without meter.
MeterLeds(m, name) == IF name \in DOMAIN Meters[m] THEN {Meters[m][name]} ELSE {}

Light(ls, msg) == leds' = [l \in Leds |-> IF l \in ls THEN msg ELSE leds[l]]

\* The value updateRUNLed computes.  Modes without control never run.
RunVal == IF curMode \in ControlModes /\ running[curMode] THEN 1 ELSE 0

Init ==
    /\ curMode = InitialMode
    /\ running = [m \in ControlModes |-> FALSE]
    /\ bus = <<>>
    /\ store = [n \in MetricNames |-> Off]
    /\ leds = [l \in Leds |-> Off]
    /\ lpc = "clear" /\ old = NoMode /\ todo = {} /\ lmsg = NoMsg
    /\ cpc = "recv" /\ cmsg = NoMsg /\ cled = {}
    /\ fpc = "none"
    /\ spc = [m \in ControlModes |-> "idle"]

-----------------------------------------------------------------------------
(* selectMode, in the event loop *)

LoopAt(p, q) == lpc = p /\ lpc' = q

SelectMode(new) ==
    /\ LoopAt("idle", "clear")
    /\ new # curMode
    /\ old' = curMode
    /\ curMode' = new
    /\ UNCHANGED <<running, bus, store, leds, todo, lmsg, consVars, fpc, spc>>

ClearLeds ==
    /\ LoopAt("clear", "restore")
    /\ leds' = [l \in Leds |-> Off]
    /\ todo' = DOMAIN Meters[curMode]
    /\ UNCHANGED <<curMode, running, bus, store, old, lmsg, consVars, fpc, spc>>

Retrieve(n) ==
    /\ LoopAt("restore", "show")
    /\ n \in todo
    /\ todo' = todo \ {n}
    /\ lmsg' = store[n]
    /\ UNCHANGED <<curMode, running, bus, store, leds, old, consVars, fpc, spc>>

\* A metric never stored is retrieved without a name, and no meter has that.
Restore ==
    /\ LoopAt("show", "restore")
    /\ Light(MeterLeds(curMode, lmsg.name), lmsg)
    /\ lmsg' = NoMsg
    /\ UNCHANGED <<curMode, running, bus, store, old, todo, consVars, fpc, spc>>

\* Mutation: a knob metric is dropped when the bus is full.
SendKnobsOrDrop ==
    /\ \/ LoopAt("restore", "knobd") /\ todo = {}
       \/ LoopAt("knobd", "feeds")
    /\ IF Len(bus) < BusCap THEN Send(Metric(KnobMetric, Position[curMode])) ELSE UNCHANGED bus
    /\ UNCHANGED <<curMode, running, store, leds, old, todo, lmsg, consVars, fpc, spc>>

SendKnobs ==
    /\ \/ LoopAt("restore", "knobd") /\ todo = {}
       \/ LoopAt("knobd", "feeds")
    /\ Send(Metric(KnobMetric, Position[curMode]))
    /\ UNCHANGED <<curMode, running, store, leds, old, todo, lmsg, consVars, fpc, spc>>

\* The feed is told `done` on an unbuffered channel: the loop waits until the
\* feed's goroutine is back in its select.
SwitchFeeds ==
    /\ LoopAt("feeds", "read")
    /\ \/ old \in FeedModes /\ curMode \notin FeedModes /\ fpc = "select" /\ fpc' = "none"
       \/ old \notin FeedModes /\ curMode \in FeedModes /\ fpc' = "select"
       \/ (old \in FeedModes <=> curMode \in FeedModes) /\ fpc' = fpc
    /\ UNCHANGED <<curMode, running, bus, store, leds, old, todo, lmsg, consVars, spc>>

ReadRunning ==
    /\ LoopAt("read", "send")
    /\ lmsg' = Metric(RunMetric, RunVal)
    /\ UNCHANGED <<curMode, running, bus, store, leds, old, todo, consVars, fpc, spc>>

SendRunning ==
    /\ LoopAt("send", "idle")
    /\ Send(lmsg)
    /\ lmsg' = NoMsg
    /\ old' = NoMode
    /\ UNCHANGED <<curMode, running, store, leds, todo, consVars, fpc, spc>>

-----------------------------------------------------------------------------
(* The consumer of the bus *)

ConsAt(p, q) == cpc = p /\ cpc' = q

Receive ==
    /\ cpc = "recv"
    /\ bus # <<>>
    /\ cmsg' = Head(bus)
    /\ bus' = Tail(bus)
    /\ cpc' = IF Head(bus) = Update THEN "read" ELSE "look"
    /\ UNCHANGED <<curMode, running, store, leds, loopVars, cled, fpc, spc>>

Look ==
    /\ ConsAt("look", "show")
    /\ cled' = MeterLeds(curMode, cmsg.name)
    /\ UNCHANGED <<curMode, running, bus, store, leds, loopVars, cmsg, fpc, spc>>

\* Mutation: the consumer waits for a lock that the loop holds while it switches.
ShowLocked ==
    /\ ConsAt("show", "store")
    /\ lpc = "idle"
    /\ Light(cled, cmsg)
    /\ cled' = {}
    /\ UNCHANGED <<curMode, running, bus, store, loopVars, cmsg, fpc, spc>>

Show ==
    /\ ConsAt("show", "store")
    /\ Light(cled, cmsg)
    /\ cled' = {}
    /\ UNCHANGED <<curMode, running, bus, store, loopVars, cmsg, fpc, spc>>

\* Mutation: a metric is stored only when no meter shows it.
StoreHiddenOnly ==
    /\ ConsAt("store", "recv")
    /\ store' = [store EXCEPT ![cmsg.name] =
                    IF MeterLeds(curMode, cmsg.name) = {} THEN cmsg ELSE @]
    /\ cmsg' = NoMsg
    /\ UNCHANGED <<curMode, running, bus, leds, loopVars, cled, fpc, spc>>

Store ==
    /\ ConsAt("store", "recv")
    /\ store' = [store EXCEPT ![cmsg.name] = cmsg]
    /\ cmsg' = NoMsg
    /\ UNCHANGED <<curMode, running, bus, leds, loopVars, cled, fpc, spc>>

\* updateRUNLed, called by the consumer for the Control message.
ConsReadRunning ==
    /\ ConsAt("read", "send")
    /\ cmsg' = Metric(RunMetric, RunVal)
    /\ UNCHANGED <<curMode, running, bus, store, leds, loopVars, cled, fpc, spc>>

ConsSendRunning ==
    /\ ConsAt("send", "recv")
    /\ Send(cmsg)
    /\ cmsg' = NoMsg
    /\ UNCHANGED <<curMode, running, store, leds, loopVars, cled, fpc, spc>>

-----------------------------------------------------------------------------
(* The senders *)

Tick ==
    /\ fpc = "select"
    /\ fpc' = "send"
    /\ UNCHANGED <<curMode, running, bus, store, leds, loopVars, consVars, spc>>

FeedSend ==
    /\ fpc = "send"
    /\ \E v \in FeedValues : Send(Metric(FeedMetric, v))
    /\ fpc' = "select"
    /\ UNCHANGED <<curMode, running, store, leds, loopVars, consVars, spc>>

\* A client sends metrics, and may as well send the line `control updateRUNLed`,
\* that nothing intercepts; so may the command of a control.
ClientSend ==
    /\ \E msg \in {Metric(ClientMetric, v) : v \in ClientValues} \cup {Update} : Send(msg)
    /\ UNCHANGED <<curMode, running, store, leds, loopVars, consVars, fpc, spc>>

\* Mutation: the bus is not told.
SetRunningSilent(m) ==
    /\ spc[m] = "idle"
    /\ running' = [running EXCEPT ![m] = ~@]
    /\ UNCHANGED <<curMode, bus, store, leds, loopVars, consVars, fpc, spc>>

\* setRunning of a control mode: the flag is set, then the bus is told.
SetRunning(m) ==
    /\ spc[m] = "idle"
    /\ running' = [running EXCEPT ![m] = ~@]
    /\ spc' = [spc EXCEPT ![m] = "notify"]
    /\ UNCHANGED <<curMode, bus, store, leds, loopVars, consVars, fpc>>

Notify(m) ==
    /\ spc[m] = "notify"
    /\ Send(Update)
    /\ spc' = [spc EXCEPT ![m] = "idle"]
    /\ UNCHANGED <<curMode, running, store, leds, loopVars, consVars, fpc>>

-----------------------------------------------------------------------------

Loop ==
    \/ ClearLeds \/ (\E n \in MetricNames : Retrieve(n)) \/ Restore
    \/ SendKnobs \/ SwitchFeeds \/ ReadRunning \/ SendRunning

Consumer == Receive \/ Look \/ Show \/ Store \/ ConsReadRunning \/ ConsSendRunning

Next ==
    \/ Loop
    \/ \E m \in Modes : SelectMode(m)
    \/ Consumer
    \/ Tick \/ FeedSend \/ ClientSend
    \/ \E m \in ControlModes : SetRunning(m) \/ Notify(m)

\* Nothing is in flight between the loop and the consumer; nor from a control.
Quiet == lpc = "idle" /\ cpc = "recv" /\ bus = <<>>
Settled == Quiet /\ \A m \in ControlModes : spc[m] = "idle"

\* The steps taken under an unhurried user and unhurried controls, who wait for
\* the previous switch, start or stop to be over before the next one.
CalmNext ==
    \/ Loop \/ Consumer
    \/ Tick \/ FeedSend \/ ClientSend
    \/ Settled /\ \E m \in Modes : SelectMode(m)
    \/ Settled /\ \E m \in ControlModes : SetRunning(m)
    \/ \E m \in ControlModes : Notify(m)

CalmSpec == Init /\ [][CalmNext]_vars

\* A goroutine that can take a step eventually does.  A sender blocked on the
\* bus, and the loop blocked on a feed's done channel, are queued first come
\* first served by the runtime, or picked at random by a select, so being able
\* to proceed again and again is enough for them.  Nobody has to turn a knob,
\* tick, send, or press START.
Fairness ==
    /\ WF_vars(Consumer)
    /\ SF_vars(Loop)
    /\ SF_vars(FeedSend)
    /\ \A m \in ControlModes : SF_vars(Notify(m))

Spec == Init /\ [][Next]_vars /\ Fairness

-----------------------------------------------------------------------------
(* Properties *)

Messages == [name : MetricNames, val : Nat] \cup {Update, Off}

\* The type invariant: the bus never holds more than its capacity.
TypeOK ==
    /\ curMode \in Modes
    /\ running \in [ControlModes -> BOOLEAN]
    /\ bus \in Seq(Messages) /\ Len(bus) <= BusCap
    /\ store \in [MetricNames -> Messages]
    /\ leds \in [Leds -> Messages]
    /\ lpc \in {"idle", "clear", "restore", "show", "knobd", "feeds", "read", "send"}
    /\ old \in Modes \cup {NoMode}
    /\ todo \subseteq DOMAIN Meters[curMode]
    /\ lmsg \in Messages
    /\ cpc \in {"recv", "look", "show", "store", "read", "send"}
    /\ cmsg \in Messages
    /\ cled \subseteq Leds
    /\ fpc \in {"none", "select", "send"}
    /\ spc \in [ControlModes -> {"idle", "notify"}]

\* The consumer waits for room on the bus, which nobody but the consumer makes.
Wedged == cpc = "send" /\ Len(bus) = BusCap

\* A switch of modes completes, unless the consumer waits for itself: neither the
\* bus that others keep full, nor a feed that waits for room on it before it can
\* be told to stop, keeps the loop for ever (eventloop.go:76-120).
SwitchCompletes == lpc # "idle" ~> lpc = "idle" \/ Wedged

\* "Selection of different modes using the knobs" (README.md:10) needs more: that
\* every switch completes.  A consumer that waits for itself refutes it, see the
\* findings.
SelectionCompletes == lpc # "idle" ~> lpc = "idle"

\* Whatever was displayed or restored on the way, once a switch is over and the
\* bus is drained the knob LEDs show the mode that is selected
\* (eventloop.go:92-95).
KnobLedsRight ==
    Quiet => \A l \in MeterLeds(curMode, KnobMetric) : leds[l] = Metric(KnobMetric, Position[curMode])

\* The LED of a metric in the mode shown is what the store says.
Agrees(n) == \A l \in MeterLeds(curMode, n) : leds[l] = store[n]

\* A race of a message with a switch of modes may leave a stale or foreign
\* value on a meter, but not for good: once switching stops, the metrics that
\* keep coming put their own meters right (eventloop.go:153-157).
MetersHeal ==
    \A n \in {FeedMetric, ClientMetric} :
        (<>[](lpc = "idle") /\ []<>(cpc = "store" /\ cmsg.name = n))
            => <>[](cpc = "recv" => Agrees(n))

\* When nothing is in flight, the RUN led of a control mode is on exactly when
\* the mode is in running state (README.md:212, "is on when in running state").
RunLedRight ==
    Settled /\ curMode \in ControlModes
        => \A l \in MeterLeds(curMode, RunMetric) : leds[l] = Metric(RunMetric, RunVal)
=============================================================================
