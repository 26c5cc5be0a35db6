---------------------------- MODULE ControlMode ----------------------------
(***************************************************************************)
(* The control of one mode (mode.go, newControllerMode): the external      *)
(* command that is launched when the mode is selected, told about switches *)
(* and ticks on its stdin, and listened to on its stdout.                  *)
(*                                                                         *)
(* Every selection of the mode runs start() in a goroutine.  One that gets *)
(* past the `started` check launches a command with a writer and a reader  *)
(* goroutine of its own, waits for the command, and cleans up after it     *)
(* when it failed; such a start() and all it launches is a launch g here.  *)
(* Launches share the flags, the events channel and the eventsQuit channel *)
(* of the mode.  The bus is Display's concern and never blocks here.  Left *)
(* out is the goroutine that watches the file of the command: it changes   *)
(* nothing but the command, which it may kill (Exit).                      *)
(***************************************************************************)
EXTENDS Integers, Sequences, FiniteSets

CONSTANTS
    MaxLaunches,    \* bound: start() goroutines under way or past the check
    MaxCommands,    \* bound: commands launched altogether
    EventsCap,      \* capacity of the events channel, 1000 in the code
    MaxSenders      \* bound, per message: switch messages whose goroutine has not sent yet

\* Messages of the events channel: "start-pressed", "stop" from the command,
\* and "event" for any register, LOAD, EXAM, DEP or CONT switch.
Pressed == {"start-pressed", "event"}

ASSUME ControlAssumption ==
    /\ MaxLaunches \in Nat
    /\ MaxCommands \in Nat
    /\ EventsCap \in Nat \ {0}
    /\ MaxSenders \in [Pressed -> Nat]

\* Lines written to the command.
Lines == {"tick", "start", "stop", "event"}

\* Launches are numbered; a number is used again when its start() launched nothing.
Launches == 1 .. MaxLaunches

VARIABLES
    autostart,      \* the autostart option of the control, fixed
    running,        \* mode.running
    started,        \* a command was launched and has not failed
    autostarted,    \* the start message of an autostart control was asked for
    senders,        \* per message, the goroutines about to send it to events
    events,         \* the events channel
    start,          \* per launch, where its start() is
    command,        \* per launch: "none", "alive", or its exit: "ok" or "failed"
    writer,         \* per launch: "none", "select", "write", and once it has ended "quit",
                    \* when it was told to, or "gaveup", after a failed write
    line,           \* per launch, the line its writer is writing
    reader,         \* per launch: "none", "read", "stop", "done" or "gone"
    told,           \* history: per launch, the last of start and stop its command got
    fresh           \* history: per launch, nothing was left of other commands when its
                    \* own came up, and no other has come up since

flags == <<running, started, autostarted>>
chans == <<senders, events>>
history == <<told, fresh>>
vars == <<autostart, flags, chans, start, command, writer, line, reader, history>>

TypeOK ==
    /\ autostart \in BOOLEAN /\ running \in BOOLEAN
    /\ started \in BOOLEAN /\ autostarted \in BOOLEAN
    /\ senders \in [Pressed -> Nat]
    /\ events \in Seq(Pressed \cup {"stop"}) /\ Len(events) <= EventsCap
    /\ start \in [Launches -> {"none", "check", "launch", "wait", "failed", "restartable",
                               "drain", "quit", "ended"}]
    /\ command \in [Launches -> {"none", "alive", "ok", "failed"}]
    /\ writer \in [Launches -> {"none", "select", "write", "quit", "gaveup"}]
    /\ line \in [Launches -> Lines \cup {"none"}]
    /\ reader \in [Launches -> {"none", "read", "stop", "done", "gone"}]
    /\ told \in [Launches -> {"none", "start", "stop"}]
    /\ fresh \in [Launches -> BOOLEAN]

Init ==
    /\ autostart \in BOOLEAN
    /\ running = FALSE /\ started = FALSE /\ autostarted = FALSE
    /\ senders = [m \in Pressed |-> 0]
    /\ events = <<>>
    /\ start = [g \in Launches |-> "none"]
    /\ command = [g \in Launches |-> "none"]
    /\ writer = [g \in Launches |-> "none"]
    /\ line = [g \in Launches |-> "none"]
    /\ reader = [g \in Launches |-> "none"]
    /\ told = [g \in Launches |-> "none"]
    /\ fresh = [g \in Launches |-> FALSE]

Move(pc, g, p, q) == pc[g] = p /\ pc' = [pc EXCEPT ![g] = q]

-----------------------------------------------------------------------------
(* The event loop: selection, and the mode's handler *)

\* go func() { events <- msg }()
SpawnSender(msg) ==
    /\ senders[msg] < MaxSenders[msg]
    /\ senders' = [senders EXCEPT ![msg] = @ + 1]

\* Mutation: the start message is asked for at every selection.
SelectAsksAgain(g) ==
    /\ Move(start, g, "none", "check")
    /\ \A h \in 1 .. g - 1 : start[h] # "none"
    /\ IF autostart
       THEN SpawnSender("start-pressed") /\ autostarted' = TRUE
       ELSE UNCHANGED <<senders, autostarted>>
    /\ UNCHANGED <<autostart, running, started, events, command, writer, line, reader, history>>

\* selectMode runs start() in a goroutine and gives the handler a zero event.
Select(g) ==
    /\ Move(start, g, "none", "check")
    /\ \A h \in 1 .. g - 1 : start[h] # "none"
    /\ IF autostart /\ ~autostarted
       THEN SpawnSender("start-pressed") /\ autostarted' = TRUE
       ELSE UNCHANGED <<senders, autostarted>>
    /\ UNCHANGED <<autostart, running, started, events, command, writer, line, reader, history>>

\* Without a command, every switch is swallowed.
PressStart ==
    /\ started
    /\ ~autostart
    /\ SpawnSender("start-pressed")
    /\ UNCHANGED <<autostart, flags, events, start, command, writer, line, reader, history>>

PressOther ==
    /\ started
    /\ SpawnSender("event")
    /\ UNCHANGED <<autostart, flags, events, start, command, writer, line, reader, history>>

SenderSends(msg) ==
    /\ senders[msg] > 0
    /\ Len(events) < EventsCap
    /\ senders' = [senders EXCEPT ![msg] = @ - 1]
    /\ events' = Append(events, msg)
    /\ UNCHANGED <<autostart, flags, start, command, writer, line, reader, history>>

-----------------------------------------------------------------------------
(* start() *)

\* It returns at once when the mode already has a command.
CheckStarted(g) ==
    /\ Move(start, g, "check", IF started THEN "none" ELSE "launch")
    /\ UNCHANGED <<autostart, flags, chans, command, writer, line, reader, history>>

\* A pipe cannot be had, or the command cannot be started.
LaunchFails(g) ==
    /\ Move(start, g, "launch", "none")
    /\ UNCHANGED <<autostart, flags, chans, command, writer, line, reader, history>>

HasWriter(g) == writer[g] \in {"select", "write"}

\* Launch h takes no message any more, and changes no flag.
Over(h) == ~HasWriter(h) /\ start[h] \notin {"wait", "failed", "restartable"}

\* A start message waits to be taken.
Asked ==
    \/ senders["start-pressed"] > 0
    \/ \E i \in 1 .. Len(events) : events[i] = "start-pressed"

\* One at most, and the flag tells that it was asked for.
AskedOnce ==
    /\ senders["start-pressed"] <= 1
    /\ \A i \in 1 .. Len(events) : events[i] = "start-pressed" => senders["start-pressed"] = 0
    /\ \A i, j \in 1 .. Len(events) :
           events[i] = "start-pressed" /\ events[j] = "start-pressed" => i = j
    /\ Asked => autostarted

\* A command launched now would find nothing of an earlier one.
NothingLeft == ~running /\ (\A h \in Launches : Over(h)) /\ (autostart => AskedOnce)

Launch(g) ==
    /\ Cardinality({h \in Launches : command[h] # "none"}) < MaxCommands
    /\ Move(start, g, "launch", "wait")
    /\ Move(command, g, "none", "alive")
    /\ Move(writer, g, "none", "select")
    /\ Move(reader, g, "none", "read")
    /\ started' = TRUE
    /\ fresh' = [h \in Launches |-> h = g /\ NothingLeft]
    /\ UNCHANGED <<autostart, running, autostarted, chans, line, told>>

\* c.Wait() returns; only a failure is followed by a cleanup.
WaitOk(g) ==
    /\ command[g] = "ok"
    /\ Move(start, g, "wait", "ended")
    /\ UNCHANGED <<autostart, flags, chans, command, writer, line, reader, history>>

\* Mutation: the flags are not reset before the goroutines are waited for.
WaitFailedKeepsFlags(g) ==
    /\ command[g] = "failed"
    /\ Move(start, g, "wait", "drain")
    /\ running' = FALSE
    /\ UNCHANGED <<autostart, started, autostarted, chans, command, writer, line, reader, history>>

WaitFailed(g) ==
    /\ command[g] = "failed"
    /\ Move(start, g, "wait", "failed")
    /\ running' = FALSE
    /\ UNCHANGED <<autostart, started, autostarted, chans, command, writer, line, reader, history>>

ClearStarted(g) ==
    /\ Move(start, g, "failed", "restartable")
    /\ started' = FALSE
    /\ UNCHANGED <<autostart, running, autostarted, chans, command, writer, line, reader, history>>

ClearAutostarted(g) ==
    /\ Move(start, g, "restartable", "drain")
    /\ autostarted' = FALSE
    /\ UNCHANGED <<autostart, running, started, chans, command, writer, line, reader, history>>

\* Mutation: the writer is not told to quit.
ReaderDoneNoQuit(g) ==
    /\ Move(start, g, "drain", "ended")
    /\ Move(reader, g, "done", "gone")
    /\ UNCHANGED <<autostart, flags, chans, command, writer, line, history>>

\* <-readMessagesDone, a rendezvous with the reader of the launch.
ReaderDone(g) ==
    /\ Move(start, g, "drain", "quit")
    /\ Move(reader, g, "done", "gone")
    /\ UNCHANGED <<autostart, flags, chans, command, writer, line, history>>

\* eventsQuit <- true, a rendezvous with whichever writer takes it.
QuitWriter(g, w) ==
    /\ Move(start, g, "quit", "ended")
    /\ Move(writer, w, "select", "quit")
    /\ UNCHANGED <<autostart, flags, chans, command, line, reader, history>>

-----------------------------------------------------------------------------
(* The writer of a launch *)

Take(w, msg) ==
    /\ writer[w] = "select"
    /\ events # <<>>
    /\ Head(events) = msg
    /\ events' = Tail(events)

Write(w, l) ==
    /\ writer' = [writer EXCEPT ![w] = "write"]
    /\ line' = [line EXCEPT ![w] = l]

TakeStop(w) ==
    /\ Take(w, "stop")
    /\ running' = FALSE
    /\ UNCHANGED <<autostart, started, autostarted, senders, start, command, writer, line,
                   reader, history>>

TakeStartPressed(w) ==
    /\ Take(w, "start-pressed")
    /\ running' = ~running
    /\ Write(w, IF running THEN "stop" ELSE "start")
    /\ UNCHANGED <<autostart, started, autostarted, senders, start, command, reader, history>>

TakeEvent(w) ==
    /\ Take(w, "event")
    /\ Write(w, "event")
    /\ UNCHANGED <<autostart, flags, senders, start, command, reader, history>>

\* Mutation: ticks go to a command that is up, not only to one that is STARTed.
TickWhenStarted(w) ==
    /\ writer[w] = "select"
    /\ started
    /\ Write(w, "tick")
    /\ UNCHANGED <<autostart, flags, chans, start, command, reader, history>>

Tick(w) ==
    /\ writer[w] = "select"
    /\ running
    /\ Write(w, "tick")
    /\ UNCHANGED <<autostart, flags, chans, start, command, reader, history>>

\* The line reaches the command; the writer gives up when there is none.
WriteLine(w) ==
    /\ writer[w] = "write"
    /\ IF command[w] = "alive"
       THEN /\ writer' = [writer EXCEPT ![w] = "select"]
            /\ told' = IF line[w] \in {"start", "stop"}
                       THEN [told EXCEPT ![w] = line[w]] ELSE told
       ELSE writer' = [writer EXCEPT ![w] = "gaveup"] /\ UNCHANGED told
    /\ line' = [line EXCEPT ![w] = "none"]
    /\ UNCHANGED <<autostart, flags, chans, start, command, reader, fresh>>

-----------------------------------------------------------------------------
(* The reader of a launch, and the command *)

\* The command has printed `control stop`, which the reader intercepts; what a
\* command printed before it exited may be read after.
ReadStop(g) ==
    /\ Move(reader, g, "read", "stop")
    /\ UNCHANGED <<autostart, flags, chans, start, command, writer, line, history>>

\* Mutation: the stop is dropped when the channel is full.
SendStopOrDrop(g) ==
    /\ Move(reader, g, "stop", "read")
    /\ events' = IF Len(events) < EventsCap THEN Append(events, "stop") ELSE events
    /\ UNCHANGED <<autostart, flags, senders, start, command, writer, line, history>>

SendStop(g) ==
    /\ Len(events) < EventsCap
    /\ Move(reader, g, "stop", "read")
    /\ events' = Append(events, "stop")
    /\ UNCHANGED <<autostart, flags, senders, start, command, writer, line, history>>

\* End of file: the reader offers done <- true to start().
ReadEnd(g) ==
    /\ command[g] \in {"ok", "failed"}
    /\ Move(reader, g, "read", "done")
    /\ UNCHANGED <<autostart, flags, chans, start, command, writer, line, history>>

\* The command exits by itself, or is killed because its file was modified.
Exit(g) ==
    /\ command[g] = "alive"
    /\ \E how \in {"ok", "failed"} : command' = [command EXCEPT ![g] = how]
    /\ UNCHANGED <<autostart, flags, chans, start, writer, line, reader, history>>

-----------------------------------------------------------------------------

Starting(g) ==
    \/ CheckStarted(g) \/ LaunchFails(g) \/ Launch(g)
    \/ WaitOk(g) \/ WaitFailed(g) \/ ClearStarted(g) \/ ClearAutostarted(g)
    \/ ReaderDone(g) \/ \E w \in Launches : QuitWriter(g, w)

TakeAny(w) == TakeStop(w) \/ TakeStartPressed(w) \/ TakeEvent(w)

Next ==
    \/ PressStart \/ PressOther
    \/ \E m \in Pressed : SenderSends(m)
    \/ \E g \in Launches :
        \/ Select(g) \/ Starting(g)
        \/ TakeAny(g) \/ Tick(g) \/ WriteLine(g)
        \/ ReadStop(g) \/ SendStop(g) \/ ReadEnd(g) \/ Exit(g)

\* Goroutines that can take a step eventually do.  The writer picks at random
\* among the ready cases of its select, and blocked senders are served in turn,
\* so a case or a send that is ready again and again is eventually taken.  The
\* output of a command that exited is finite, so its reader comes to the end.
\* Which of two writers takes a message is left open: of takes, no more is asked
\* than that there be one.
\* Nobody has to select the mode, press a switch, exit or print.
Fairness ==
    /\ SF_vars(\E m \in Pressed : SenderSends(m))
    /\ \A g \in Launches : SF_vars(Starting(g))
    /\ SF_vars(\E w \in Launches : TakeAny(w))
    /\ \A g \in Launches :
        WF_vars(WriteLine(g)) /\ SF_vars(SendStop(g)) /\ SF_vars(ReadEnd(g))

Spec == Init /\ [][Next]_vars /\ Fairness

-----------------------------------------------------------------------------
(* Properties *)

\* Also a command that replaces one that failed is never sent a tick unless the
\* last of start and stop it was sent is start, although the running flag that the
\* tick depends on is also cleared by the start() of the failed one and by the
\* command itself (mode.go:554-575; README.md:251, ticks when STARTed).  This is for
\* a command that came up when nothing was left of others; for one that did not,
\* see StartedBeforeTicks.
TicksAfterStart ==
    \A g \in Launches : fresh[g] /\ line[g] = "tick" => told[g] = "start"

\* A command of an autostart control that came up when nothing was left of others,
\* the first one or one that replaces a failed one, is told start at most once and
\* never stop, however often its mode is selected again: the message asked for by
\* a selection waits in the channel for the command, and none is asked for again
\* before a failure is over (mode.go:662-664, 678-687).  For one that did come up
\* with something left, see NeverToldStop.
AutostartedOnce ==
    \A g \in Launches : autostart /\ fresh[g] =>
        /\ told[g] # "stop"
        /\ told[g] = "start" /\ command[g] = "alive" => ~Asked /\ line[g] # "start"

\* A command that failed always leaves its mode ready for another launch, also
\* when its writer is gone and its goroutines stay blocked (mode.go:659-666;
\* README.md:241, it can be respawned).
FailureFreesMode ==
    (\E g \in Launches : command[g] = "failed") ~>
        ~started \/ \E h \in Launches : command[h] \in {"alive", "ok"}

\* Of commands that failed, no goroutines are left behind but those of a writer that
\* gave up and the start() that waits for ever for a writer to take its quit message:
\* every other failure ends a writer, its own or another, so that no more writers are
\* left than commands that have not failed (mode.go:552, 581-585, 665-666).  It is
\* not said of the watcher of the file of a command, which is left out and stays.
CleanupsEnd ==
    []<>(/\ Cardinality({w \in Launches : HasWriter(w)})
              <= Cardinality({g \in Launches : command[g] \in {"alive", "ok"}})
         /\ Cardinality({g \in Launches : command[g] = "failed" /\ start[g] # "ended"})
              <= Cardinality({w \in Launches : writer[w] = "gaveup"}))

\* `control stop` is obeyed: once the command has printed it, the control
\* comes to be stopped, unless nobody is left to write to the command
\* (mode.go:647-656, 560).
StopObeyed ==
    (\E g \in Launches : reader[g] = "stop" /\ HasWriter(g)) ~>
        ~running \/ \A w \in Launches : ~HasWriter(w)

\* A command that is alive can be started and stopped with START, so it has a
\* writer (README.md:247).
CommandHasWriter ==
    \A g \in Launches : command[g] = "alive" => HasWriter(g)

\* A mode has one process, "started when first switching to a mode" (README.md:237).
\* Two selections that both find none started refute it, see the findings.
OneCommand ==
    \A g, h \in Launches : command[g] = "alive" /\ command[h] = "alive" => g = h

\* Every other command has failed.
OthersFailed(g) == \A h \in Launches \ {g} : command[h] \in {"none", "failed"}

\* "you cannot stop an autostarted control" (mode.go:685): it is never told stop.
\* One that replaces a failed one may be, see the findings.
NeverToldStop ==
    \A g \in Launches : autostart /\ OthersFailed(g) => told[g] # "stop"

\* "When the control has been STARTed, it receives `tick` messages" (README.md:251).
\* One that replaces a failed one may receive them before, see the findings.
StartedBeforeTicks ==
    \A g \in Launches :
        OthersFailed(g) /\ command[g] = "alive" /\ line[g] = "tick" => told[g] = "start"
=============================================================================
