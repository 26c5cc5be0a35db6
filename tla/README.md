# Verification of blink11

TLA+ models of blink11, the controller of a PiDP-11 front panel, checked with
TLC and proved about with TLAPS. Paths are those of the repository: the Go
program is in `src/` (here `src/src/` from the root of this project's
`PROJECT.json`), its documentation in `README.md`.

## 1. The system

blink11 is one Go process made of goroutines that share variables and talk
over channels.

| part | code | state | operations |
|---|---|---|---|
| event loop | `eventloop.go` 173-241 | `curMode`, `prevMode`, `knoba`, `knobd`, `knobaToKnobd` | takes console events one at a time, offers them to the handler of the mode, selects modes (`selectMode`, `to`, `back`) |
| bus and its consumer | `eventloop.go` 37, 147-170 | a channel of 50 messages | `visualise`, `store`, `updateRUNLed`, sounds |
| metrics store, meters | `metric.go`, `meter.go` | last value per metric; LEDs | `store`, `retrieve`, `Meter.visualise` |
| modes | `mode.go` 25-232, `config/` | the map of modes, their knob positions, feeds and meters | `makeModes` |
| system modes | `mode.go` 235-479 | lamp test: none; levels: volume, brightness, speech; entry: `entryAddr`, `entryData`, `justExamined`, `justDeposited`, `modeParam` | their handlers |
| control modes | `mode.go` 486-711 | per mode: `running`, `started`, `autostarted`, channels `events` and `eventsQuit`, the command | `start()`, handler, writer, reader, watcher |
| message reader | `read.go` | metrics seen per source | parses the lines of a command or client, sends to the bus |
| feeds | `feed.go` | a goroutine and a `done` channel per ticking feed; `started` of the network feed; counters of the idle patterns | `start`, `stop`, `handleConnection`, the tickers of the clock and the patterns |
| memory | `memory/` | `modeMemories` and its file | `Init`, `Read`, `Write`, `UsedAddresses`, `save`, the level settings |
| message counter | `counter.go` | three time slots, under a lock | `account`, the ticker |
| autoscaler | `autoscale.go` | per metric without a max: 3600 slots and their statistics, without a lock | `adjust`, `add`, `shift`, `analyse` |
| console, audio | `console/`, `audio/` | brightness, speech flag; streams, sounds, `muted` | `Led`, `ClearLeds`, `Mute`, `Play`, `Speak`, `SpeakSync` |
| agent11 | `agent11/` | a connection, `messageChan`, `stopChan`, the last readings of the kernel counters | a second program that sends metrics and the lines it is given, and reconnects |
| program | `main.go`, `lib/` | lock file, `exitChan`, exit hook | start, signals, exit |

How they interact. Console events go to the event loop, over a channel of the
pidp11 library. Feeds, clients, control commands, `setRunning`, the counter and
the event loop itself send to the bus; one goroutine drains it, and itself sends
to it. The loop and that goroutine both read `curMode` and drive the LEDs.
`selectMode` starts a goroutine for the command of the mode, stops and starts
feeds over unbuffered channels, and calls the handler of the mode with a zero
event. A deposit in data entry leaves a goroutine that rewrites the memory file.

Hard behaviours: everything that shares `curMode`, `running` or `started`
without a lock held across the read and its use; a bus whose consumer is one of
its senders; unbuffered rendezvous (`done`, `eventsQuit`, `readMessagesDone`)
that hang when the other side has gone; commands that die and are launched
again; file dumps in goroutines; crashes in the middle of one.

What makes each part correct:

- event loop: one configured mode is always selected, a system mode covers it
  and gives it back, the knob positions name it; its feeds and no other run.
- bus and LEDs: nobody waits for ever; when traffic settles, the LEDs show the
  mode selected, its running state and the last values.
- control modes: ticks only between start and stop; `control stop` is obeyed;
  after a failure the mode can launch another command, which can be controlled.
- data entry and memory: what is displayed is what is stored; deposits go where
  they are shown to go; what is deposited is on file, across restarts.
- modes: positions are unique and dense; imports are acyclic and applied the same
  way whatever the order they are walked in; an LED has one meter.
- network feed: when a client is gone its metrics are shown as errors, and a
  client that comes back gets them back.
- agent11: after a reconnection there is one writer and one emitter of a kind.
- counter, autoscaler: no message is missed or counted twice; what a race does to
  a history goes; a meter never shows an error for a metric of the program.
- program: an invalid configuration ends it; the lock file is there exactly
  while it runs.
- mixer: sounds end; speeches are not mixed; nobody waits for ever for the end
  of one.
- levels: a click moves a setting by one level, and a restart finds the level
  left.

`PROJECT.json` lists every component with what is left out of it, and every
hazard at its line.

## 2. Modules

```
Panel  <---refines---  EventLoop    <- EventLoop_proofs ->  Levels
                       NetworkFeed  <- Connections_proofs -> Agent
                       Display      <- Display_proofs
                       ControlMode  <- ControlMode_proofs
                       DataEntry    <- DataEntry_proofs
                       Mixer        <- Mixer_proofs
Positions <-extends-  EventLoop, Modes
Modes  <--extends----  Program      <- Program_proofs
Counter, AutoScaler,
Feeds, Stats, Meters <-  Metrics    <- Metrics_proofs
MCEventLoop  MCDisplay  MCControlMode  MCMixer
MCLevels     MCProgram  MCMetrics                           constants for TLC
```

Two modules of proofs hold those of two components each: `EventLoop_proofs` also
those of the levels mode, and `Connections_proofs` those of the two ends of a
connection. The components are not composed there; they share no variable and no
definition, which is why some of their names carry a prefix (`LevelsInit`,
`AgentNext`).

`DataEntry`, `NetworkFeed` and `Agent` have constants that a configuration can
state by itself.

### Panel and EventLoop

`Panel` is what the front panel promises to a user: a base mode, an overlay
that hides and gives back the base, one click of a knob at a time.

`EventLoop` is the loop of `eventloop.go`: the variables have the names of the
code, and so have `selectMode`, `to`, `back` and `modeForKnobs`. `Receive` takes
an event; one action per outcome handles it: the four handlers, then the cases
of the switch statement (`SelectTest`, `SelectEntry`, `SelectLevels`,
`TurnKnoba`, `TurnKnobd`, `NoCase`). `Offered`, `ControlReturnsIt` and
`ReachesLoop` are the filter of lines 185-193. `Launched`, `LaunchFailed` and
`Died` are what the goroutine of `start()` does to `started` between any two of
these. `SwitchFeeds` counts, per feed, the goroutines alive: `feed.stop()` takes
one away, or blocks the loop for ever (`loop = "blocked"`) when there is none.

The map of modes is a constant; `ModesAssumption` and `PositionsAssumption` say
what `makeModes` guarantees of a configuration it accepts. The positions are
`Positioned`, an operator of the module `Positions` that `Modes` also states
`PositionsRight` with: what is proved of every configuration there is what is assumed
here. One thing is not checked by `makeModes` and assumed all the same: that some mode
sits at (0,0). A configuration whose first section is empty and not hidden makes the
program fail at once.

What the handlers do besides choosing the mode is elsewhere: address and data of
the entry mode in `DataEntry`, LEDs and bus in `Display`, the command of a
control in `ControlMode`, the settings of the levels mode in `Levels`.

`PanelSpec` is the refinement: `base` is `curMode`, or `prevMode` when a system
mode is shown.

### Display

The message path, one step per shared access: the loop goes through `selectMode`
with a program counter (`clear`, `restore`, `show`, `knobd`, `feeds`, `read`,
`send`), the consumer has one of its own (`look`, `show`, `store`, or `read`,
`send` for `updateRUNLed`), a ticking feed and the two halves of `setRunning`
too. A client may send a metric at any moment, and the line `control updateRUNLed`
as well, which makes the consumer send to the bus that it drains. `Send` blocks on a
full bus; the consumer is `Wedged` when that happens to itself.

A meter is reduced to one LED. The two knob metrics have one name, and are sent
one after the other. Metrics are sent by one feed and one client. The map of
meters is looked up (`Look`) before the meter is lit (`Show`), since the mode
may change in between.

`CalmSpec` is the same system under an unhurried user: a switch of modes, and a
start or stop of a control, wait for the previous one to be over (`Settled`).
It is a restriction of the environment, not of the code.

### ControlMode

The control of one mode. A launch `g` is one run of `start()` with the command,
writer and reader it launches; all launches share the flags and the two
channels, as the closures of `newControllerMode` do. The statements of the
cleanup (lines 662-666) are separate steps. `QuitWriter(g, w)` is the rendezvous
on `eventsQuit` of launch `g` with whichever writer `w` takes it. A switch spawns
a goroutine per message (`SpawnSender`, `SenderSends`), a tick is written only
if `running`, a command may exit at any moment, with success or not; what it
printed before may be read after. The bus never blocks here. The content of
`memory` lines is left out. So is the goroutine that watches the file of the command:
all it does to the rest is to kill the command (`Exit`). It does not end with the
command, but polls on until the file is modified, after every failure.

`told` and `fresh` are history variables: what a command was last told, and whether
nothing was left of other launches when it came up (`NothingLeft`: no writer, no
cleanup before its last flag, `running` down, one start message at most) and no other
has come up since. What is promised of the lines a command gets is promised of such
commands, the first ones and those that replace failed ones. For the others the code
keeps no promise of the documents: see `ControlFindings.cfg`.

`isRunning` and `setRunning` of line 568-573 are one step: nobody else sets
`running` to TRUE, and a concurrent reset commutes with it.

### DataEntry

Sessions of data entry on any mode, the table of memories and its file. A
deposit writes the table under the lock and leaves a dump (`Dump`), which
marshals the table under the lock (`Marshal`), truncates the file (`Truncate`)
and writes it (`WriteFile`). `WriteFile` after somebody else wrote may leave the
end of a longer text (`Mixed`), which is taken not to parse. `Crash` ends the
program at any point; `Restart` is `memory.Init`: an empty file parses as a nil
map, and the next deposit panics (`DepPanics`).

`last` and `overlap` are history variables: they record what the session did
last and whether dumps overlapped, and no action depends on them.

### NetworkFeed

The TCP endpoint: the listener (`Start`, `AcceptFails`, `Accept`), and per
client the connection, the goroutine of `handleConnection` and its reader, which
are one process here since the first only waits for the second. The reader
remembers the metrics it has `seen`, and shows each as an error (`SendError`)
when its scanner ends, at the end of the connection (`Eof`) or on a line that is
too long (`LineRefused`). The bus keeps the order of what is sent to it, and
`Display` is about how it is drained: sending and showing are one step here.
Clients may send the same metrics, as agent11 does after it reconnects.

### Agent

agent11, the other end: every connection brings one emitter per kind of metrics
(`NewEmitters`) and one writer; all of them share the two unbuffered channels
`messageChan` (`Take`) and `stopChan` (`Stop`), so that the writer of a lost
connection may take messages and end emitters of the new one. A line of `-stdin` or of an
`-emitter` program (`Sources`) comes at any time and is taken like a message of an
emitter (`TakeLine`), by any of the writers. Connections break
(`Break`), a write on a broken one may succeed for a while (`Write`) or fail
(`WriteFails`), and the agent may be killed and started again. `Alive` are the
emitters there are, `StopsToCome` the stops writers have yet to send, one by one:
the first `StandsFor(n)` of each connection.

### Mixer

The mixer and its callers. A call goes through `lookup` (in `Load`), `tts` (in
`ttsApi`), `read` (`loadFile`), `play` and `place` (`playOnStream`), and `wait`
for `SpeakSync`. A section of a caller under the lock is one step, taken when
the mixing goroutine does not hold it; the mixing goroutine takes the lock in
`Mix`, sends on `done` and deletes in `EndStream`, and gives it back in `Write`.
`LookupRaces` is the unlocked read of `soundByName` during a write, which the Go
runtime may turn into a fatal error, and `MixPanics` the nil sound of a failed
text to speech: both end the program (`up = FALSE`). A sound is its number of
samples. The cache is what `Load` finds: speeches are never found in it. `ttsApi`
is one step, and the raw file it leaves is whole; what goroutines that make the
same file do to one another is left out (section 6).

### Levels

The handler of the levels mode, with volume and brightness in percent.
`Truncated` is the percent that `int(vol * 100)` loses; `MCLevels` lists where
IEEE 754 numbers do, for the 32-bit volume read from the audio server and for
the product written. Each change leaves a `Write` to come, each write a
`Marshal`, each of these a `WriteFile`, in any order; `WriteFile` is one step,
`DataEntry` splits it. `kept` and `saving` are history variables: the settings whose
last save overlapped with no other, as levels, and those saved since nothing was
left to save. A setting that is saved while another save is on its way leaves `kept`,
and so does the other. The backend `none` is left out.

### Modes and Program

`Modes` is `makeModes`. Modes are parsed one by one (`ParseMode`, `NextSection`),
with the counters of the code for the positions; then `WalkFrom` takes any mode
left, as the range over a Go map does, and `WalkImport`, `Import` and `WalkEnds`
are a call and the returns of the recursive `walk`, on an explicit stack. The
stack is there because a failed `lib.Check` does not always end the walk: before
the exit hook is set it panics (`Panics`), afterwards it asks main to exit and
returns (`Passes`), so that a cycle is walked until the stack is exhausted
(`StackOverflow`, at `MaxDepth` frames) or main has returned. `CheckLeds` is the
check that no LED has two meters, nor is listed twice by one: meters are the lists of
LEDs of the configuration. Fields of the YAML file that do not change the
modes made are left out. What the result should be is written a second time from
the configuration alone, with least closed sets where the code walks
(`Following`, `Reached`, `Acceptable`, `FinalFeeds`, `FinalMeters`), and compared.
`ConfigsAssumption` says what the YAML decoder returns, lists and maps of any size,
and that a stack holds `MaxDepth` frames, at least as many as there are modes, as one
of Go, which grows to hundreds of megabytes, does for any file somebody wrote.

`Program` has one instance started and ended any number of times, with another
configuration each time, around this: `Stat` and `Create` are the check and the
creation of the lock file, `GoEventLoop` starts `MakeModes` in its goroutine,
`SetExitHook` comes at any time after that. Only `Return` and `StartFails`, where
main runs its deferred calls, remove the lock; `Dies` (the goroutine panics) and
`Killed` (signals before `signal.Notify`, `log.Fatal`, kill) do not. The other
instance is what it does to the lock file and no more. `RemoveLock` is
`scripts/runner`. `stale` is a history variable.

### Counter, AutoScaler, Feeds, Stats, Meters and Metrics

`Metrics` follows one metric from its source to the LEDs; `kind` says which
source, and the five modules it extends are the stages.

- `Stats`: agent11's arithmetic. A reading is what each kernel counter advanced
  by; `Percents` is `v()` with its integer division and, without ticks, what
  `int()` makes of a division by zero: several outcomes, since agents run on more
  than one processor. Ticks are those proc(5) allows, guest time and an iowait
  that goes back included. Parsing of `/proc` is left out.
- `Feeds`: the metrics of the clock and the three idle patterns. The counters of
  two patterns are only used modulo 8 and 16, and kept so. `Second` stands for
  10^9. The animation, which drives LEDs and keeps nothing, is left out.
- `Counter`: the three slots; its lock is never held across anything, so that
  `account` and `Tick` are one step each. `sum` is the sum the ticker is sending.
- `AutoScaler`: the history of a metric without a max. `shift` and `adjust` run
  without a lock: `LoadSlot`, `StoreSlot` and `AddCount` of the consumer interleave
  with `Advance`, `Analyse`, `PublishSpread`, `ZeroSlot` and `ZeroCount`. `AddCount`,
  an increment, is one step: a shift between its load and its store would meet an add
  that counts as met already, from which the history has to recover in any case. The
  passes of `analyse()` over the slots and its store of the mean are one step.
  Floats are exact fractions, with 0/0 and 1/0 for NaN and infinity, and a
  variance is kept for a standard deviation; roundoff is left out. `int()` of
  infinity saturates, as on the arm processors the program is built for.
  `Scale` takes the mean and the spread once each: the code stores nothing between
  its two uses of them, so the compiler need not load them again.
- `Meters`: gate, scale and LEDs of every type of meter. A flashing LED is the
  share of the time that it is lit.

`MetricsAssumption` says what readings, clocks and meters may be: differences of
kernel counters of either sign, load averages that are not negative, the ranges of Go's
`time.Time`, and the meters `newMeterFromConfig()` makes, with any number of LEDs.

`real`, `realMean`, `since` (AutoScaler), `owed` (Counter) and `back` (Metrics)
are history variables. The consumer takes what is sent at once; the bus is
`Display`'s subject. Messages of other metrics are counted only when it is the
counter that is followed (`TakeOther`), where they matter.

## 3. Runs

Passing runs:

| run | asks | constants and bounds |
|---|---|---|
| `event_loop` | the knobs name the base mode; remembered positions name modes; data entry edits the mode it covers; feeds match the mode; `PanelSpec` | six modes in three sections and a hidden one, two controls, two ticking feeds, the network feed. Equal, overlapping and disjoint feed sets of neighbours; sections of two, two and one modes, so that remembered positions differ |
| `display` | knob LEDs right at rest; a switch completes unless the consumer waits for itself; meters of live metrics heal | two modes sharing an LED, no control, `BusCap = 2`, one value per sender, control lines of a client. A bus of two is full as easily as it can be while the loop and the consumer have each something to send |
| `display_control` | the RUN led at rest, with a control mode, under `CalmSpec` | as above |
| `control_mode` | a command that came up with nothing left of others gets ticks only after start, and is autostarted once | `MaxLaunches = 2` selections, `MaxCommands = 2`, beside one another or one after the failure of the other, `EventsCap = 1` (full at once), one START waiting to be sent |
| `control_liveness` | `control stop` is obeyed; a failure frees the mode; after a failure no more goroutines stay than a writer that gave up leaves | as above with `MaxCommands = 1` and one switch of each kind waiting. `ControlCleanup.cfg` is for the last two with two commands, that may take the quit message of one another, and no START: it passes too |
| `data_entry` | type; data match the address; serial deposits are on file; deposits change one word | two modes, switches 0-2, words of one bit (so the switches have a bit to mask), `MaxAddr = 3`, two deposits and two dumps at a time, any number of crashes |
| `network_feed` | no value left when the last handler is through; handlers end; meters come back for the client that stays | two clients sharing two metrics, one line under way each, so that the errors of one meet the values of the other |
| `agent` | emitters and writers balanced; one connection's worth of goroutines in the end | two kinds and lines of `-stdin`, three connections: two stale writers can meet the new emitters |
| `mixer` | speech on one stream; whoever is notified waits; sounds neither replaced nor cut; sounds end; `SpeakSync` returns unless replaced | the loop and two goroutines, a file and a speech of two blocks, the second short; two numbered streams |
| `levels` | what the LEDs show is what clicks count from; settings saved alone survive restarts | all eight volume levels on an old file, or none; three changes, one restart |
| `program` | the verdict of `makeModes` and the modes it makes are those of the reference definitions; positions are unique and start at 0; the lock file tells who runs; an invalid configuration ends the program | 150 import graphs of three modes (trees, chains, diamonds, cycles, unknown modes), five LED clashes and seven layouts at and over the ends of the knobs; `MaxDepth = 6`, more frames than a walk that has not been through a cycle has |
| `metrics` | the rt11 pattern stays on the panel; races leave nothing in the history for longer than a turn of the ring; a message is in exactly three sums; no metric of the program is shown as an error; LEDs tell their value | `SlotsCount = 2`, so that the ring turns, with up to two values and a sum of three per slot (`MaxAdds`, `MaxSum`); readings of up to three ticks of any kinds; every type of meter, with gates and both roundings |

These configurations show where the code does not do what is said of it. TLC finds the
property violated; `PROJECT.json` "findings" quotes the text:

| configuration (module) | property | what happens |
|---|---|---|
| `DisplayWedge.cfg` (`MCDisplay`) | `SelectionCompletes` | a client sends `control updateRUNLed` and fills the bus: the consumer waits for room on it, which only the consumer makes, and the loop for the consumer. `setRunning` of a control sends the same message |
| `DisplayRunLed.cfg` (`MCDisplay`) | `RunLedRight` | the loop reads `running`, the control is started and its LED lit, the loop sends what it read |
| `ControlFindings.cfg` (`MCControlMode`) | `CommandHasWriter` | the writer of a new command takes the quit meant for the old one |
| the same, as it says | `OneCommand` | two selections read `started` before either command has set it |
| the same, as it says | `NeverToldStop` | an autostarted command fails before its start message is taken; the selection that replaces it asks for another, and the two are told as start and stop |
| the same, as it says | `StartedBeforeTicks` | the writer of a failed command takes START after `running` was cleared, and the next command gets ticks at once |
| `EventLoopTestSwitch.cfg` (`MCEventLoop`) | `TestSwitchWorks` | TEST is swallowed while the command of the mode is not up |
| `DataEntryFindings.cfg` (`DataEntry`) | `DepositsSaved` | two dumps write in the other order |
| the same, as it says | `StepsRepeat` | EXAM, ENABLE, HALT, EXAM shows address 1 |
| `AgentKinds.cfg` (`Agent`) | `EveryKindEmitted` | the stops of a lost connection end both emitters of one kind, old and new |
| `MixerPowerOff.cfg` (`MCMixer`) | `PowerOffSpoken` | a speech asked for earlier comes back from the api and replaces the one the loop waits for |
| `LevelsDefaults.cfg` (`MCLevels`) | `DefaultsKept` | only the volume is saved; a restart finds brightness 0 and no speech |
| `ProgramOverlap.cfg` (`MCProgram`) | `LockTellsRunning` | two instances look for the lock file before either creates it |
| `ProgramFindings.cfg` (`MCProgram`) | `DefaultsYield` | an imported meter clashes with the default meter of MASTER |
| the same, as it says | `OnlyCyclesRefused` | a mode imported along two paths is taken for a cycle |
| the same, as it says | `RefusedUnlocks` | the panic of the event loop goroutine leaves the lock file |
| `MetricsSpread.cfg` (`MCMetrics`) | `SpreadOfValues` | the variance is divided by slots that have no values |
| `MetricsFindings.cfg` (`MCMetrics`) | `MaxHolds` | iowait goes back, and the other percentages exceed 100 |
| the same, as it says | `SpreadOfValues` | the infinite spread of a race stays while the mean is the same |

Deadlock is checked in `metrics`. It is not in the others, where the
system may really stop: the program ends from the lamp test (`event_loop`), a
client or a control can wedge the bus (`display`, `display_control`),
bounded launches are used up (`control_mode`, `control_liveness`), a file that does not parse keeps the program down
(`data_entry`), no client or connection need come any more (`network_feed`,
`agent`), the program has panicked (`mixer`), settings and restarts are
bounded (`levels`), and nobody need start the program (`program`).

The type invariant of `DataEntry` is checked in its run, and proved like those of
`EventLoop`, `NetworkFeed`, `Display`, `Agent` and `Levels`; those of `ControlMode` and
`Mixer` are part of the invariants that are proved for them. That of `Metrics` is
proved (`TypeCorrect` of `Metrics_proofs`); `LockTypes` and `Counting` type what the
theorems about `Program` need.

Bounds. `MaxLaunches`, `MaxCommands`, `MaxSenders`, `MaxAddr`, `MaxDeposits`,
`Savers`, `WireCap`, `MaxConns`, `MaxPlays`, `MaxSaves`, `MaxRestarts`, `MaxAdds`,
`MaxSum` and `MaxOthers` bound counters and goroutines in the guards, `MaxDepth`
the stack of a goroutine; `BusCap`, `EventsCap`, `SlotsCount`, `Second` and `MaxInt`
replace 50, 1000, 3600, 10^9 and 2^31 - 1 or 2^63 - 1. What the properties are
about happens within them: a full channel, two selections racing, two dumps
overlapping, a stepped address, a crash before, between and after, an add in the
middle of a shift and another one a turn later, an import clash found only after
a walk. A third dump, or a longer bus, adds more of the same waiting. For every
safety property the proofs remove the bounds altogether. One bound did hide something: `RestartKeepsLevels` passed with
three saves, while an earlier `kept` counted a setting as kept when its value was on
file by coincidence, its save overtaken by another. Its invariant could not be
proved, and TLC has the counterexample with four saves. `kept` is now what its comment
says, the property holds with four saves too (12 million states), and the run keeps
three.

Each property is also checked to fail under a plausible bug in the code
(`PROJECT.json` "mutants"; the `Mutation:` operators in the modules).

## 4. Fairness

`Display`: weak fairness of the consumer, a goroutine that waits for nobody but
the bus; strong fairness of the loop, of a feed and of `setRunning` when they
wait for room on the bus or for a feed: Go serves blocked senders first come
first served, and `select` picks at random among the ready cases, so that
somebody who can proceed again and again does. No user, client or control has to
do anything.

`ControlMode`: the same for the goroutines that send to `events`, for each `start()`,
for the writes of each writer, which wait for nobody, and for the sends and the end of
each reader: the output of a command that exited is finite. A ready `select` case is
eventually picked although ticks keep coming; of two writers that could take a message,
no more is asked than that one of them does. Nobody has to press a switch, and the command has neither to
print nor to exit.

`NetworkFeed`: weak fairness of every handler, whose reads, sends and errors
wait for nobody in this module. A client need not send, nor leave.

`Agent`: weak fairness of tickers and of the main loop; strong fairness of a
writer's meetings with emitters on the two channels, which Go serves in the
order of arrival. A write on a broken connection fails in the end, since TCP
reports the reset.

`Mixer`: weak fairness of the mixing goroutine, which has a ticker. No caller
need do anything, and the api need not answer.

`Program`: weak fairness of the statements of main after the goroutine is started
(`SetExitHook`), of the goroutine (`MakeModes`, `Dies`), and of the select that
takes the request to exit (`ExitAsked`): goroutines that wait for nobody. Nobody
need start the program, kill it or send it a signal.

`EventLoop`, `DataEntry`, `Levels` and `Metrics` state no liveness.

## 5. Proofs

`EventLoop_proofs`, for every configuration that satisfies the assumptions:

- `TypeCorrect`, `KnobsAlwaysNameBase`, `SectionsAlwaysEntered` and
  `EntryAlwaysEditsBase` come from one inductive invariant, `NavInv`, their
  conjunction. None of them is inductive alone: that the base is not nil needs
  the knobs to name it, a click of the address knob keeps the positions true
  only because remembered positions name modes, and `back` is right only because
  a system mode was entered over a configured mode. `NextCases` says what a step
  does to the navigation in four cases, so that the preservation proofs do not
  go through the handlers again.
- `ImplementsPanel`: every step is a step of `Panel` or a stutter, under
  `NavInv`.
- `FeedsAlwaysMatchMode`, assuming `DuplicateFree`: goroutines of a feed equal
  its occurrences in the mode shown, so `stop` always finds one to take its
  message. Without the assumption it is false, see the findings.

`DataEntry_proofs`, for any number of modes, deposits, dumps, any switches:

- `TypeCorrect`, from lemmas on tables (`ReadWord`, `WriteTable`).
- `DataAlwaysMatchesAddress`, with `~up => editing = NoMode` added, since a
  restart must not land in a session.
- `DepositsNowhereElse`, an action property, from `ReadAfterWrite`.
- `SerialDepositsAlwaysSaved`, from `SaveInv`: while no dumps overlapped there
  is at most one, what it marshalled is the table, and nobody wrote after it
  truncated the file.

`EventLoop_proofs`, the levels mode, for any files, saves, restarts and for any
percents that conversions lose:

- `ShownAlwaysCounted`, from `VolumeRoundTrip` and `BrightnessRoundTrip`: a level
  survives the percent written and the percent read, one less each time at most.
- `RestartAlwaysKeepsLevels`, from `LevelsInv`: a setting kept is `AtRest`, good on
  file, in the table and in every dump under way, with no write of it to come; or it
  is `Alone`, the only one saved, with one write, one marshal or one dump left. That
  dumps of other settings may be written in any order does not matter, because all
  of them have the settings at rest.
- `LevelsTypeCorrect`.

`Connections_proofs`, the network feed, for any number of clients and metrics:

- `TypeCorrect`: a connection and its handler come and go together.
- `ValuesAlwaysVouchedFor`: every value on a meter has a reader that has seen
  its metric and will show the error. This is the inductive invariant; a
  connection accepted anew forgets what its slot had seen, which is harmless
  because, by the types, it had no handler.
- `DisconnectionAlwaysShown` follows: when no handler is left, nothing vouches
  for a value.

`Connections_proofs`, the agent, for any number of connections and kinds of metrics:

- `EmittersAlwaysMatchWriters`, from `AgentInv`. The property equates two
  cardinalities; each step adds as many elements to one set as to the other, or
  removes one from each, and the lemmas `ProductWithOne`, `DisjointUnion` and their
  like say what that does. Needed besides: a connection not made has no goroutine,
  and a writer is at its stops exactly as long as it owes some.
- `AgentTypeCorrect`.

`Display_proofs`, for any modes, meters, values and capacity of the bus, where the
meters of a mode are on LEDs of their own (`mode.go` 200-217 checks it):

- `TypeCorrect`: among others, the bus is never over its capacity, though four kinds
  of goroutines and the consumer itself send to it.
- `KnobLedsAlwaysRight`, from `KInv`: once the loop has sent the positions, the last
  knob metric is on the bus, with the consumer, or shown, and nothing that comes after
  it is another. Assumes `OwnMetricsKept`, that neither feed nor client send metrics
  with the names of the program's own; nothing in the code keeps a client from it.
- `RunLedAlwaysRight`, of `CalmSpec` and with the same assumption, from `RInv`:
  whatever would show another running state is gone before the next switch, and until
  then the LED is right or something is coming that lights it. Under `Spec` it is
  false, see the findings.

`ControlMode_proofs`, for any number of launches, commands and messages:

- `FreshRight` is the reason for both theorems: of a command that came up when
  nothing was left, the other launches stay over (`OverStep`), so that nobody else takes
  its messages or changes the flags, whatever failed before.
- `TicksOnlyAfterStart`, from `RunningTold`: what the running flag says about a fresh
  command, between the take of a message and the line written.
- `AutostartsOnce`, from `AutoRight`: the start message is in one place, a goroutine
  that sends it or the channel (`AskedOnce`), and the command is told nothing before
  it. The flag that lets a selection ask again is cleared by a failure only, and that
  of a fresh command is not over before another is launched.

Nothing is proved of a command that comes up beside another one, or while something is
left of it: there the code breaks both (`NeverToldStop`, `StartedBeforeTicks`).

`Mixer_proofs`, for any number of callers, sounds and streams:

- `SpeechNeverMixed`, `DoneIsAwaited` and `SoundsUncut`, from one invariant that is
  about the calls: one that is about to place a sound has a number of its own exactly
  when its sound is a file (`CallRight`, `NumbersGiven`), somebody waits on stream 0
  only (`WaitsForSpeech`).

`Program_proofs`, for every set of configurations and any depth of the stack:

- `LockCorrect`, assuming `~Overlap`: `LockInv` adds to `LockTellsRunning` that
  nothing else happens to the lock between the look and the creation, and that a
  file left behind keeps every instance out. With overlapping starts it is false.
- `PositionsCorrect`, from `PositionsInv`: the positions given so far come before
  the next one in the order of sections and modes (`NewModePlaces`); imports
  change no position (`ImportPlaces`); a check that failed makes the claim void
  from then on. With it, `PositionsAssumption` of `EventLoop` rests on the code
  of `makeModes`, but for the mode at (0,0).
- `VerdictCorrect` and `ImportsCorrect`, from `VerdictInv`, for configurations with
  no more modes than a stack holds frames. Neither property says anything before
  `makeModes` has ended; the invariant says where it is.
  While it parses (`ParseRight`), the part of the configuration behind the parser is
  well-formed (`Sound`) and made (`MadeRight`); a check fails exactly where a
  well-formed configuration could not go on (`ParsePasses`).
  While it walks (`WalkRight`), each frame has been through pieces of the graph of
  imports: its mode, and what the imports before its next one reach. The pieces have
  no name in common and make up `seen` (`SeenRight`). So a name that comes up again
  is reached along two paths (`NotSeen`), a walk that ends has shown a tree below its
  root (`RootTree`), and without a failed check the stack holds each mode once at most
  (`StackFits`). The mode of a frame has the feeds and meters in the end of the
  imports before its next one, and none it should not have (`Filled`); that an
  earlier import wins over a later one is `FirstWins` and `MergeMeters`. Modes already
  full may be walked again, as an import of another or as a root: they stay full
  (`MergeFills`), which is why the order of the range over the map does not matter.
  `Following` is a least closed set, not a recursion, so that what is reached can be
  unfolded by one import at a time (`FollowingIs`, `ReachedIs`) without induction.

`Metrics_proofs`, for every number of slots, all values, all readings:

- `CountsCorrect`: the equation of `CountedInThreeSums` is inductive with the types
  of the ring.
- `HistoryCorrect`, from `HistoryInv`: the slots that were emptied since an add last
  met a shift are `Clean`, they are the current one and those behind it, one more
  with each shift (`CleanBetween`, `CleanDuring`); an add that no shift meets keeps
  a clean slot clean (`AddAlone`); a mean computed when all are clean is right
  (`MeanReal`).
- `PatternAlwaysFits`, from `IdleInv`: that the next move does not leave the panel
  either, whatever the width and the direction.
- `TypeCorrect`, `LedsNeverFail` and `LedsAlwaysTell`, from `MetricInv`. What an LED
  shows rests on the numbers on the way to it: that the shares of a cpu reading are
  within 0 and 100 unless a counter went back (`PercentsFit`), that means, variances
  and scales are floats, NaN and infinity among them, but never negative
  (`MeanIsFloat`, `VarianceIsFloat`), so that a value is inside the scale made for it
  (`ScaledFits`), and that the LEDs of each type of meter, of any size, are near the
  value, the bits of a binary one its sum (`HighestNear`, `BitsAddUp`).
  These are sums over slots, greatest common divisors and powers of two of any size,
  and need induction. The library's induction theorems have a predicate or an
  operator as a parameter, which no prover at hand can instantiate; `InductionOn` has
  a set in its place and follows from `LeastNumber`, `Recursion` has a function, and
  `SetInduction` and `FoldExists` do the same for finite sets.

Only model-checked: all liveness (fairness and ENABLED are beyond the prover), that is
`SwitchCompletes`, `InvalidEnds` and their like. The violated properties have
counterexamples and no proof.

## 6. What is left

To model:

1. The files of text to speech (`audio/tts.go` 16-58, `scripts/audio-convert`):
   two goroutines that say the same new text work on the same mp3 and raw files,
   one may empty or remove what the other converts (`log.Fatalf` at line 52), and
   a raw file that is not whole is found at line 17 ever after. Composed with all
   of `Mixer` its states are too many for a run; it needs a module of its own, with
   callers that only ask for speech.
2. The feeds that `Modes` makes as `FeedsOf` of `EventLoop`: `ImportsApplied` says
   which they are, `Positions` only ties the positions of the two.

To prove: nothing that a run checks and the prover reaches; the liveness properties,
once it does.

Not modelled, and not planned: the pidp11 library (LED effects, reading of the
switches), the animation feed, sample arithmetic and external programs of the
audio, the parsing of lines, of `/proc` and of the configuration file, logging,
the example scripts, roundoff.
