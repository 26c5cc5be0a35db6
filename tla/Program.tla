------------------------------ MODULE Program ------------------------------
(***************************************************************************)
(* The start and the end of blink11 (main.go, lib/lib.go): the lock file   *)
(* that keeps two instances apart, the event loop goroutine that begins    *)
(* with makeModes before the exit hook is set, and the ways out: exitChan, *)
(* signals, panics, log.Fatal and kills.  Only main, when it returns or    *)
(* panics itself, runs the deferred removal of the lock file.              *)
(*                                                                         *)
(* One instance is followed through restarts, with makeModes in full       *)
(* (Modes); another one is reduced to what it does to the lock file.       *)
(***************************************************************************)
EXTENDS Modes

CONSTANT
    Overlap     \* two instances may be started at the same time

VARIABLES
    main,       \* where main is: "down", "clear", "locked", "spawned", "select"
    other,      \* the other instance: "down", "clear", "locked"
    lock,       \* the lock file exists
    stale       \* some instance ended without removing it

mainVars == <<main, other, lock, stale>>
vars == <<modesVars, mainVars>>

Init ==
    /\ Off
    /\ cfg \in Configs
    /\ main = "down" /\ other = "down"
    /\ lock = FALSE /\ stale = FALSE

\* The memory of the process goes with it.
Clear ==
    /\ making' = "off"
    /\ sec' = 1 /\ nth' = 1 /\ sectionNum' = 0 /\ modeNum' = 0
    /\ nameToMode' = Nothing /\ nameToImports' = Nothing
    /\ todo' = {} /\ stack' = <<>> /\ seen' = {}
    /\ hook' = FALSE /\ asked' = FALSE
    /\ UNCHANGED cfg

\* Mutation: the deferred removal also runs when the lock file is found.
StatUnlocking ==
    /\ main = "down"
    /\ Overlap \/ other # "clear"
    /\ main' = IF lock THEN "down" ELSE "clear"
    /\ lock' = FALSE
    /\ cfg' \in Configs
    /\ UNCHANGED <<other, stale, making, parseVars, nameToMode, walkVars, hook, asked>>

\* The program is run, perhaps with another configuration, and looks for the lock
\* file: with one it says that it is already running and exits.
Stat ==
    /\ main = "down"
    /\ Overlap \/ other # "clear"
    /\ main' = IF lock THEN "down" ELSE "clear"
    /\ cfg' \in Configs
    /\ UNCHANGED <<other, lock, stale, making, parseVars, nameToMode, walkVars, hook, asked>>

Create ==
    /\ main = "clear"
    /\ main' = "locked" /\ lock' = TRUE
    /\ UNCHANGED <<other, stale, modesVars>>

\* Priority, configuration file or console: an assertion or a panic of main.
StartFails ==
    /\ main = "locked"
    /\ main' = "down" /\ lock' = FALSE
    /\ UNCHANGED <<other, stale, modesVars>>

\* go eventLoop(cfg), which starts with makeModes.
GoEventLoop ==
    /\ main = "locked"
    /\ main' = "spawned"
    /\ making' = "parse"
    /\ UNCHANGED <<other, lock, stale, cfg, parseVars, nameToMode, walkVars, hook, asked>>

SetExitHook ==
    /\ main = "spawned"
    /\ main' = "select" /\ hook' = TRUE
    /\ UNCHANGED <<other, lock, stale, cfg, making, parseVars, nameToMode, walkVars, asked>>

\* The event loop goroutine.
MakeModes ==
    /\ main \in {"spawned", "select"}
    /\ makeModes
    /\ UNCHANGED mainVars

\* main returns: the deferred calls are run.
Return ==
    /\ main = "select"
    /\ main' = "down" /\ lock' = FALSE
    /\ Clear
    /\ UNCHANGED <<other, stale>>

ExitAsked == asked /\ Return

\* A signal, or the data knob in the lamp test.
ExitByUser == Return

\* The process ends with its deferred calls not run.
EndsAtOnce ==
    /\ main' = "down"
    /\ stale' = (stale \/ main # "clear")
    /\ Clear
    /\ UNCHANGED <<other, lock>>

\* The panic of the event loop goroutine ends the process.
Dies == making = "dead" /\ main # "down" /\ EndsAtOnce

\* log.Fatal on the configuration, kill -9, a signal before signal.Notify.
Killed == main # "down" /\ EndsAtOnce

\* The other instance.
OtherStat ==
    /\ other = "down" /\ ~lock
    /\ Overlap \/ main # "clear"
    /\ other' = "clear"
    /\ UNCHANGED <<modesVars, main, lock, stale>>

OtherCreate ==
    /\ other = "clear"
    /\ other' = "locked" /\ lock' = TRUE
    /\ UNCHANGED <<modesVars, main, stale>>

OtherReturns ==
    /\ other = "locked"
    /\ other' = "down" /\ lock' = FALSE
    /\ UNCHANGED <<modesVars, main, stale>>

OtherDies ==
    /\ other # "down"
    /\ other' = "down"
    /\ stale' = (stale \/ other = "locked")
    /\ UNCHANGED <<modesVars, main, lock>>

\* The runner script removes the file once it has killed everything.
RemoveLock ==
    /\ main = "down" /\ other = "down" /\ lock
    /\ lock' = FALSE /\ stale' = FALSE
    /\ UNCHANGED <<modesVars, main, other>>

Main  == Stat \/ Create \/ StartFails \/ GoEventLoop \/ SetExitHook \/ ExitAsked \/ ExitByUser
Other == OtherStat \/ OtherCreate \/ OtherReturns \/ OtherDies

Next == Main \/ MakeModes \/ Dies \/ Killed \/ Other \/ RemoveLock

\* Goroutines that can run do, and a select that is ready is taken.
Fairness ==
    /\ WF_vars(SetExitHook)
    /\ WF_vars(MakeModes)
    /\ WF_vars(Dies)
    /\ WF_vars(ExitAsked)

Spec == Init /\ [][Next]_vars /\ Fairness

-----------------------------------------------------------------------------

\* Unless two instances are started at the same time, there is never more than
\* one past the lock, and the file is there exactly while one is, or after one has
\* ended without removing it (main.go:28-40).
LockTellsRunning ==
    /\ ~(main \in {"locked", "spawned", "select"} /\ other = "locked")
    /\ lock <=> \/ main \in {"locked", "spawned", "select"}
                \/ other = "locked"
                \/ stale

\* A configuration that is not acceptable ends the program, whether the check that
\* fails comes before the exit hook and panics, or after it and goes on, on a cycle
\* for ever (main.go:55-70, "Exits on invalid config" mode.go:85).
InvalidEnds == main = "spawned" /\ ~Acceptable(cfg) ~> main = "down"

\* What the removal deferred by main is for (main.go:39): a configuration that is
\* refused does not lock the program out.  The panic of the event loop goroutine
\* refutes it, see the findings.
RefusedUnlocks == [][Dies => ~lock']_vars
=============================================================================
