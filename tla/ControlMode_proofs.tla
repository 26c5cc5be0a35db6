------------------------- MODULE ControlMode_proofs -------------------------
(***************************************************************************)
(* What a command is told, whatever the number of selections, of commands, *)
(* of switches pressed and of messages the events channel holds.           *)
(*                                                                         *)
(* TicksAfterStart compares a line with what was told before it, and is    *)
(* not inductive: the tick is written because of the running flag, which   *)
(* the start message sets when it is taken, before it is told.  RunningTold*)
(* says what the flag means to the command that is fresh.                  *)
(*                                                                         *)
(* AutostartedOnce follows the start message of an autostart control from  *)
(* the goroutine that sends it to the channel, to the writer and to the    *)
(* command: AskedOnce says that it is in one place, and AutoRight that it  *)
(* is nowhere but where the command is not told yet.                       *)
(*                                                                         *)
(* Both speak of a command g with fresh[g].  FreshRight is the reason why  *)
(* they hold: what is left of other launches takes no message and changes  *)
(* no flag, however many failed before, and as long as no other comes up.  *)
(***************************************************************************)
EXTENDS ControlMode, SequenceTheorems, TLAPS

\* A launch has nothing of its own before its command, and its writer has a line
\* when it writes.  Only a failure gets start() beyond the wait.
LaunchRight(g) ==
    /\ command[g] = "none" => writer[g] = "none" /\ told[g] = "none"
    /\ line[g] # "none" <=> writer[g] = "write"
    /\ start[g] \in {"failed", "restartable", "drain", "quit"} => command[g] = "failed"

\* Other launches are over once and for all.
FreshRight(g) ==
    fresh[g] => command[g] # "none" /\ \A h \in Launches \ {g} : Over(h)

FlagTold(g) ==
    /\ line[g] = "tick" => told[g] = "start"
    /\ line[g] = "stop" => ~running
    /\ running /\ HasWriter(g) /\ line[g] # "start" => told[g] = "start"

RunningTold(g) == fresh[g] => FlagTold(g)

\* The command was told nothing, nor is about to be.
Untold(g) == ~running /\ told[g] = "none" /\ line[g] \notin {"start", "stop"}

AskedRight(g) ==
    /\ AskedOnce
    /\ Asked \/ ~autostarted => Untold(g)
    /\ line[g] # "stop" /\ told[g] # "stop"
    /\ line[g] = "start" => told[g] = "none"

AutoRight(g) == autostart /\ fresh[g] /\ command[g] # "failed" => AskedRight(g)

NotStopped(g) == autostart /\ fresh[g] => told[g] # "stop"

IInv ==
    /\ TypeOK
    /\ \A g \in Launches : LaunchRight(g)
    /\ \A g \in Launches : FreshRight(g)
    /\ \A g \in Launches : RunningTold(g)
    /\ \A g \in Launches : AutoRight(g)
    /\ \A g \in Launches : NotStopped(g)
-----------------------------------------------------------------------------
\* A writer takes the first message, and the others keep their order.
LEMMA TakeMessage ==
    ASSUME TypeOK, NEW w \in Launches, NEW msg, Take(w, msg)
    PROVE  /\ events' \in Seq(Pressed \cup {"stop"})
           /\ Len(events') \in Nat /\ Len(events') = Len(events) - 1
           /\ 1 \in 1 .. Len(events) /\ events[1] = msg
           /\ \A i \in 1 .. Len(events') : i + 1 \in 1 .. Len(events) /\ events'[i] = events[i + 1]
<1>1. events \in Seq(Pressed \cup {"stop"}) /\ events # <<>>
  BY DEF TypeOK, Take
<1>2. Len(events) \in Nat /\ Len(events) >= 1
  BY <1>1, EmptySeq, LenProperties
<1>3. /\ events' \in Seq(Pressed \cup {"stop"}) /\ Len(events') = Len(events) - 1
      /\ \A i \in 1 .. Len(Tail(events)) : Tail(events)[i] = events[i + 1]
  BY <1>1, HeadTailProperties DEF Take
<1>4. events[1] = msg
  BY <1>1 DEF Take
<1> QED
  BY <1>2, <1>3, <1>4 DEF Take

\* A message sent is behind the others.
LEMMA SendMessage ==
    ASSUME TypeOK, NEW msg \in Pressed \cup {"stop"}, Len(events) < EventsCap,
           events' = Append(events, msg)
    PROVE  /\ events' \in Seq(Pressed \cup {"stop"}) /\ Len(events') <= EventsCap
           /\ Len(events) \in Nat /\ Len(events') = Len(events) + 1
           /\ \A i \in 1 .. Len(events) : events'[i] = events[i]
           /\ events'[Len(events) + 1] = msg
<1>1. events \in Seq(Pressed \cup {"stop"})
  BY DEF TypeOK
<1>2. Len(events) \in Nat
  BY <1>1, LenProperties
<1> QED
  BY <1>1, <1>2, AppendProperties, ControlAssumption

LEMMA TypeStep ==
    ASSUME TypeOK, [Next]_vars
    PROVE  TypeOK'
<1> USE DEF flags, chans, history, Move
<1>1. ASSUME NEW m \in Pressed, SpawnSender(m)
      PROVE  senders' \in [Pressed -> Nat]
  BY <1>1 DEF SpawnSender, TypeOK
<1>2. CASE PressStart \/ PressOther
  BY <1>1, <1>2 DEF PressStart, PressOther, TypeOK, Pressed
<1>3. ASSUME NEW g \in Launches, Select(g)
      PROVE  TypeOK'
  <2>1. senders' \in [Pressed -> Nat] /\ autostarted' \in BOOLEAN
    BY <1>1, <1>3 DEF Select, TypeOK, Pressed
  <2> QED
    BY <1>3, <2>1 DEF Select, TypeOK
<1>4. ASSUME NEW m \in Pressed, SenderSends(m)
      PROVE  TypeOK'
  <2>1. senders' \in [Pressed -> Nat]
    BY <1>4 DEF SenderSends, TypeOK
  <2>2. events' \in Seq(Pressed \cup {"stop"}) /\ Len(events') <= EventsCap
    BY <1>4, SendMessage DEF SenderSends
  <2> QED
    BY <1>4, <2>1, <2>2 DEF SenderSends, TypeOK
<1>5. ASSUME NEW g \in Launches, CheckStarted(g) \/ LaunchFails(g) \/ Launch(g)
      PROVE  TypeOK'
  <2>1. CASE CheckStarted(g) \/ LaunchFails(g)
    BY <2>1 DEF CheckStarted, LaunchFails, TypeOK
  <2>2. CASE Launch(g)
    <3>1. fresh' \in [Launches -> BOOLEAN]
      BY <2>2 DEF Launch
    <3>2. /\ start' = [start EXCEPT ![g] = "wait"] /\ command' = [command EXCEPT ![g] = "alive"]
          /\ writer' = [writer EXCEPT ![g] = "select"] /\ reader' = [reader EXCEPT ![g] = "read"]
          /\ started' = TRUE /\ UNCHANGED <<autostart, running, autostarted, chans, line, told>>
      BY <2>2 DEF Launch
    <3> QED
      BY <3>1, <3>2 DEF TypeOK
  <2> QED
    BY <1>5, <2>1, <2>2
<1>6. ASSUME NEW g \in Launches, WaitOk(g) \/ WaitFailed(g) \/ ClearStarted(g) \/ ClearAutostarted(g)
      PROVE  TypeOK'
  BY <1>6 DEF WaitOk, WaitFailed, ClearStarted, ClearAutostarted, TypeOK
<1>7. ASSUME NEW g \in Launches, ReaderDone(g) \/ \E w \in Launches : QuitWriter(g, w)
      PROVE  TypeOK'
  <2>1. CASE ReaderDone(g)
    BY <2>1 DEF ReaderDone, TypeOK
  <2>2. CASE \E w \in Launches : QuitWriter(g, w)
    BY <2>2 DEF QuitWriter, TypeOK
  <2> QED
    BY <1>7, <2>1, <2>2
<1>8. ASSUME NEW w \in Launches, TakeAny(w)
      PROVE  TypeOK'
  <2>1. events' \in Seq(Pressed \cup {"stop"}) /\ Len(events') <= EventsCap
    BY <1>8, TakeMessage, ControlAssumption
    DEF TakeAny, TakeStop, TakeStartPressed, TakeEvent, TypeOK
  <2>2. running' \in BOOLEAN /\ writer' \in [Launches -> {"none", "select", "write", "quit", "gaveup"}]
        /\ line' \in [Launches -> Lines \cup {"none"}]
    BY <1>8 DEF TakeAny, TakeStop, TakeStartPressed, TakeEvent, Write, TypeOK, Lines
  <2>3. UNCHANGED <<autostart, started, autostarted, senders, start, command, reader, told, fresh>>
    BY <1>8 DEF TakeAny, TakeStop, TakeStartPressed, TakeEvent
  <2> QED
    BY <2>1, <2>2, <2>3 DEF TypeOK
<1>9. ASSUME NEW w \in Launches, Tick(w) \/ WriteLine(w)
      PROVE  TypeOK'
  <2>1. CASE Tick(w)
    BY <2>1 DEF Tick, Write, TypeOK, Lines
  <2>2. CASE WriteLine(w)
    <3>1. /\ writer' \in [Launches -> {"none", "select", "write", "quit", "gaveup"}]
          /\ line' \in [Launches -> Lines \cup {"none"}]
      BY <2>2 DEF WriteLine, TypeOK, Lines
    <3>2. told' \in [Launches -> {"none", "start", "stop"}]
      BY <2>2 DEF WriteLine, TypeOK
    <3> QED
      BY <2>2, <3>1, <3>2 DEF WriteLine, TypeOK
  <2> QED
    BY <1>9, <2>1, <2>2
<1>10. ASSUME NEW g \in Launches, ReadStop(g) \/ ReadEnd(g) \/ Exit(g)
       PROVE  TypeOK'
  BY <1>10 DEF ReadStop, ReadEnd, Exit, TypeOK
<1>11. ASSUME NEW g \in Launches, SendStop(g)
       PROVE  TypeOK'
  <2>1. events' \in Seq(Pressed \cup {"stop"}) /\ Len(events') <= EventsCap
    BY <1>11, SendMessage DEF SendStop
  <2> QED
    BY <1>11, <2>1 DEF SendStop, TypeOK
<1>12. CASE UNCHANGED vars
  BY <1>12 DEF vars, TypeOK
<1> QED
  BY <1>2, <1>3, <1>4, <1>5, <1>6, <1>7, <1>8, <1>9, <1>10, <1>11, <1>12 DEF Next, Starting

-----------------------------------------------------------------------------
(* What a writer does: no step but its own and that of a quit touches its line. *)

\* The step leaves the writers, their lines and the running flag alone.
WritersKept == UNCHANGED <<autostart, running, writer, line, told, fresh>>

\* The steps that do.
LEMMA StepKinds ==
    ASSUME [Next]_vars
    PROVE  \/ WritersKept
           \/ \E g \in Launches : Launch(g) \/ WaitFailed(g) \/ TakeAny(g) \/ Tick(g) \/ WriteLine(g)
           \/ \E g, w \in Launches : QuitWriter(g, w)
BY DEF Next, Starting, WritersKept, vars, flags, history, PressStart, PressOther, SenderSends, Select,
       CheckStarted, LaunchFails, WaitOk, ClearStarted, ClearAutostarted, ReaderDone,
       ReadStop, SendStop, ReadEnd, Exit

\* A command is launched once, and a failure is final.
LEMMA CommandsKept ==
    ASSUME TypeOK, [Next]_vars
    PROVE  /\ \A g \in Launches : command[g] # "none" => command'[g] # "none"
           /\ \A g \in Launches : command[g] = "failed" => command'[g] = "failed"
           /\ \A g \in Launches : command'[g] # command[g] =>
                  (command[g] = "none" /\ Launch(g)) \/ command[g] = "alive"
<1>1. ASSUME NEW g \in Launches, Launch(g) \/ Exit(g)
      PROVE  \A h \in Launches : /\ h # g => command'[h] = command[h]
                                 /\ command[h] # "none" => command'[h] # "none"
                                 /\ command[h] = "failed" => command'[h] = "failed"
  BY <1>1 DEF Launch, Exit, Move, TypeOK
<1>2. (\E g \in Launches : Launch(g) \/ Exit(g)) \/ UNCHANGED command
  BY DEF Next, Starting, TakeAny, vars, flags, PressStart, PressOther, SenderSends, Select,
         CheckStarted, LaunchFails, WaitOk, WaitFailed, ClearStarted, ClearAutostarted, ReaderDone,
         QuitWriter, TakeStop, TakeStartPressed, TakeEvent, Tick, WriteLine,
         ReadStop, SendStop, ReadEnd
<1>3. ASSUME NEW g \in Launches, Launch(g)
      PROVE  command[g] = "none"
  BY <1>3 DEF Launch, Move
<1>4. ASSUME NEW g \in Launches, Exit(g)
      PROVE  command[g] = "alive"
  BY <1>4 DEF Exit
<1> QED
  BY <1>1, <1>2, <1>3, <1>4

LEMMA LaunchRightStep ==
    ASSUME TypeOK, \A g \in Launches : LaunchRight(g), [Next]_vars
    PROVE  \A g \in Launches : LaunchRight(g)'
<1> SUFFICES ASSUME NEW h \in Launches
             PROVE  LaunchRight(h)'
  OBVIOUS
<1> LaunchRight(h)
  OBVIOUS
<1> USE DEF LaunchRight, Move, flags, chans, history, TypeOK
<1>1. ASSUME NEW g \in Launches, Select(g) \/ CheckStarted(g) \/ LaunchFails(g) \/ WaitOk(g)
      PROVE  LaunchRight(h)'
  BY <1>1 DEF Select, CheckStarted, LaunchFails, WaitOk
<1>2. ASSUME NEW g \in Launches, Launch(g)
      PROVE  LaunchRight(h)'
  BY <1>2 DEF Launch
<1>3. ASSUME NEW g \in Launches, WaitFailed(g) \/ ClearStarted(g) \/ ClearAutostarted(g) \/ ReaderDone(g)
      PROVE  LaunchRight(h)'
  BY <1>3 DEF WaitFailed, ClearStarted, ClearAutostarted, ReaderDone
<1>4. ASSUME NEW g \in Launches, NEW w \in Launches, QuitWriter(g, w)
      PROVE  LaunchRight(h)'
  BY <1>4 DEF QuitWriter
<1>5. ASSUME NEW w \in Launches, TakeAny(w) \/ Tick(w)
      PROVE  LaunchRight(h)'
  <2>1. UNCHANGED <<command, start, told>>
    BY <1>5 DEF TakeAny, TakeStop, TakeStartPressed, TakeEvent, Tick
  <2>2. UNCHANGED <<writer, line>>
        \/ \E l \in Lines : writer[w] = "select" /\ Write(w, l)
    BY <1>5 DEF TakeAny, TakeStop, TakeStartPressed, TakeEvent, Tick, Take, Lines
  <2> QED
    BY <2>1, <2>2 DEF Write, Lines
<1>6. ASSUME NEW w \in Launches, WriteLine(w)
      PROVE  LaunchRight(h)'
  <2>1. CASE h = w
    BY <1>6, <2>1 DEF WriteLine
  <2>2. CASE h # w
    BY <1>6, <2>2 DEF WriteLine
  <2> QED
    BY <2>1, <2>2
<1>7. ASSUME NEW g \in Launches, Exit(g)
      PROVE  LaunchRight(h)'
  BY <1>7 DEF Exit
<1>8. ASSUME \/ PressStart \/ PressOther \/ UNCHANGED vars
             \/ \E m \in Pressed : SenderSends(m)
             \/ \E g \in Launches : ReadStop(g) \/ SendStop(g) \/ ReadEnd(g)
      PROVE  LaunchRight(h)'
  <2>1. UNCHANGED <<command, start, writer, line, told>>
    BY <1>8 DEF PressStart, PressOther, vars, SenderSends, ReadStop, SendStop, ReadEnd
  <2> QED
    BY <2>1
<1> QED
  BY <1>1, <1>2, <1>3, <1>4, <1>5, <1>6, <1>7, <1>8 DEF Next, Starting

\* A launch is fresh from its own step on, when nothing was left, and as long as
\* there is no other.
LEMMA FreshStep ==
    ASSUME TypeOK, [Next]_vars, NEW h \in Launches, fresh'[h]
    PROVE  \/ Launch(h) /\ NothingLeft
           \/ fresh[h] /\ ~ \E g \in Launches : Launch(g)
<1>1. ASSUME NEW g \in Launches, Launch(g)
      PROVE  g = h /\ NothingLeft
  BY <1>1 DEF Launch
<1>2. UNCHANGED fresh \/ \E g \in Launches : Launch(g)
  BY StepKinds DEF WritersKept, WaitFailed, TakeAny, TakeStop, TakeStartPressed, TakeEvent, Tick,
                   WriteLine, QuitWriter, history
<1> QED
  BY <1>1, <1>2

\* Once over, a launch is over for good.
LEMMA OverStep ==
    ASSUME TypeOK, [Next]_vars, NEW h \in Launches, Over(h), ~Launch(h)
    PROVE  Over(h)'
<1> USE DEF Over, HasWriter, Move, TypeOK
<1>1. ASSUME NEW g \in Launches,
             Select(g) \/ CheckStarted(g) \/ LaunchFails(g) \/ WaitOk(g) \/ WaitFailed(g)
      PROVE  Over(h)'
  BY <1>1 DEF Select, CheckStarted, LaunchFails, WaitOk, WaitFailed
<1>2. ASSUME NEW g \in Launches, ClearStarted(g) \/ ClearAutostarted(g) \/ ReaderDone(g)
      PROVE  Over(h)'
  BY <1>2 DEF ClearStarted, ClearAutostarted, ReaderDone
<1>3. ASSUME NEW g \in Launches, Launch(g)
      PROVE  Over(h)'
  <2>1. g # h
    BY <1>3
  <2>2. start' = [start EXCEPT ![g] = "wait"] /\ writer' = [writer EXCEPT ![g] = "select"]
    BY <1>3 DEF Launch
  <2> QED
    BY <2>1, <2>2
<1>4. ASSUME NEW g \in Launches, NEW w \in Launches, QuitWriter(g, w)
      PROVE  Over(h)'
  BY <1>4 DEF QuitWriter
<1>5. ASSUME NEW w \in Launches, TakeAny(w) \/ Tick(w)
      PROVE  Over(h)'
  <2>1. UNCHANGED start
    BY <1>5 DEF TakeAny, TakeStop, TakeStartPressed, TakeEvent, Tick
  <2>2. writer[w] = "select" /\ (UNCHANGED writer \/ writer' = [writer EXCEPT ![w] = "write"])
    BY <1>5 DEF TakeAny, TakeStop, TakeStartPressed, TakeEvent, Take, Tick, Write
  <2> QED
    BY <2>1, <2>2
<1>6. ASSUME NEW w \in Launches, WriteLine(w)
      PROVE  Over(h)'
  BY <1>6 DEF WriteLine
<1>7. ASSUME \/ PressStart \/ PressOther \/ UNCHANGED vars
             \/ \E m \in Pressed : SenderSends(m)
             \/ \E g \in Launches : ReadStop(g) \/ SendStop(g) \/ ReadEnd(g) \/ Exit(g)
      PROVE  Over(h)'
  <2>1. UNCHANGED <<start, writer>>
    BY <1>7 DEF PressStart, PressOther, vars, SenderSends, ReadStop, SendStop, ReadEnd, Exit
  <2> QED
    BY <2>1
<1> QED
  BY <1>1, <1>2, <1>3, <1>4, <1>5, <1>6, <1>7 DEF Next, Starting

LEMMA FreshRightStep ==
    ASSUME TypeOK, \A g \in Launches : FreshRight(g), [Next]_vars
    PROVE  \A g \in Launches : FreshRight(g)'
<1> SUFFICES ASSUME NEW g \in Launches, fresh'[g]
             PROVE  command'[g] # "none" /\ \A h \in Launches \ {g} : Over(h)'
  BY DEF FreshRight
<1>1. CASE Launch(g) /\ NothingLeft
  <2>1. command'[g] # "none"
    BY <1>1 DEF Launch, Move, TypeOK
  <2>2. ASSUME NEW h \in Launches \ {g}
        PROVE  Over(h) /\ ~Launch(h)
    <3>1. Over(h)
      BY <1>1 DEF NothingLeft
    <3>2. fresh' # [x \in Launches |-> x = h /\ NothingLeft]
      BY <2>2
    <3> QED
      BY <3>1, <3>2 DEF Launch
  <2> QED
    BY <2>1, <2>2, OverStep
<1>2. CASE fresh[g] /\ ~ \E h \in Launches : Launch(h)
  BY <1>2, OverStep, CommandsKept DEF FreshRight
<1> QED
  BY <1>1, <1>2, FreshStep

\* A command that just came up with nothing left.
LEMMA LaunchFresh ==
    ASSUME TypeOK, NEW h \in Launches, LaunchRight(h), Launch(h), NothingLeft
    PROVE  /\ FlagTold(h)' /\ told'[h] # "stop"
           /\ autostart => AskedRight(h)'
<1>1. writer[h] = "none" /\ told[h] = "none" /\ line[h] = "none"
  BY DEF Launch, Move, LaunchRight
<1>2. UNCHANGED <<line, told, running, senders, events, autostarted>> /\ ~running
  BY DEF Launch, NothingLeft, chans
<1>3. FlagTold(h)' /\ Untold(h)' /\ told'[h] # "stop"
  BY <1>1, <1>2 DEF FlagTold, Untold
<1>4. AskedOnce => AskedOnce'
  BY <1>2 DEF AskedOnce, Asked
<1> QED
  BY <1>1, <1>2, <1>3, <1>4 DEF AskedRight, NothingLeft

\* Any writer is that of the fresh launch.
LEMMA OnlyWriter ==
    ASSUME NEW h \in Launches, FreshRight(h), fresh[h],
           NEW w \in Launches, writer[w] \in {"select", "write"}
    PROVE  w = h
BY DEF FreshRight, Over, HasWriter

LEMMA FlagToldStep ==
    ASSUME TypeOK, NEW h \in Launches, LaunchRight(h), FreshRight(h), fresh[h], FlagTold(h),
           ~ \E g \in Launches : Launch(g), [Next]_vars
    PROVE  FlagTold(h)'
<1> USE DEF HasWriter
<1>1. CASE WritersKept
  BY <1>1 DEF WritersKept, FlagTold
<1>2. ASSUME NEW g \in Launches, WaitFailed(g)
      PROVE  FlagTold(h)'
  BY <1>2 DEF WaitFailed, FlagTold, history
<1>3. ASSUME NEW w \in Launches, TakeAny(w)
      PROVE  FlagTold(h)'
  <2>1. w = h /\ writer[h] = "select" /\ line[h] = "none"
    BY <1>3, OnlyWriter DEF TakeAny, TakeStop, TakeStartPressed, TakeEvent, Take, LaunchRight
  <2>2. CASE TakeStop(h)
    BY <2>1, <2>2 DEF TakeStop, FlagTold
  <2>3. CASE TakeStartPressed(h)
    BY <2>1, <2>3 DEF TakeStartPressed, Write, TypeOK, FlagTold
  <2>4. CASE TakeEvent(h)
    BY <2>1, <2>4 DEF TakeEvent, Write, TypeOK, flags, history, FlagTold
  <2> QED
    BY <1>3, <2>1, <2>2, <2>3, <2>4 DEF TakeAny
<1>4. ASSUME NEW w \in Launches, Tick(w)
      PROVE  FlagTold(h)'
  <2>1. w = h /\ line[h] = "none" /\ writer[h] = "select" /\ running
    BY <1>4, OnlyWriter DEF Tick, LaunchRight
  <2>2. told[h] = "start"
    BY <2>1 DEF FlagTold
  <2>3. line'[h] = "tick" /\ told'[h] = "start"
    BY <1>4, <2>1, <2>2 DEF Tick, Write, TypeOK, history
  <2> QED
    BY <2>3 DEF FlagTold
<1>5. ASSUME NEW w \in Launches, WriteLine(w)
      PROVE  FlagTold(h)'
  <2>1. w = h /\ writer[h] = "write" /\ line'[h] = "none" /\ UNCHANGED running
    BY <1>5, OnlyWriter DEF WriteLine, TypeOK, flags
  <2>2. CASE command[h] = "alive"
    BY <1>5, <2>1, <2>2 DEF WriteLine, TypeOK, FlagTold
  <2>3. CASE command[h] # "alive"
    BY <1>5, <2>1, <2>3 DEF WriteLine, TypeOK, FlagTold
  <2> QED
    BY <2>2, <2>3
<1>6. ASSUME NEW g \in Launches, NEW w \in Launches, QuitWriter(g, w)
      PROVE  FlagTold(h)'
  <2>1. w = h
    BY <1>6, OnlyWriter DEF QuitWriter, Move
  <2> QED
    BY <1>6, <2>1 DEF QuitWriter, Move, TypeOK, flags, history, FlagTold
<1> QED
  BY <1>1, <1>2, <1>3, <1>4, <1>5, <1>6, StepKinds

LEMMA RunningToldStep ==
    ASSUME TypeOK, \A g \in Launches : LaunchRight(g) /\ FreshRight(g) /\ RunningTold(g),
           [Next]_vars
    PROVE  \A g \in Launches : RunningTold(g)'
<1> SUFFICES ASSUME NEW h \in Launches, fresh'[h]
             PROVE  FlagTold(h)'
  BY DEF RunningTold
<1> QED
  BY FreshStep, LaunchFresh, FlagToldStep DEF RunningTold

-----------------------------------------------------------------------------
(* Where the start message of an autostart control is *)

\* A step that adds no start message and neither tells nor takes one.
LEMMA AskedKept ==
    ASSUME NEW h \in Launches, AskedRight(h),
           UNCHANGED senders,
           \A i \in 1 .. Len(events') : events'[i] = "start-pressed" =>
               i \in 1 .. Len(events) /\ events[i] = "start-pressed",
           autostarted' = autostarted, running' => running,
           line'[h] = line[h] \/ line'[h] \notin {"start", "stop"},
           UNCHANGED told
    PROVE  AskedRight(h)'
<1>1. Asked' => Asked
  BY DEF Asked
<1>2. Untold(h) => Untold(h)'
  BY DEF Untold
<1>3. AskedOnce'
  BY <1>1 DEF AskedOnce, AskedRight
<1> QED
  BY <1>1, <1>2, <1>3 DEF AskedRight

\* Taking a line that is neither start nor stop (a tick, another control event) puts
\* neither into a writer's hand.
LEMMA WriteOther ==
    ASSUME TypeOK, NEW w \in Launches, NEW l, l \notin {"start", "stop"}, Write(w, l),
           NEW h \in Launches
    PROVE  line'[h] = line[h] \/ line'[h] \notin {"start", "stop"}
<1>1. line \in [Launches -> Lines \cup {"none"}]
  BY DEF TypeOK
<1>2. line' = [line EXCEPT ![w] = l]
  BY DEF Write
<1> QED
  BY <1>1, <1>2

LEMMA AskedStep ==
    ASSUME TypeOK, \A g \in Launches : LaunchRight(g), NEW h \in Launches, FreshRight(h), fresh[h],
           AskedRight(h), command[h] # "failed",
           autostart, ~ \E g \in Launches : Launch(g), [Next]_vars
    PROVE  AskedRight(h)'
<1> USE DEF flags, chans, history, Pressed
<1> senders["start-pressed"] \in Nat
  BY DEF TypeOK
<1>1. CASE PressStart
  BY <1>1 DEF PressStart
<1>2. CASE PressOther
  <2>1. senders'["start-pressed"] = senders["start-pressed"]
    BY <1>2 DEF PressOther, SpawnSender, TypeOK
  <2>2. UNCHANGED <<events, autostarted, running, line, told>>
    BY <1>2 DEF PressOther
  <2> QED
    BY <2>1, <2>2 DEF AskedRight, AskedOnce, Asked, Untold
\* It is asked for: no message is about, and the command was told nothing.
<1>3. ASSUME NEW g \in Launches, Select(g)
      PROVE  AskedRight(h)'
  <2>1. UNCHANGED <<events, running, line, told>>
    BY <1>3 DEF Select
  <2>2. CASE autostarted
    BY <1>3, <2>1, <2>2 DEF Select, AskedRight, AskedOnce, Asked, Untold
  <2>3. CASE ~autostarted
    <3>1. ~Asked /\ Untold(h)
      BY <2>3 DEF AskedRight, AskedOnce
    <3>2. senders'["start-pressed"] = senders["start-pressed"] + 1 /\ autostarted'
      BY <1>3, <2>3 DEF Select, SpawnSender, TypeOK
    <3>3. AskedOnce'
      BY <2>1, <3>1, <3>2 DEF AskedOnce, Asked
    <3> QED
      BY <2>1, <3>1, <3>3 DEF AskedRight, Untold
  <2> QED
    BY <2>2, <2>3
<1>4. CASE SenderSends("event")
  <2>1. senders'["start-pressed"] = senders["start-pressed"]
    BY <1>4 DEF SenderSends, TypeOK
  <2>2. UNCHANGED <<autostarted, running, line, told>>
    BY <1>4 DEF SenderSends
  <2>3. /\ \A i \in 1 .. Len(events) : i \in 1 .. Len(events') /\ events'[i] = events[i]
        /\ \A i \in 1 .. Len(events') : events'[i] = "start-pressed" => i \in 1 .. Len(events)
    BY <1>4, SendMessage DEF SenderSends
  <2>4. Asked' <=> Asked
    BY <2>1, <2>3 DEF Asked
  <2>5. AskedOnce'
    BY <2>1, <2>2, <2>3, <2>4 DEF AskedRight, AskedOnce
  <2> QED
    BY <2>2, <2>4, <2>5 DEF AskedRight, Untold
\* It goes from its goroutine to the channel, where there is none.
<1>5. CASE SenderSends("start-pressed")
  <2>1. senders["start-pressed"] = 1 /\ senders'["start-pressed"] = 0
    BY <1>5 DEF SenderSends, TypeOK, AskedRight, AskedOnce
  <2>2. UNCHANGED <<autostarted, running, line, told>>
    BY <1>5 DEF SenderSends
  <2>3. \A i \in 1 .. Len(events') : events'[i] = "start-pressed" => i = Len(events) + 1
    <3>1. \A i \in 1 .. Len(events) : events[i] # "start-pressed"
      BY <2>1 DEF AskedRight, AskedOnce
    <3> QED
      BY <1>5, <3>1, SendMessage DEF SenderSends
  <2>4. Asked /\ autostarted /\ Untold(h)
    BY <2>1 DEF Asked, AskedRight, AskedOnce
  <2>5. AskedOnce'
    BY <2>1, <2>2, <2>3, <2>4 DEF AskedOnce
  <2> QED
    BY <2>2, <2>4, <2>5 DEF AskedRight, Untold
<1>6. ASSUME NEW g \in Launches,
             \/ CheckStarted(g) \/ LaunchFails(g) \/ WaitOk(g) \/ WaitFailed(g)
             \/ ClearStarted(g) \/ ReaderDone(g) \/ (\E w \in Launches : QuitWriter(g, w))
             \/ ReadStop(g) \/ ReadEnd(g) \/ Exit(g)
      PROVE  AskedRight(h)'
  <2>1. UNCHANGED <<senders, events, autostarted, line, told>>
    BY <1>6 DEF CheckStarted, LaunchFails, WaitOk, WaitFailed, ClearStarted, ReaderDone,
                QuitWriter, ReadStop, ReadEnd, Exit
  <2>2. running' = running \/ ~running'
    BY <1>6 DEF CheckStarted, LaunchFails, WaitOk, WaitFailed, ClearStarted, ReaderDone,
                QuitWriter, ReadStop, ReadEnd, Exit
  <2> QED
    BY <2>1, <2>2, AskedKept
\* The flag is cleared after the failure of a command: not of this one, and other
\* launches are over.
<1>7. ASSUME NEW g \in Launches, ClearAutostarted(g)
      PROVE  FALSE
  <2>1. start[g] = "restartable"
    BY <1>7 DEF ClearAutostarted, Move
  <2>2. CASE g = h
    BY <2>1, <2>2 DEF LaunchRight
  <2>3. CASE g # h
    BY <2>1, <2>3 DEF FreshRight, Over
  <2> QED
    BY <2>2, <2>3
\* The writer takes it: it was the only one.
<1>8. ASSUME NEW w \in Launches, TakeStartPressed(w)
      PROVE  AskedRight(h)'
  <2>1. /\ 1 \in 1 .. Len(events) /\ events[1] = "start-pressed"
        /\ \A i \in 1 .. Len(events') : i + 1 \in 1 .. Len(events) /\ events'[i] = events[i + 1]
    BY <1>8, TakeMessage DEF TakeStartPressed
  <2>2. Asked /\ Untold(h) /\ autostarted /\ senders["start-pressed"] = 0
    BY <2>1 DEF Asked, AskedRight, AskedOnce
  <2>3. \A i \in 1 .. Len(events') : events'[i] # "start-pressed"
    <3> SUFFICES ASSUME NEW i \in 1 .. Len(events'), events'[i] = "start-pressed"
                 PROVE  FALSE
      OBVIOUS
    <3>1. i + 1 \in 1 .. Len(events) /\ events[i + 1] = "start-pressed"
      BY <2>1
    <3>2. i + 1 = 1
      BY <2>1, <3>1 DEF AskedRight, AskedOnce
    <3> QED
      BY <3>2
  <2>4. UNCHANGED <<senders, autostarted, told>>
    BY <1>8 DEF TakeStartPressed
  <2>5. ~Asked' /\ AskedOnce'
    BY <2>2, <2>3, <2>4 DEF Asked, AskedOnce
  <2>6. line'[h] # "stop" /\ told'[h] = "none"
    BY <1>8, <2>2, <2>4 DEF TakeStartPressed, Write, Untold, AskedRight, TypeOK
  <2> QED
    BY <2>2, <2>4, <2>5, <2>6 DEF AskedRight
<1>9. ASSUME NEW w \in Launches, TakeStop(w) \/ TakeEvent(w)
      PROVE  AskedRight(h)'
  <2>1. PICK msg \in {"stop", "event"} : Take(w, msg)
    BY <1>9 DEF TakeStop, TakeEvent
  <2>2. /\ 1 \in 1 .. Len(events) /\ events[1] # "start-pressed"
        /\ Len(events') \in Nat /\ Len(events) = Len(events') + 1
        /\ \A i \in 1 .. Len(events') : i + 1 \in 1 .. Len(events) /\ events'[i] = events[i + 1]
    BY <2>1, TakeMessage, LenProperties DEF TypeOK
  <2>a. UNCHANGED <<senders, autostarted, told>>
    BY <1>9 DEF TakeStop, TakeEvent
  <2>b. running' = running \/ ~running'
    BY <1>9 DEF TakeStop, TakeEvent
  <2>c. line'[h] = line[h] \/ line'[h] \notin {"start", "stop"}
    <3>1. CASE TakeStop(w)
      BY <3>1 DEF TakeStop
    <3>2. CASE TakeEvent(w)
      <4>1. Write(w, "event")
        BY <3>2 DEF TakeEvent
      <4> QED
        BY <4>1, WriteOther
    <3> QED
      BY <1>9, <3>1, <3>2
  <2>4. (Asked' => Asked) /\ (Untold(h) => Untold(h)')
    BY <2>2, <2>a, <2>b, <2>c DEF Asked, Untold
  <2>5. \A i \in 1 .. Len(events') : events'[i] = "start-pressed" => senders'["start-pressed"] = 0
    BY <2>2, <2>a DEF AskedRight, AskedOnce
  <2>6. \A i, j \in 1 .. Len(events') :
            events'[i] = "start-pressed" /\ events'[j] = "start-pressed" => i = j
    <3> SUFFICES ASSUME NEW i \in 1 .. Len(events'), NEW j \in 1 .. Len(events'),
                        events'[i] = "start-pressed", events'[j] = "start-pressed"
                 PROVE  i = j
      OBVIOUS
    <3>1. /\ i + 1 \in 1 .. Len(events) /\ events[i + 1] = "start-pressed"
          /\ j + 1 \in 1 .. Len(events) /\ events[j + 1] = "start-pressed"
      BY <2>2
    <3>2. i + 1 = j + 1
      BY <3>1 DEF AskedRight, AskedOnce
    <3> QED
      BY <3>2
  <2>7. AskedOnce'
    BY <2>a, <2>4, <2>5, <2>6 DEF AskedRight, AskedOnce
  <2> QED
    BY <2>a, <2>c, <2>4, <2>7 DEF AskedRight
<1>10. ASSUME NEW w \in Launches, Tick(w)
       PROVE  AskedRight(h)'
  <2>1. line'[h] = line[h] \/ line'[h] \notin {"start", "stop"}
    <3>1. Write(w, "tick")
      BY <1>10 DEF Tick
    <3> QED
      BY <3>1, WriteOther
  <2>2. UNCHANGED <<senders, events, autostarted, running, told>>
    BY <1>10 DEF Tick
  <2> QED
    BY <2>1, <2>2, AskedKept
\* It is told: it is in no other place.
<1>11. ASSUME NEW w \in Launches, WriteLine(w)
       PROVE  AskedRight(h)'
  <2>1. UNCHANGED <<senders, events, autostarted, running>>
    BY <1>11 DEF WriteLine
  <2>2. line'[h] = IF h = w THEN "none" ELSE line[h]
    BY <1>11 DEF WriteLine, TypeOK
  <2>3. told'[h] = told[h] \/ (h = w /\ told'[h] = line[h] /\ line[h] \in {"start", "stop"})
    BY <1>11 DEF WriteLine, TypeOK
  <2>4. (Asked' <=> Asked) /\ (AskedOnce => AskedOnce')
    BY <2>1 DEF Asked, AskedOnce
  <2>5. Untold(h) => Untold(h)'
    BY <2>1, <2>2, <2>3 DEF Untold
  <2>6. /\ line'[h] # "stop" /\ told'[h] # "stop"
        /\ line'[h] = "start" => told'[h] = "none"
    BY <2>2, <2>3 DEF AskedRight
  <2> QED
    BY <2>1, <2>4, <2>5, <2>6 DEF AskedRight
<1>12. ASSUME NEW g \in Launches, SendStop(g)
       PROVE  AskedRight(h)'
  <2>1. UNCHANGED <<senders, autostarted, running, line, told>>
    BY <1>12 DEF SendStop
  <2>2. \A i \in 1 .. Len(events') : events'[i] = "start-pressed" =>
            i \in 1 .. Len(events) /\ events[i] = "start-pressed"
    BY <1>12, SendMessage DEF SendStop
  <2> QED
    BY <2>1, <2>2, AskedKept
<1>13. CASE UNCHANGED vars
  BY <1>13, AskedKept DEF vars
<1> QED
  BY <1>1, <1>2, <1>3, <1>4, <1>5, <1>6, <1>7, <1>8, <1>9, <1>10, <1>11, <1>12, <1>13
  DEF Next, Starting, TakeAny

\* The autostart option is that of the configuration.
LEMMA AutostartKept == ASSUME [Next]_vars PROVE autostart' = autostart
BY DEF Next, Starting, TakeAny, vars, PressStart, PressOther, SenderSends, Select,
       CheckStarted, LaunchFails, Launch, WaitOk, WaitFailed, ClearStarted, ClearAutostarted,
       ReaderDone, QuitWriter, TakeStop, TakeStartPressed, TakeEvent, Tick, WriteLine,
       ReadStop, SendStop, ReadEnd, Exit

LEMMA AutoRightStep ==
    ASSUME TypeOK, \A g \in Launches : LaunchRight(g) /\ FreshRight(g) /\ AutoRight(g),
           [Next]_vars
    PROVE  \A g \in Launches : AutoRight(g)'
<1> SUFFICES ASSUME NEW h \in Launches, autostart', fresh'[h], command'[h] # "failed"
             PROVE  AskedRight(h)'
  BY DEF AutoRight
<1>1. autostart /\ command[h] # "failed"
  BY AutostartKept, CommandsKept
<1>2. CASE Launch(h) /\ NothingLeft
  BY <1>1, <1>2, LaunchFresh
<1>3. CASE fresh[h] /\ ~ \E g \in Launches : Launch(g)
  BY <1>1, <1>3, AskedStep DEF AutoRight
<1> QED
  BY <1>2, <1>3, FreshStep

\* Only a command that is alive is told anything.
LEMMA NotStoppedStep ==
    ASSUME TypeOK,
           \A g \in Launches : LaunchRight(g) /\ FreshRight(g) /\ AutoRight(g) /\ NotStopped(g),
           [Next]_vars
    PROVE  \A g \in Launches : NotStopped(g)'
<1> SUFFICES ASSUME NEW h \in Launches, autostart', fresh'[h]
             PROVE  told'[h] # "stop"
  BY DEF NotStopped
<1>1. autostart
  BY AutostartKept
<1>2. CASE Launch(h) /\ NothingLeft
  BY <1>2, LaunchFresh
<1>3. CASE fresh[h] /\ ~ \E g \in Launches : Launch(g)
  <2>1. told[h] # "stop"
    BY <1>1, <1>3 DEF NotStopped
  <2>2. ASSUME NEW w \in Launches, WriteLine(w)
        PROVE  told'[h] # "stop"
    <3>1. CASE command[h] = "alive"
      <4>1. line[h] # "stop"
        BY <1>1, <1>3, <3>1 DEF AutoRight, AskedRight
      <4> QED
        BY <2>1, <2>2, <4>1 DEF WriteLine, TypeOK
    <3>2. CASE command[h] # "alive"
      BY <2>1, <2>2, <3>2 DEF WriteLine, TypeOK
    <3> QED
      BY <3>1, <3>2
  <2>3. UNCHANGED told \/ \E w \in Launches : WriteLine(w)
    BY <1>3, StepKinds DEF WritersKept, WaitFailed, TakeAny, TakeStop, TakeStartPressed, TakeEvent,
                           Tick, QuitWriter, history
  <2> QED
    BY <2>1, <2>2, <2>3
<1> QED
  BY <1>2, <1>3, FreshStep

LEMMA InvInit == Init => IInv
<1> SUFFICES ASSUME Init PROVE IInv
  OBVIOUS
<1>1. TypeOK
  <2>1. events \in Seq(Pressed \cup {"stop"}) /\ Len(events) <= EventsCap
    BY ControlAssumption DEF Init
  <2>2. running \in BOOLEAN /\ started \in BOOLEAN /\ autostarted \in BOOLEAN
    BY DEF Init
  <2>3. senders \in [Pressed -> Nat] /\ line \in [Launches -> Lines \cup {"none"}]
    BY DEF Init
  <2> QED
    BY <2>1, <2>2, <2>3 DEF Init, TypeOK
<1>2. \A g \in Launches : LaunchRight(g)
  BY DEF Init, LaunchRight
<1>3. \A g \in Launches : FreshRight(g) /\ RunningTold(g) /\ AutoRight(g) /\ NotStopped(g)
  BY DEF Init, FreshRight, RunningTold, AutoRight, NotStopped
<1> QED
  BY <1>1, <1>2, <1>3 DEF IInv

LEMMA InvStep == ASSUME IInv, [Next]_vars PROVE IInv'
<1>1. TypeOK'
  BY TypeStep DEF IInv
<1>2. \A g \in Launches : LaunchRight(g)'
  BY LaunchRightStep DEF IInv
<1>3. \A g \in Launches : FreshRight(g)'
  BY FreshRightStep DEF IInv
<1>4. \A g \in Launches : RunningTold(g)'
  BY RunningToldStep DEF IInv
<1>5. \A g \in Launches : AutoRight(g)'
  BY AutoRightStep DEF IInv
<1>6. \A g \in Launches : NotStopped(g)'
  BY NotStoppedStep DEF IInv
<1> QED
  BY <1>1, <1>2, <1>3, <1>4, <1>5, <1>6 DEF IInv

LEMMA Invariance == Spec => []IInv
BY InvInit, InvStep, PTL DEF Spec

-----------------------------------------------------------------------------
\* A command that came up when nothing was left of others, also one that replaces
\* commands that failed, is sent ticks only as long as it is STARTed: the running
\* flag, which start() clears after a failure, and the command by `control stop`,
\* is never up when the command was last told stop, or nothing.  As soon as another
\* command comes up, nothing is said (StartedBeforeTicks fails).
THEOREM TicksOnlyAfterStart == Spec => []TicksAfterStart
<1>1. IInv => TicksAfterStart
  BY DEF IInv, RunningTold, FlagTold, TicksAfterStart
<1> QED
  BY <1>1, Invariance, PTL

\* A command of an autostart control that came up when nothing was left of others,
\* also one that replaces commands that failed, is told start at most once and never
\* stop, however often its mode is selected: the message that a selection asks for
\* is in one place, and a selection after a failure asks for no second one that
\* such a command could get (NeverToldStop fails for others).
THEOREM AutostartsOnce == Spec => []AutostartedOnce
<1>1. ASSUME IInv, autostart, NEW g \in Launches, fresh[g]
      PROVE  /\ told[g] # "stop"
             /\ told[g] = "start" /\ command[g] = "alive" => ~Asked /\ line[g] # "start"
  <2>1. told[g] # "stop"
    BY <1>1 DEF IInv, NotStopped
  <2>2. ASSUME told[g] = "start", command[g] = "alive"
        PROVE  ~Asked /\ line[g] # "start"
    <3>1. AskedRight(g)
      BY <1>1, <2>2 DEF IInv, AutoRight
    <3> QED
      BY <2>2, <3>1 DEF AskedRight, Untold
  <2> QED
    BY <2>1, <2>2
<1>2. IInv => AutostartedOnce
  BY <1>1 DEF AutostartedOnce
<1> QED
  BY <1>2, Invariance, PTL
=============================================================================
