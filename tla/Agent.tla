------------------------------- MODULE Agent -------------------------------
(***************************************************************************)
(* agent11 (agent11/main.go): metrics of its machine sent over a           *)
(* connection that may break at any time, and made again.                  *)
(*                                                                         *)
(* Every connection launches one emitter goroutine per kind of metrics and *)
(* one writer goroutine.  Emitters and writers of all connections meet on  *)
(* the same two unbuffered channels, messageChan and stopChan; the agent   *)
(* closes none of its connections, and only a failed write ends a writer.  *)
(* Standard input and the programs of -emitter are read by goroutines that *)
(* outlive connections, and send their lines on messageChan as well.       *)
(*                                                                         *)
(* Connections are numbered, and never reused.  The server is NetworkFeed. *)
(***************************************************************************)
EXTENDS Integers, FiniteSets

CONSTANTS
    Kinds,      \* staters asked for on the command line: -cpu, -net, -disk
    Sources,    \* -stdin and the programs of -emitter
    MaxConns    \* bound: connections made

ASSUME AgentAssumption ==
    /\ IsFiniteSet(Kinds)
    /\ Kinds # {} \/ Sources # {}
    /\ MaxConns \in Nat

Conns == 1 .. MaxConns

VARIABLES
    main,       \* the agent's loop: "dial" or "read"
    made,       \* connections made so far; the last is the one main reads
    link,       \* per connection: "none", "open" or "closed"
    emitter,    \* per connection and kind: "none", "message" or "select"
    writer,     \* per connection: "none", "take", "write" or "stop"
    owed        \* per connection, stops its writer has still to send

agentVars == <<main, made, link, emitter, writer, owed>>

AgentTypeOK ==
    /\ main \in {"dial", "read"}
    /\ made \in 0 .. MaxConns
    /\ link \in [Conns -> {"none", "open", "closed"}]
    /\ emitter \in [Conns -> [Kinds -> {"none", "message", "select"}]]
    /\ writer \in [Conns -> {"none", "take", "write", "stop"}]
    /\ owed \in [Conns -> 0 .. Cardinality(Kinds)]

NoEmitters == [k \in Kinds |-> "none"]
NewEmitters == [k \in Kinds |-> "message"]

AgentInit ==
    /\ main = "dial" /\ made = 0
    /\ link = [n \in Conns |-> "none"]
    /\ emitter = [n \in Conns |-> NoEmitters]
    /\ writer = [n \in Conns |-> "none"]
    /\ owed = [n \in Conns |-> 0]

-----------------------------------------------------------------------------
(* The agent *)

\* A failed Dial sleeps and tries again, and changes nothing.
Dial ==
    /\ main = "dial"
    /\ made < MaxConns
    /\ main' = "read"
    /\ made' = made + 1
    /\ link' = [link EXCEPT ![made'] = "open"]
    /\ emitter' = [emitter EXCEPT ![made'] = NewEmitters]
    /\ writer' = [writer EXCEPT ![made'] = "take"]
    /\ UNCHANGED owed

\* The read of the main loop fails.
Disconnected ==
    /\ main = "read"
    /\ link[made] = "closed"
    /\ main' = "dial"
    /\ UNCHANGED <<made, emitter, writer, owed, link>>

\* messageChan: any writer takes the message of any emitter.
Take(n, m, k) ==
    /\ writer[n] = "take"
    /\ emitter[m][k] = "message"
    /\ writer' = [writer EXCEPT ![n] = "write"]
    /\ emitter' = [emitter EXCEPT ![m][k] = "select"]
    /\ UNCHANGED <<main, made, link, owed>>

\* messageChan: or the line of a source, which may print one at any time, or no more.
TakeLine(n) ==
    /\ writer[n] = "take"
    /\ Sources # {}
    /\ writer' = [writer EXCEPT ![n] = "write"]
    /\ UNCHANGED <<main, made, link, emitter, owed>>

\* The write succeeds.  On a connection that the other side closed, the
\* message is lost.
Write(n) ==
    /\ writer[n] = "write"
    /\ writer' = [writer EXCEPT ![n] = "take"]
    /\ UNCHANGED <<main, made, link, emitter, owed>>

\* Mutation: a failed write is ignored.
WriteFailsOn(n) ==
    /\ writer[n] = "write"
    /\ link[n] = "closed"
    /\ writer' = [writer EXCEPT ![n] = "take"]
    /\ UNCHANGED <<main, made, link, emitter, owed>>

\* The writer leaves its loop, with a stop to send per emitter it came with.
WriteFails(n) ==
    /\ writer[n] = "write"
    /\ link[n] = "closed"
    /\ writer' = [writer EXCEPT ![n] = IF Kinds = {} THEN "none" ELSE "stop"]
    /\ owed' = [owed EXCEPT ![n] = Cardinality(Kinds)]
    /\ UNCHANGED <<main, made, link, emitter>>

\* The ticker of an emitter, and the message after it.
Tick(m, k) ==
    /\ emitter[m][k] = "select"
    /\ emitter' = [emitter EXCEPT ![m][k] = "message"]
    /\ UNCHANGED <<main, made, writer, owed, link>>

Stops(n) ==
    /\ writer[n] = "stop"
    /\ owed' = [owed EXCEPT ![n] = @ - 1]
    /\ writer' = [writer EXCEPT ![n] = IF owed'[n] = 0 THEN "none" ELSE "stop"]
    /\ UNCHANGED <<main, made, link>>

\* Mutation: an emitter that is told to stop goes on.
StopIgnored(n, m, k) ==
    /\ emitter[m][k] = "select"
    /\ emitter' = [emitter EXCEPT ![m][k] = "message"]
    /\ Stops(n)

\* stopChan: any emitter waiting for its ticker takes the stop.
Stop(n, m, k) ==
    /\ emitter[m][k] = "select"
    /\ emitter' = [emitter EXCEPT ![m][k] = "none"]
    /\ Stops(n)

-----------------------------------------------------------------------------
(* The environment *)

Closed == [n \in Conns |-> IF link[n] = "open" THEN "closed" ELSE link[n]]

Break(n) ==
    /\ link[n] = "open"
    /\ link' = [link EXCEPT ![n] = "closed"]
    /\ UNCHANGED <<main, made, emitter, writer, owed>>

\* agent11 is killed, or exits because a program of -emitter failed, and is started
\* again.
AgentRestarts ==
    /\ made > 0
    /\ main' = "dial"
    /\ emitter' = [n \in Conns |-> NoEmitters]
    /\ writer' = [n \in Conns |-> "none"]
    /\ owed' = [n \in Conns |-> 0]
    /\ link' = Closed
    /\ UNCHANGED made

-----------------------------------------------------------------------------
Writers ==
    \E n \in Conns :
        \/ TakeLine(n) \/ Write(n) \/ WriteFails(n)
        \/ \E m \in Conns, k \in Kinds : Take(n, m, k) \/ Stop(n, m, k)

Emitters == \E m \in Conns, k \in Kinds : Tick(m, k)

Environment == (\E n \in Conns : Break(n)) \/ AgentRestarts

AgentNext == Dial \/ Disconnected \/ Emitters \/ Writers \/ Environment

\* Tickers tick, and a writer that can meet an emitter on a channel again and
\* again does: select picks at random, and those who wait are served in the
\* order they came.  Writing on a closed connection fails in the end.
\* Nobody has to break a connection, to restart the agent or to let it dial, and
\* no source has to print.
AgentFairness ==
    /\ WF_agentVars(Disconnected)
    /\ WF_agentVars(Emitters)
    /\ \A n \in Conns :
         /\ SF_agentVars(\E m \in Conns, k \in Kinds : Take(n, m, k))
         /\ WF_agentVars(Write(n)) /\ SF_agentVars(WriteFails(n))
         /\ SF_agentVars(\E m \in Conns, k \in Kinds : Stop(n, m, k))

AgentSpec == AgentInit /\ [][AgentNext]_agentVars /\ AgentFairness

-----------------------------------------------------------------------------
Alive == {e \in Conns \X Kinds : emitter[e[1]][e[2]] # "none"}

\* Emitters the writer of a connection stands for: all those of a connection
\* until it fails, then those it has still to stop.
StandsFor(n) ==
    IF writer[n] \in {"take", "write"} THEN Cardinality(Kinds) ELSE owed[n]

\* The stops that the writers alive will have sent in the end, numbered by writer.
StopsToCome == {s \in Conns \X (1 .. Cardinality(Kinds)) : s[2] <= StandsFor(s[1])}

\* However connections and restarts overlap, there are as many emitters as the
\* writers alive stand for: none is left that nobody will stop, and no writer
\* waits for an emitter that does not exist.  (The counting of routinesCount
\* and stopChan.)
EmittersMatchWriters == Cardinality(Alive) = Cardinality(StopsToCome)

Connected == main = "read" /\ link[made] = "open"

\* On a connection that stays up, the goroutines of the earlier ones end: one
\* writer is left, and as many emitters as were asked for.
Settled ==
    /\ \A n \in Conns : writer[n] # "none" <=> n = made
    /\ Cardinality(Alive) = Cardinality(Kinds)

Settles == <>[]Connected => <>[]Settled

Emitted(k) == \E m \in Conns : emitter[m][k] # "none"

\* On a connection that stays up, every kind asked for is emitted.
EveryKindEmitted == <>[]Connected => <>[](\A k \in Kinds : Emitted(k))
=============================================================================
