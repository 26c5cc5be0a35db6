------------------------ MODULE Connections_proofs ------------------------
(***************************************************************************)
(* The two ends of a connection: the network feed, for any number of       *)
(* clients and of metrics, and the agent, for any number of connections    *)
(* and of kinds of metrics.                                                *)
(*                                                                         *)
(* - No value of the network outlives the connections that could have sent *)
(*   it.  DisconnectionShown says nothing of the states before the last    *)
(*   handler ends, and is not inductive.  ValuesVouchedFor is: every value *)
(*   on a meter has a reader that has seen its metric and has yet to send  *)
(*   the error for it.  Types are needed with it, for a connection         *)
(*   accepted anew, which forgets what its reader had seen, had no handler.*)
(*                                                                         *)
(* - The agent has one emitter per stop its writers will send.  That is an *)
(*   equation of two cardinalities, and inductive with what it takes to    *)
(*   know what a step adds to either set or takes from it: connections not *)
(*   made have no goroutines, and a writer owes stops while it sends them. *)
(***************************************************************************)
EXTENDS NetworkFeed, Agent, SequenceTheorems, FiniteSetTheorems, TLAPS

-----------------------------------------------------------------------------
(* The network feed *)

\* A metric or error line names a metric.
LEMMA LineNamesMetric ==
    ASSUME NEW l \in Lines, l.kind # "other"
    PROVE  l.name \in Metrics
BY DEF Lines

\* The line a reader takes off the wire leaves a wire behind.
LEMMA LineTaken ==
    ASSUME TypeOK, NEW c \in Clients, wire[c] # <<>>
    PROVE  /\ Head(wire[c]) \in Lines
           /\ [wire EXCEPT ![c] = Tail(@)] \in [Clients -> Seq(Lines)]
<1>1. wire[c] \in Seq(Lines)
  BY DEF TypeOK
<1>2. Head(wire[c]) \in Lines /\ Tail(wire[c]) \in Seq(Lines)
  BY <1>1, HeadTailProperties
<1> QED
  BY <1>2 DEF TypeOK

\* The wires stay wires when their connection is closed.
LEMMA CloseTypes ==
    ASSUME TypeOK, NEW c \in Clients, Close(c)
    PROVE  TypeOK'
<1>1. <<>> \in Seq(Lines)
  OBVIOUS
<1> QED
  BY <1>1 DEF Close, TypeOK, listener

LEMMA TypeStep ==
    ASSUME TypeOK, [Next]_vars
    PROVE  TypeOK'
<1>1. CASE Start
  BY <1>1 DEF Start, TypeOK
<1>2. CASE AcceptFails
  BY <1>2 DEF AcceptFails, TypeOK
<1>3. ASSUME NEW c \in Clients, Accept(c)
      PROVE  TypeOK'
  BY <1>3 DEF Accept, TypeOK, listener
<1>4. ASSUME NEW c \in Clients, NEW l \in Lines, Send(c, l)
      PROVE  TypeOK'
  <2>1. wire[c] \in Seq(Lines)
    BY DEF TypeOK
  <2>2. Append(wire[c], l) \in Seq(Lines)
    BY <2>1, AppendProperties
  <2> QED
    BY <1>4, <2>2 DEF Send, TypeOK, listener
<1>5. ASSUME NEW c \in Clients, Leave(c)
      PROVE  TypeOK'
  BY <1>5 DEF Leave, TypeOK, listener
<1>6. ASSUME NEW c \in Clients, ReadClient(c)
      PROVE  TypeOK'
  BY <1>6 DEF ReadClient, TypeOK, listener
<1>7. ASSUME NEW c \in Clients, ReadMetric(c) \/ ReadError(c)
      PROVE  TypeOK'
  <2> DEFINE n == Head(wire[c]).name
  <2>1. n \in Metrics
    BY <1>7, LineTaken, LineNamesMetric DEF ReadMetric, ReadError
  <2>2. wire' \in [Clients -> Seq(Lines)]
    BY <1>7, LineTaken DEF ReadMetric, ReadError
  <2>3. shown' = [shown EXCEPT ![n] = "value"] \/ shown' = [shown EXCEPT ![n] = "error"]
    BY <1>7 DEF ReadMetric, ReadError
  <2>4. seen' = [seen EXCEPT ![c] = @ \cup {n}] \/ seen' = seen
    BY <1>7 DEF ReadMetric, ReadError
  <2>5. UNCHANGED <<listener, conn, handler>>
    BY <1>7 DEF ReadMetric, ReadError
  <2> HIDE DEF n
  <2>6. shown' \in [Metrics -> {"none", "value", "error"}]
    BY <2>1, <2>3 DEF TypeOK
  <2>7. seen' \in [Clients -> SUBSET Metrics]
    BY <2>1, <2>4 DEF TypeOK
  <2> QED
    BY <2>2, <2>5, <2>6, <2>7 DEF TypeOK, listener
<1>8. ASSUME NEW c \in Clients, ReadOther(c)
      PROVE  TypeOK'
  BY <1>8, LineTaken DEF ReadOther, TypeOK, listener
<1>9. ASSUME NEW c \in Clients, Eof(c) \/ LineRefused(c)
      PROVE  TypeOK'
  BY <1>9 DEF Eof, LineRefused, ScanEnds, TypeOK, listener
<1>10. ASSUME NEW c \in Clients, NEW m \in Metrics, SendError(c, m)
       PROVE  TypeOK'
  BY <1>10 DEF SendError, TypeOK, listener
<1>11. ASSUME NEW c \in Clients, HandlerEnds(c) \/ NoClient(c)
       PROVE  TypeOK'
  BY <1>11, CloseTypes DEF HandlerEnds, NoClient
<1>12. CASE UNCHANGED vars
  BY <1>12 DEF vars, listener, TypeOK
<1> QED
  BY <1>1, <1>2, <1>3, <1>4, <1>5, <1>6, <1>7, <1>8, <1>9, <1>10, <1>11, <1>12
  DEF Next, Client, Handler

LEMMA VouchedStep ==
    ASSUME TypeOK, ValuesVouchedFor, [Next]_vars
    PROVE  ValuesVouchedFor'
<1> SUFFICES ASSUME NEW m \in Metrics, shown'[m] = "value"
             PROVE  \E c \in Clients : handler'[c] \in {"read", "errors"} /\ m \in seen'[c]
  BY DEF ValuesVouchedFor
<1>a. ASSUME shown[m] = "value"
      PROVE  \E c \in Clients : handler[c] \in {"read", "errors"} /\ m \in seen[c]
  BY <1>a DEF ValuesVouchedFor
<1>1. CASE Start \/ AcceptFails \/ UNCHANGED vars
  BY <1>1, <1>a DEF Start, AcceptFails, vars, listener
\* A connection accepted anew vouched for nothing: it had no handler.
<1>2. ASSUME NEW c \in Clients, Accept(c)
      PROVE  \E d \in Clients : handler'[d] \in {"read", "errors"} /\ m \in seen'[d]
  <2>1. shown[m] = "value"
    BY <1>2 DEF Accept
  <2>2. PICK d \in Clients : handler[d] \in {"read", "errors"} /\ m \in seen[d]
    BY <2>1, <1>a
  <2>3. handler[c] = "none"
    BY <1>2 DEF Accept, TypeOK
  <2> QED
    BY <1>2, <2>2, <2>3 DEF Accept, TypeOK
<1>3. ASSUME NEW c \in Clients, Client(c) \/ ReadClient(c) \/ ReadOther(c) \/ Eof(c) \/ LineRefused(c)
      PROVE  \E d \in Clients : handler'[d] \in {"read", "errors"} /\ m \in seen'[d]
  <2>1. shown[m] = "value"
    BY <1>3 DEF Client, Leave, Send, ReadClient, ReadOther, Eof, LineRefused, ScanEnds
  <2>2. PICK d \in Clients : handler[d] \in {"read", "errors"} /\ m \in seen[d]
    BY <2>1, <1>a
  <2> QED
    BY <1>3, <2>2
    DEF Client, Leave, Send, ReadClient, ReadOther, Eof, LineRefused, ScanEnds, TypeOK
\* A metric read is remembered by its reader.
<1>4. ASSUME NEW c \in Clients, ReadMetric(c)
      PROVE  \E d \in Clients : handler'[d] \in {"read", "errors"} /\ m \in seen'[d]
  <2>1. CASE m = Head(wire[c]).name
    BY <1>4, <2>1 DEF ReadMetric, TypeOK
  <2>2. CASE m # Head(wire[c]).name
    <3>1. shown[m] = "value"
      BY <1>4, <2>2 DEF ReadMetric, TypeOK
    <3> QED
      BY <1>4, <3>1, <1>a DEF ReadMetric, TypeOK
  <2> QED
    BY <2>1, <2>2
<1>5. ASSUME NEW c \in Clients, ReadError(c)
      PROVE  \E d \in Clients : handler'[d] \in {"read", "errors"} /\ m \in seen'[d]
  <2>1. shown[m] = "value"
    BY <1>5 DEF ReadError, TypeOK
  <2> QED
    BY <1>5, <2>1, <1>a DEF ReadError
\* What a handler forgets, it has shown as an error.
<1>6. ASSUME NEW c \in Clients, NEW n \in Metrics, SendError(c, n)
      PROVE  \E d \in Clients : handler'[d] \in {"read", "errors"} /\ m \in seen'[d]
  <2>1. n # m /\ shown[m] = "value"
    BY <1>6 DEF SendError, TypeOK
  <2>2. PICK d \in Clients : handler[d] \in {"read", "errors"} /\ m \in seen[d]
    BY <2>1, <1>a
  <2> QED
    BY <1>6, <2>1, <2>2 DEF SendError, TypeOK
\* A handler that ends has nothing left to vouch for.
<1>7. ASSUME NEW c \in Clients, HandlerEnds(c) \/ NoClient(c)
      PROVE  \E d \in Clients : handler'[d] \in {"read", "errors"} /\ m \in seen'[d]
  <2>1. shown[m] = "value"
    BY <1>7 DEF HandlerEnds, NoClient, Close
  <2>2. PICK d \in Clients : handler[d] \in {"read", "errors"} /\ m \in seen[d]
    BY <2>1, <1>a
  <2>3. d # c
    BY <1>7, <2>2 DEF HandlerEnds, NoClient
  <2> QED
    BY <1>7, <2>2, <2>3 DEF HandlerEnds, NoClient, Close, TypeOK
<1> QED
  BY <1>1, <1>2, <1>3, <1>4, <1>5, <1>6, <1>7 DEF Next, Handler

\* Connections and handlers come and go together, and the state keeps its types
\* (handleConnection, readMessages).
THEOREM TypeCorrect == Spec => []TypeOK
<1>1. Init => TypeOK
  <2>1. <<>> \in Seq(Lines)
    OBVIOUS
  <2> QED
    BY <2>1 DEF Init, TypeOK
<1>2. TypeOK /\ [Next]_vars => TypeOK'
  BY TypeStep
<1> QED
  BY <1>1, <1>2, PTL DEF Spec

\* Every value displayed has a connection that will show its end (seen, the
\* errors sent at the end of readMessages).
THEOREM ValuesAlwaysVouchedFor == Spec => []ValuesVouchedFor
<1>1. Init => ValuesVouchedFor
  BY DEF Init, ValuesVouchedFor
<1>2. TypeOK /\ ValuesVouchedFor /\ [Next]_vars => ValuesVouchedFor'
  BY VouchedStep
<1> QED
  BY <1>1, <1>2, TypeCorrect, PTL DEF Spec

\* When the last handler is through, no meter shows a value of the network.
THEOREM DisconnectionAlwaysShown == Spec => []DisconnectionShown
<1>1. ValuesVouchedFor => DisconnectionShown
  BY DEF ValuesVouchedFor, DisconnectionShown
<1> QED
  BY <1>1, ValuesAlwaysVouchedFor, PTL

-----------------------------------------------------------------------------
(* The agent *)

NoGoroutines(n) ==
    /\ writer[n] = "none" /\ owed[n] = 0
    /\ \A k \in Kinds : emitter[n][k] = "none"

AgentInv ==
    /\ AgentTypeOK
    /\ main = "read" => made > 0
    /\ \A n \in Conns : n > made => NoGoroutines(n)
    /\ \A n \in Conns : writer[n] = "stop" <=> owed[n] > 0
    /\ EmittersMatchWriters

LEMMA SamePairs ==
    ASSUME NEW A, NEW B, NEW S \in SUBSET (A \X B), NEW T \in SUBSET (A \X B),
           \A a \in A, b \in B : <<a, b>> \in S <=> <<a, b>> \in T
    PROVE  S = T
OBVIOUS

LEMMA ProductWithOne ==
    ASSUME NEW a, NEW S, IsFiniteSet(S)
    PROVE  IsFiniteSet({a} \X S) /\ Cardinality({a} \X S) = Cardinality(S)
<1>1. IsFiniteSet({a}) /\ Cardinality({a}) = 1
  BY FS_Singleton
<1>2. IsFiniteSet({a} \X S) /\ Cardinality({a} \X S) = Cardinality({a}) * Cardinality(S)
  BY <1>1, FS_Product
<1>3. Cardinality(S) \in Nat
  BY FS_CardinalityType
<1> QED
  BY <1>1, <1>2, <1>3

LEMMA DisjointUnion ==
    ASSUME NEW S, NEW T, IsFiniteSet(S), IsFiniteSet(T), S \cap T = {}
    PROVE  Cardinality(S \cup T) = Cardinality(S) + Cardinality(T)
<1>1. Cardinality(S \cup T) = Cardinality(S) + Cardinality(T) - Cardinality({})
  BY FS_Union
<1>2. Cardinality({}) = 0 /\ Cardinality(S) \in Nat /\ Cardinality(T) \in Nat
  BY FS_EmptySet, FS_CardinalityType
<1> QED
  BY <1>1, <1>2

LEMMA KindsFinite == IsFiniteSet(Kinds) /\ Cardinality(Kinds) \in Nat
BY AgentAssumption, FS_CardinalityType

LEMMA BothFinite ==
    /\ IsFiniteSet(Alive) /\ Cardinality(Alive) \in Nat
    /\ IsFiniteSet(StopsToCome) /\ Cardinality(StopsToCome) \in Nat
<1>1. IsFiniteSet(Conns)
  BY AgentAssumption, FS_Interval DEF Conns
<1>2. IsFiniteSet(Conns \X Kinds)
  BY <1>1, KindsFinite, FS_Product
<1>3. IsFiniteSet(1 .. Cardinality(Kinds))
  BY KindsFinite, FS_Interval
<1>4. IsFiniteSet(Conns \X (1 .. Cardinality(Kinds)))
  BY <1>1, <1>3, FS_Product
<1>5. IsFiniteSet(Alive) /\ IsFiniteSet(StopsToCome)
  <2>1. Alive \in SUBSET (Conns \X Kinds)
    BY DEF Alive
  <2>2. StopsToCome \in SUBSET (Conns \X (1 .. Cardinality(Kinds)))
    BY DEF StopsToCome
  <2> QED
    BY <1>2, <1>4, <2>1, <2>2, FS_Subset
<1> QED
  BY <1>5, FS_CardinalityType

\* A step that neither starts nor ends an emitter, nor changes what a writer
\* stands for.
LEMMA NobodyComesOrGoes ==
    ASSUME EmittersMatchWriters,
           \A m \in Conns, k \in Kinds : emitter'[m][k] # "none" <=> emitter[m][k] # "none",
           \A n \in Conns : StandsFor(n)' = StandsFor(n)
    PROVE  EmittersMatchWriters'
<1>1. Alive' = Alive
  BY DEF Alive
<1>2. StopsToCome' = StopsToCome
  BY DEF StopsToCome
<1> QED
  BY <1>1, <1>2 DEF EmittersMatchWriters

LEMMA AgentInitially == AgentInit => AgentInv
<1> SUFFICES ASSUME AgentInit
             PROVE  AgentInv
  OBVIOUS
<1>1. AgentTypeOK
  BY AgentAssumption, KindsFinite DEF AgentInit, AgentTypeOK, NoEmitters
<1>2. \A n \in Conns : NoGoroutines(n)
  BY DEF AgentInit, NoGoroutines, NoEmitters
<1>3. Alive = {}
  BY <1>2 DEF Alive, NoGoroutines
<1>4. StopsToCome = {}
  BY <1>2 DEF StopsToCome, StandsFor, NoGoroutines
<1> QED
  BY <1>1, <1>2, <1>3, <1>4 DEF AgentInit, AgentInv, EmittersMatchWriters, NoGoroutines

\* A connection brings as many emitters as its writer stands for.
LEMMA DialKeeps ==
    ASSUME AgentInv, Dial
    PROVE  AgentInv'
<1>0. PICK c \in Conns : c = made'
  BY AgentAssumption DEF AgentInv, AgentTypeOK, Dial, Conns
<1>1. /\ made \in Nat /\ MaxConns \in Nat /\ c = made + 1 /\ made' = c
      /\ NoGoroutines(c)
  BY <1>0, AgentAssumption DEF AgentInv, AgentTypeOK, Dial, Conns
<1>2. /\ emitter'[c] = NewEmitters /\ writer'[c] = "take"
      /\ \A n \in Conns \ {c} : emitter'[n] = emitter[n] /\ writer'[n] = writer[n]
      /\ owed' = owed
  BY <1>1 DEF Dial, AgentInv, AgentTypeOK
<1>3. AgentTypeOK'
  BY <1>1, AgentAssumption DEF Dial, AgentInv, AgentTypeOK, NewEmitters, Conns
<1>4. /\ \A n \in Conns : n > made' => NoGoroutines(n)'
      /\ \A n \in Conns : writer'[n] = "stop" <=> owed'[n] > 0
  BY <1>1, <1>2 DEF AgentInv, NoGoroutines, Conns
<1>5. /\ Alive' = Alive \cup ({c} \X Kinds)
      /\ Alive \cap ({c} \X Kinds) = {}
  <2>1. /\ Alive' \in SUBSET (Conns \X Kinds)
        /\ Alive \cup ({c} \X Kinds) \in SUBSET (Conns \X Kinds)
    BY <1>1 DEF Alive
  <2>2. \A n \in Conns, k \in Kinds : <<n, k>> \in Alive' <=> n = c \/ <<n, k>> \in Alive
    BY <1>1, <1>2 DEF Alive, NewEmitters
  <2>3. \A n \in Conns, k \in Kinds : <<n, k>> \in {c} \X Kinds <=> n = c
    OBVIOUS
  <2>4. Alive' = Alive \cup ({c} \X Kinds)
    BY <2>1, <2>2, <2>3, SamePairs
  <2>5. \A k \in Kinds : <<c, k>> \notin Alive
    BY <1>1 DEF Alive, NoGoroutines
  <2> QED
    BY <2>4, <2>5
<1>6. /\ StopsToCome' = StopsToCome \cup ({c} \X (1 .. Cardinality(Kinds)))
      /\ StopsToCome \cap ({c} \X (1 .. Cardinality(Kinds))) = {}
  <2> DEFINE Numbers == 1 .. Cardinality(Kinds)
  <2>1. /\ StopsToCome' \in SUBSET (Conns \X Numbers)
        /\ StopsToCome \cup ({c} \X Numbers) \in SUBSET (Conns \X Numbers)
    BY <1>1 DEF StopsToCome
  <2>2. /\ StandsFor(c)' = Cardinality(Kinds) /\ StandsFor(c) = 0
        /\ \A n \in Conns \ {c} : StandsFor(n)' = StandsFor(n)
    BY <1>1, <1>2 DEF StandsFor, NoGoroutines
  <2>3. \A n \in Conns, i \in Numbers :
            <<n, i>> \in StopsToCome' <=> n = c \/ <<n, i>> \in StopsToCome
    BY <2>2, KindsFinite DEF StopsToCome
  <2>4. \A n \in Conns, i \in Numbers : <<n, i>> \in {c} \X Numbers <=> n = c
    OBVIOUS
  <2>5. StopsToCome' = StopsToCome \cup ({c} \X Numbers)
    BY <2>1, <2>3, <2>4, SamePairs
  <2>6. \A i \in Numbers : <<c, i>> \notin StopsToCome
    BY <2>2, KindsFinite DEF StopsToCome
  <2> QED
    BY <2>5, <2>6
<1>7. /\ IsFiniteSet({c} \X Kinds)
      /\ Cardinality({c} \X Kinds) = Cardinality(Kinds)
      /\ IsFiniteSet({c} \X (1 .. Cardinality(Kinds)))
      /\ Cardinality({c} \X (1 .. Cardinality(Kinds))) = Cardinality(Kinds)
  <2>1. /\ IsFiniteSet(1 .. Cardinality(Kinds))
        /\ Cardinality(1 .. Cardinality(Kinds)) = Cardinality(Kinds)
    BY KindsFinite, FS_Interval
  <2> QED
    BY <2>1, KindsFinite, ProductWithOne
<1>8. EmittersMatchWriters'
  <2>1. Cardinality(Alive') = Cardinality(Alive) + Cardinality(Kinds)
    BY <1>5, <1>7, BothFinite, DisjointUnion
  <2>2. Cardinality(StopsToCome') = Cardinality(StopsToCome) + Cardinality(Kinds)
    BY <1>6, <1>7, BothFinite, DisjointUnion
  <2> QED
    BY <2>1, <2>2 DEF AgentInv, EmittersMatchWriters
<1> QED
  BY <1>1, <1>3, <1>4, <1>8 DEF AgentInv

\* Messages, ticks, writes, and what happens to the connection.
LEMMA WorkKeeps ==
    ASSUME AgentInv,
           \/ \E n \in Conns : TakeLine(n) \/ Write(n) \/ Break(n)
           \/ \E n, m \in Conns, k \in Kinds : Take(n, m, k) \/ Tick(m, k)
           \/ Disconnected
    PROVE  AgentInv'
<1>1. AgentTypeOK'
  <2>1. ASSUME NEW n \in Conns, TakeLine(n) \/ Write(n) \/ Break(n)
        PROVE  AgentTypeOK'
    BY <2>1 DEF AgentInv, AgentTypeOK, TakeLine, Write, Break
  <2>2. ASSUME NEW n \in Conns, NEW m \in Conns, NEW k \in Kinds, Take(n, m, k) \/ Tick(m, k)
        PROVE  AgentTypeOK'
    <3>1. emitter' \in [Conns -> [Kinds -> {"none", "message", "select"}]]
      <4>1. PICK v \in {"message", "select"} : emitter' = [emitter EXCEPT ![m][k] = v]
        BY <2>2 DEF Take, Tick
      <4>2. emitter \in [Conns -> [Kinds -> {"none", "message", "select"}]]
        BY DEF AgentInv, AgentTypeOK
      <4> QED
        BY <4>1, <4>2
    <3>2. writer' \in [Conns -> {"none", "take", "write", "stop"}]
      BY <2>2 DEF AgentInv, AgentTypeOK, Take, Tick
    <3> QED
      BY <2>2, <3>1, <3>2 DEF AgentInv, AgentTypeOK, Take, Tick
  <2>3. CASE Disconnected
    BY <2>3 DEF AgentInv, AgentTypeOK, Disconnected
  <2> QED
    BY <2>1, <2>2, <2>3
<1>2. /\ UNCHANGED <<made, owed>>
      /\ main' = "read" => main = "read"
      /\ \A c \in Conns : writer'[c] # writer[c] => {writer[c], writer'[c]} \subseteq {"take", "write"}
      /\ \A c \in Conns, j \in Kinds : emitter'[c][j] # "none" <=> emitter[c][j] # "none"
  BY DEF AgentInv, AgentTypeOK, Take, TakeLine, Write, Tick, Disconnected, Break
<1>3. \A c \in Conns : StandsFor(c)' = StandsFor(c)
  BY <1>2 DEF StandsFor
<1>4. EmittersMatchWriters'
  BY <1>2, <1>3, NobodyComesOrGoes DEF AgentInv
<1> QED
  BY <1>1, <1>2, <1>4 DEF AgentInv, NoGoroutines

\* A writer that fails owes the stops it stood for.
LEMMA WriteFailsKeeps ==
    ASSUME AgentInv, NEW n \in Conns, WriteFails(n)
    PROVE  AgentInv'
<1>1. Cardinality(Kinds) = 0 <=> Kinds = {}
  BY AgentAssumption, FS_EmptySet
<1>2. /\ writer'[n] = IF Kinds = {} THEN "none" ELSE "stop"
      /\ owed'[n] = Cardinality(Kinds)
      /\ \A c \in Conns \ {n} : writer'[c] = writer[c] /\ owed'[c] = owed[c]
      /\ UNCHANGED <<main, made, emitter>>
      /\ n <= made
  BY DEF AgentInv, AgentTypeOK, WriteFails, NoGoroutines, Conns
<1>3. AgentTypeOK'
  BY KindsFinite DEF AgentInv, AgentTypeOK, WriteFails
<1>4. \A c \in Conns : StandsFor(c)' = StandsFor(c)
  BY <1>2 DEF StandsFor, WriteFails
<1>5. EmittersMatchWriters'
  BY <1>2, <1>4, NobodyComesOrGoes DEF AgentInv
<1>6. /\ \A c \in Conns : c > made' => NoGoroutines(c)'
      /\ \A c \in Conns : writer'[c] = "stop" <=> owed'[c] > 0
  BY <1>1, <1>2, KindsFinite DEF AgentInv, AgentTypeOK, NoGoroutines, Conns
<1> QED
  BY <1>2, <1>3, <1>5, <1>6 DEF AgentInv

\* A stop ends one emitter, of whichever connection, and is one less to come.
LEMMA StopKeeps ==
    ASSUME AgentInv, NEW n \in Conns, NEW m \in Conns, NEW k \in Kinds, Stop(n, m, k)
    PROVE  AgentInv'
<1>1. /\ writer[n] = "stop" /\ owed[n] \in 1 .. Cardinality(Kinds)
      /\ emitter[m][k] = "select" /\ n <= made /\ m <= made
  BY KindsFinite DEF AgentInv, AgentTypeOK, Stop, Stops, NoGoroutines, Conns
<1>2. /\ owed'[n] = owed[n] - 1
      /\ writer'[n] = IF owed[n] = 1 THEN "none" ELSE "stop"
      /\ \A c \in Conns \ {n} : writer'[c] = writer[c] /\ owed'[c] = owed[c]
      /\ emitter'[m][k] = "none"
      /\ \A c \in Conns, j \in Kinds : <<c, j>> # <<m, k>> => emitter'[c][j] = emitter[c][j]
      /\ UNCHANGED <<main, made, link>>
  BY <1>1, KindsFinite DEF AgentInv, AgentTypeOK, Stop, Stops
<1>3. AgentTypeOK'
  BY <1>1, KindsFinite DEF AgentInv, AgentTypeOK, Stop, Stops
<1>4. Alive' = Alive \ {<<m, k>>} /\ <<m, k>> \in Alive
  BY <1>1, <1>2 DEF Alive
<1>5. StopsToCome' = StopsToCome \ {<<n, owed[n]>>} /\ <<n, owed[n]>> \in StopsToCome
  <2>1. \A c \in Conns : StandsFor(c)' = IF c = n THEN owed[n] - 1 ELSE StandsFor(c)
    BY <1>1, <1>2 DEF StandsFor
  <2>2. StandsFor(n) = owed[n]
    BY <1>1 DEF StandsFor
  <2> QED
    BY <2>1, <2>2, <1>1, KindsFinite DEF StopsToCome
<1>6. EmittersMatchWriters'
  <2>1. Cardinality(Alive') = Cardinality(Alive) - 1
    BY <1>4, BothFinite, FS_RemoveElement
  <2>2. Cardinality(StopsToCome') = Cardinality(StopsToCome) - 1
    BY <1>5, BothFinite, FS_RemoveElement
  <2> QED
    BY <2>1, <2>2 DEF AgentInv, EmittersMatchWriters
<1>7. /\ \A c \in Conns : c > made' => NoGoroutines(c)'
      /\ \A c \in Conns : writer'[c] = "stop" <=> owed'[c] > 0
  BY <1>1, <1>2, KindsFinite DEF AgentInv, AgentTypeOK, NoGoroutines, Conns
<1> QED
  BY <1>2, <1>3, <1>6, <1>7 DEF AgentInv

LEMMA AgentRestartsKeeps ==
    ASSUME AgentInv, AgentRestarts
    PROVE  AgentInv'
<1>1. \A n \in Conns : NoGoroutines(n)'
  BY DEF AgentRestarts, NoGoroutines, NoEmitters
<1>2. AgentTypeOK'
  BY KindsFinite DEF AgentInv, AgentTypeOK, AgentRestarts, NoEmitters, Closed
<1>3. Alive' = {} /\ StopsToCome' = {}
  BY <1>1 DEF Alive, StopsToCome, StandsFor, NoGoroutines
<1> QED
  BY <1>1, <1>2, <1>3 DEF AgentInv, AgentRestarts, EmittersMatchWriters, NoGoroutines

LEMMA AgentStep ==
    ASSUME AgentInv, [AgentNext]_agentVars
    PROVE  AgentInv'
<1>1. CASE Dial
  BY <1>1, DialKeeps
<1>2. CASE Emitters
  BY <1>2, WorkKeeps DEF Emitters
<1>3. CASE Writers
  BY <1>3, WorkKeeps, WriteFailsKeeps, StopKeeps DEF Writers
<1>4. CASE Disconnected \/ \E n \in Conns : Break(n)
  BY <1>4, WorkKeeps
<1>5. CASE AgentRestarts
  BY <1>5, AgentRestartsKeeps
<1>6. CASE UNCHANGED agentVars
  BY <1>6 DEF agentVars, AgentInv, AgentTypeOK, NoGoroutines, EmittersMatchWriters, Alive,
     StopsToCome, StandsFor
<1> QED
  BY <1>1, <1>2, <1>3, <1>4, <1>5, <1>6 DEF AgentNext, Environment

\* The goroutines of connections never made do nothing, and main, the emitters, the
\* writers and the stops they owe keep their types (main, emit, the writer goroutine).
THEOREM AgentTypeCorrect == AgentSpec => []AgentTypeOK
<1>1. AgentInv => AgentTypeOK
  BY DEF AgentInv
<1> QED
  BY <1>1, AgentInitially, AgentStep, PTL DEF AgentSpec

\* However many connections are made, broken and left behind, and however often the
\* agent is started again, there are as many emitters as stops to come, though a
\* writer may stop the emitters of another (routinesCount and stopChan).
THEOREM EmittersAlwaysMatchWriters == AgentSpec => []EmittersMatchWriters
<1>1. AgentInv => EmittersMatchWriters
  BY DEF AgentInv
<1> QED
  BY <1>1, AgentInitially, AgentStep, PTL DEF AgentSpec
=============================================================================
