---------------------------- MODULE NetworkFeed ----------------------------
(***************************************************************************)
(* The network feed (feed.go) and the reader of messages (read.go): any    *)
(* number of clients, agent11 among them, connect, name themselves, send   *)
(* lines and go away; when one is gone its metrics are shown as errors.    *)
(*                                                                         *)
(* A handler and its reader are one goroutine here: the handler waits for  *)
(* the reader.  The bus is a queue with one consumer (see Display), so     *)
(* that what is sent first is shown first: sending a metric and showing it *)
(* are one step.  A meter shows a value or an error, whichever value.      *)
(***************************************************************************)
EXTENDS Sequences, Naturals

CONSTANTS
    Clients,    \* connections at a time; one is used again once closed
    Metrics,    \* names of metrics
    WireCap     \* bound: lines sent by a client and not read

ASSUME FeedAssumption == WireCap \in Nat

\* The lines that matter.  Sounds, controls and invalid lines change no meter.
Lines == [kind : {"metric", "error"}, name : Metrics] \cup {[kind |-> "other"]}

VARIABLES
    started,    \* networkFeed.started
    listening,  \* the listener is open
    conn,       \* per client: "none", "open", or "gone" when the client left
    handler,    \* per client: "none", "client", "read" or "errors"
    wire,       \* per client, lines sent and not read
    seen,       \* per client, the metrics its reader has seen
    shown       \* per metric, its meter: "none", "value" or "error"

listener == <<started, listening>>
vars == <<listener, conn, handler, wire, seen, shown>>

TypeOK ==
    /\ started \in BOOLEAN /\ listening \in BOOLEAN
    /\ conn \in [Clients -> {"none", "open", "gone"}]
    /\ handler \in [Clients -> {"none", "client", "read", "errors"}]
    /\ wire \in [Clients -> Seq(Lines)]
    /\ \A c \in Clients : conn[c] = "none" <=> handler[c] = "none"
    /\ seen \in [Clients -> SUBSET Metrics]
    /\ shown \in [Metrics -> {"none", "value", "error"}]

Init ==
    /\ started = FALSE /\ listening = FALSE
    /\ conn = [c \in Clients |-> "none"]
    /\ handler = [c \in Clients |-> "none"]
    /\ wire = [c \in Clients |-> <<>>]
    /\ seen = [c \in Clients |-> {}]
    /\ shown = [m \in Metrics |-> "none"]

-----------------------------------------------------------------------------
(* The listener *)

\* A mode with the feed is selected.  When the address cannot be had, the next
\* selection tries again.  stop() does nothing.
Start ==
    /\ ~started
    /\ started' = TRUE /\ listening' = TRUE
    /\ UNCHANGED <<conn, handler, wire, seen, shown>>

\* The goroutine that accepts gives up at the first error.
AcceptFails ==
    /\ listening
    /\ listening' = FALSE
    /\ UNCHANGED <<started, conn, handler, wire, seen, shown>>

Accept(c) ==
    /\ listening
    /\ conn[c] = "none"
    /\ conn' = [conn EXCEPT ![c] = "open"]
    /\ handler' = [handler EXCEPT ![c] = "client"]
    /\ seen' = [seen EXCEPT ![c] = {}]
    /\ UNCHANGED <<listener, wire, shown>>

-----------------------------------------------------------------------------
(* A client *)

Send(c, l) ==
    /\ conn[c] = "open"
    /\ Len(wire[c]) < WireCap
    /\ wire' = [wire EXCEPT ![c] = Append(@, l)]
    /\ UNCHANGED <<listener, conn, handler, seen, shown>>

\* The client closes the connection, or the network breaks it.
Leave(c) ==
    /\ conn[c] = "open"
    /\ conn' = [conn EXCEPT ![c] = "gone"]
    /\ UNCHANGED <<listener, handler, wire, seen, shown>>

-----------------------------------------------------------------------------
(* handleConnection and readMessages *)

Close(c) ==
    /\ handler' = [handler EXCEPT ![c] = "none"]
    /\ conn' = [conn EXCEPT ![c] = "none"]
    /\ wire' = [wire EXCEPT ![c] = <<>>]
    /\ UNCHANGED <<listener, seen, shown>>

\* The line that names the client comes first.
ReadClient(c) ==
    /\ handler[c] = "client"
    /\ handler' = [handler EXCEPT ![c] = "read"]
    /\ UNCHANGED <<listener, conn, wire, seen, shown>>

\* It is not what the first line says, or there is none.
NoClient(c) == handler[c] = "client" /\ Close(c)

\* Mutation: the reader does not remember what it has seen.
ReadMetricUnseen(c) ==
    /\ handler[c] = "read"
    /\ wire[c] # <<>> /\ Head(wire[c]).kind = "metric"
    /\ wire' = [wire EXCEPT ![c] = Tail(@)]
    /\ shown' = [shown EXCEPT ![Head(wire[c]).name] = "value"]
    /\ UNCHANGED <<listener, conn, handler, seen>>

\* Mutation: an error stays on its meter.
ReadMetricAfterError(c) ==
    /\ handler[c] = "read"
    /\ wire[c] # <<>> /\ Head(wire[c]).kind = "metric"
    /\ wire' = [wire EXCEPT ![c] = Tail(@)]
    /\ seen' = [seen EXCEPT ![c] = @ \cup {Head(wire[c]).name}]
    /\ shown' = [shown EXCEPT ![Head(wire[c]).name] = IF @ = "error" THEN @ ELSE "value"]
    /\ UNCHANGED <<listener, conn, handler>>

ReadMetric(c) ==
    /\ handler[c] = "read"
    /\ wire[c] # <<>> /\ Head(wire[c]).kind = "metric"
    /\ wire' = [wire EXCEPT ![c] = Tail(@)]
    /\ seen' = [seen EXCEPT ![c] = @ \cup {Head(wire[c]).name}]
    /\ shown' = [shown EXCEPT ![Head(wire[c]).name] = "value"]
    /\ UNCHANGED <<listener, conn, handler>>

\* An error line is shown, and not remembered.
ReadError(c) ==
    /\ handler[c] = "read"
    /\ wire[c] # <<>> /\ Head(wire[c]).kind = "error"
    /\ wire' = [wire EXCEPT ![c] = Tail(@)]
    /\ shown' = [shown EXCEPT ![Head(wire[c]).name] = "error"]
    /\ UNCHANGED <<listener, conn, handler, seen>>

ReadOther(c) ==
    /\ handler[c] = "read"
    /\ wire[c] # <<>> /\ Head(wire[c]).kind = "other"
    /\ wire' = [wire EXCEPT ![c] = Tail(@)]
    /\ UNCHANGED <<listener, conn, handler, seen, shown>>

\* The scanner ends: it refuses a line that is too long, or the client left,
\* and what was on the wire may be lost.
ScanEnds(c) ==
    /\ handler[c] = "read"
    /\ handler' = [handler EXCEPT ![c] = "errors"]
    /\ UNCHANGED <<listener, conn, wire, seen, shown>>

\* Mutation: a reader with nothing left to read waits for more.
EofMissed(c) == conn[c] = "gone" /\ wire[c] # <<>> /\ ScanEnds(c)

Eof(c) == conn[c] = "gone" /\ ScanEnds(c)
LineRefused(c) == conn[c] = "open" /\ ScanEnds(c)

SendError(c, m) ==
    /\ handler[c] = "errors"
    /\ m \in seen[c]
    /\ seen' = [seen EXCEPT ![c] = @ \ {m}]
    /\ shown' = [shown EXCEPT ![m] = "error"]
    /\ UNCHANGED <<listener, conn, handler, wire>>

HandlerEnds(c) == handler[c] = "errors" /\ seen[c] = {} /\ Close(c)

-----------------------------------------------------------------------------
Handler(c) ==
    \/ ReadClient(c) \/ ReadMetric(c) \/ ReadError(c) \/ ReadOther(c)
    \/ Eof(c) \/ (\E m \in Metrics : SendError(c, m)) \/ HandlerEnds(c)

Client(c) == Leave(c) \/ \E l \in Lines : Send(c, l)

Next ==
    \/ Start \/ AcceptFails
    \/ \E c \in Clients : Accept(c) \/ Client(c) \/ Handler(c) \/ NoClient(c) \/ LineRefused(c)

\* A handler runs, and a client that stays names itself.  Nobody has to
\* connect, to send a line or to leave, and no line need be refused.
Fairness == \A c \in Clients : WF_vars(Handler(c))

Spec == Init /\ [][Next]_vars /\ Fairness

-----------------------------------------------------------------------------
\* A value on a meter is vouched for by a connection that is still handled and
\* will show the error in its turn.
ValuesVouchedFor ==
    \A m \in Metrics : shown[m] = "value" =>
        \E c \in Clients : handler[c] \in {"read", "errors"} /\ m \in seen[c]

\* Once the last client is gone and its handler through, no meter still shows
\* a value of the network ("to show error effect on disconnection"), whatever
\* metrics the clients shared and whichever order their handlers ended in.
DisconnectionShown ==
    (\A c \in Clients : handler[c] = "none") => \A m \in Metrics : shown[m] # "value"

\* The handler of a client that left ends.  Every handler that waits for ever
\* would keep its goroutines and its connection.
HandlersEnd == \A c \in Clients : conn[c] = "gone" ~> conn[c] = "none"

\* Everybody but c is gone for good.
OnlyClient(c) ==
    /\ conn[c] = "open" /\ handler[c] \in {"client", "read"}
    /\ \A d \in Clients \ {c} : conn[d] # "open"

Sent(c, k, m) == \E i \in DOMAIN wire[c] : wire[c][i].kind = k /\ wire[c][i].name = m

\* A client that came while others were leaving, and goes on sending a metric,
\* gets it back on its meter for good: the errors of the others come to an end.
MetersComeBack ==
    \A c \in Clients, m \in Metrics :
        /\ <>[](OnlyClient(c) /\ ~Sent(c, "error", m))
        /\ []<>Sent(c, "metric", m)
        => <>[](shown[m] = "value")
=============================================================================
