--------------------------- MODULE Display_proofs ---------------------------
(***************************************************************************)
(* What the LEDs show when the bus is drained, whatever the modes and      *)
(* their meters, the values sent and the capacity of the bus.              *)
(*                                                                         *)
(* The properties are about quiet states, and what makes them true is on   *)
(* its way before.  KnobsOnTheirWay follows the last knob metric of a      *)
(* switch through the bus and the consumer, whatever is shown, foreign or  *)
(* stale, before it.  RunOnItsWay says that, between a switch or a change  *)
(* of the running state and the quiet after it, the RUN led is right or    *)
(* something is coming that will put it right.                             *)
(***************************************************************************)
EXTENDS Display, SequenceTheorems, TLAPS

\* Only the program sends the metrics of its own.
OwnMetricsKept == {FeedMetric, ClientMetric} \cap {KnobMetric, RunMetric} = {}

-----------------------------------------------------------------------------
\* The meters are restored from the first step of a switch on, and what the two
\* senders of the running state hold is that metric.
Restoring == lpc \in {"restore", "show"}

FlowRight ==
    /\ ~Restoring => todo = {}
    /\ lpc = "send" => lmsg.name = RunMetric
    /\ cpc = "send" => cmsg.name = RunMetric

TInv == TypeOK /\ FlowRight

-----------------------------------------------------------------------------
(* The knob LEDs, under Spec *)

\* The loop has sent a knob metric since the switch.
KnobsSent == lpc \in {"knobd", "feeds", "read", "send", "idle"}

KnobsNow == Metric(KnobMetric, Position[curMode])
KnobLeds == MeterLeds(curMode, KnobMetric)

KnobsFrom(i) == \A j \in i .. Len(bus) : bus[j].name = KnobMetric => bus[j] = KnobsNow

\* The last knob metric is in the bus, or with the consumer, or shown; whatever
\* the consumer is about to light in the last case leaves it alone.
KnobsOnTheirWay ==
    \/ \E i \in 1 .. Len(bus) : bus[i] = KnobsNow /\ KnobsFrom(i)
    \/ /\ KnobsFrom(1) /\ cmsg = KnobsNow
       /\ cpc = "look" \/ (cpc = "show" /\ cled = KnobLeds)
    \/ /\ KnobsFrom(1) /\ \A l \in KnobLeds : leds[l] = KnobsNow
       /\ cpc = "look" /\ cmsg.name = KnobMetric => cmsg = KnobsNow
       /\ cpc = "show" => cled \cap KnobLeds = {} \/ cmsg = KnobsNow

KInv == TInv /\ (KnobsSent => KnobsOnTheirWay)

-----------------------------------------------------------------------------
(* The RUN led, under CalmSpec *)

RunNow == Metric(RunMetric, RunVal)
RunLeds == MeterLeds(curMode, RunMetric)

\* Nothing changes the mode or its running state while either is being read, sent
\* or shown.
RunUpToDate ==
    /\ \A i \in 1 .. Len(bus) : bus[i].name = RunMetric => bus[i] = RunNow
    /\ cpc \in {"look", "show"} /\ cmsg.name = RunMetric => cmsg = RunNow
    /\ cpc = "send" => cmsg = RunNow
    /\ lpc = "send" => lmsg = RunNow
    /\ cpc = "show" => cled = MeterLeds(curMode, cmsg.name)

\* What will light the RUN led.
RunComing ==
    \/ lpc # "idle"
    \/ \E m \in ControlModes : spc[m] = "notify"
    \/ \E i \in 1 .. Len(bus) : bus[i] \in {Update, RunNow}
    \/ cpc \in {"read", "send"}
    \/ cpc \in {"look", "show"} /\ cmsg = RunNow

RunOnItsWay == RunComing \/ \A l \in RunLeds : leds[l] = RunNow

RInv == TInv /\ RunUpToDate /\ RunOnItsWay
-----------------------------------------------------------------------------
(* The bus and the LEDs *)

\* A message sent is the last one, and there was room for it.
LEMMA SendEffect ==
    ASSUME TypeOK, NEW msg \in Messages, Send(msg)
    PROVE  /\ bus' \in Seq(Messages) /\ Len(bus') <= BusCap
           /\ Len(bus) \in Nat /\ Len(bus') = Len(bus) + 1
           /\ \A i \in 1 .. Len(bus) : bus'[i] = bus[i]
           /\ bus'[Len(bus) + 1] = msg
<1>1. bus \in Seq(Messages)
  BY DEF TypeOK
<1>2. Len(bus) \in Nat
  BY <1>1, LenProperties
<1> QED
  BY <1>1, <1>2, AppendProperties, DisplayAssumption DEF Send

\* The consumer receives the first message, and the others stay in order.
LEMMA ReceiveEffect ==
    ASSUME TypeOK, Receive
    PROVE  /\ cmsg' = bus[1] /\ cmsg' \in Messages
           /\ bus' \in Seq(Messages) /\ Len(bus') <= BusCap
           /\ Len(bus') \in Nat /\ Len(bus) \in Nat /\ Len(bus) = Len(bus') + 1
           /\ \A i \in 1 .. Len(bus') : bus'[i] = bus[i + 1]
<1>1. bus \in Seq(Messages) /\ bus # <<>> /\ Len(bus) <= BusCap
  BY DEF TypeOK, Receive
<1>2. Len(bus) \in Nat /\ Len(bus) >= 1
  BY <1>1, EmptySeq, LenProperties
<1>3. /\ bus' \in Seq(Messages) /\ Len(bus') = Len(bus) - 1 /\ Head(bus) \in Messages
      /\ \A i \in 1 .. Len(Tail(bus)) : Tail(bus)[i] = bus[i + 1]
  BY <1>1, HeadTailProperties DEF Receive
<1>4. Head(bus) = bus[1]
  BY <1>1
<1> QED
  BY <1>1, <1>2, <1>3, <1>4, DisplayAssumption DEF Receive

\* A meter has LEDs of the panel, and none in common with another of its mode.
LEMMA MeterLedsApart ==
    ASSUME NEW m \in Modes, NEW n, NEW k, n # k
    PROVE  MeterLeds(m, n) \subseteq Leds /\ MeterLeds(m, n) \cap MeterLeds(m, k) = {}
BY DisplayAssumption DEF MeterLeds

LEMMA MeterLedsType == ASSUME NEW m \in Modes, NEW n PROVE MeterLeds(m, n) \subseteq Leds
BY DisplayAssumption DEF MeterLeds

LEMMA LightType ==
    ASSUME TypeOK, NEW ls \in SUBSET Leds, NEW msg \in Messages, Light(ls, msg)
    PROVE  leds' \in [Leds -> Messages]
BY DEF Light, TypeOK

\* What the program sends are messages.
LEMMA MessageTypes ==
    ASSUME TypeOK
    PROVE  /\ Update \in Messages /\ Off \in Messages
           /\ RunNow \in Messages /\ KnobsNow \in Messages
           /\ \A v \in FeedValues : Metric(FeedMetric, v) \in Messages
           /\ \A v \in ClientValues : Metric(ClientMetric, v) \in Messages
BY DisplayAssumption
DEF Messages, MetricNames, Metric, RunNow, RunVal, KnobsNow, TypeOK

LEMMA TInvInit == ASSUME Init PROVE TInv
<1> USE DisplayAssumption
<1>1. Off \in Messages
  BY DEF Messages
<1>2. bus \in Seq(Messages) /\ Len(bus) <= BusCap
  BY DEF Init
<1>3. store \in [MetricNames -> Messages] /\ leds \in [Leds -> Messages]
  BY <1>1 DEF Init
<1>4. running \in [ControlModes -> BOOLEAN]
  BY DEF Init
<1> QED
  BY <1>1, <1>2, <1>3, <1>4 DEF Init, TInv, TypeOK, FlowRight, Restoring, NoMsg, NoMode

LEMMA LoopType ==
    ASSUME TInv, Loop
    PROVE  TInv'
<1> USE DEF TInv, FlowRight, Restoring, LoopAt, consVars
<1>1. CASE ClearLeds
  <2>1. leds' \in [Leds -> Messages]
    BY <1>1, MessageTypes DEF ClearLeds
  <2> QED
    BY <1>1, <2>1 DEF ClearLeds, TypeOK
<1>2. ASSUME NEW n \in MetricNames, Retrieve(n)
      PROVE  TInv'
  BY <1>2 DEF Retrieve, TypeOK
<1>3. CASE Restore
  <2>1. leds' \in [Leds -> Messages]
    BY <1>3, LightType, MeterLedsType DEF Restore, TypeOK
  <2>2. NoMsg \in Messages
    BY MessageTypes DEF NoMsg
  <2> QED
    BY <1>3, <2>1, <2>2 DEF Restore, TypeOK
<1>4. CASE SendKnobs
  <2>1. bus' \in Seq(Messages) /\ Len(bus') <= BusCap
    BY <1>4, SendEffect, MessageTypes DEF SendKnobs, KnobsNow
  <2> QED
    BY <1>4, <2>1 DEF SendKnobs, TypeOK
<1>5. CASE SwitchFeeds
  BY <1>5 DEF SwitchFeeds, TypeOK
<1>6. CASE ReadRunning
  <2>1. lmsg' \in Messages /\ lmsg'.name = RunMetric
    BY <1>6, MessageTypes DEF ReadRunning, RunNow, Metric
  <2> QED
    BY <1>6, <2>1 DEF ReadRunning, TypeOK
<1>7. CASE SendRunning
  <2>1. bus' \in Seq(Messages) /\ Len(bus') <= BusCap
    BY <1>7, SendEffect DEF SendRunning, TypeOK
  <2>2. NoMsg \in Messages
    BY MessageTypes DEF NoMsg
  <2> QED
    BY <1>7, <2>1, <2>2 DEF SendRunning, TypeOK
<1> QED
  BY <1>1, <1>2, <1>3, <1>4, <1>5, <1>6, <1>7 DEF Loop

LEMMA ConsumerType ==
    ASSUME TInv, Consumer
    PROVE  TInv'
<1> USE DEF TInv, FlowRight, Restoring, ConsAt, loopVars
<1>1. CASE Receive
  <2>1. cpc' \in {"look", "read"}
    BY <1>1 DEF Receive
  <2> QED
    BY <1>1, <2>1, ReceiveEffect DEF Receive, TypeOK
<1>2. CASE Look
  <2>1. cled' \subseteq Leds
    BY <1>2, MeterLedsType DEF Look, TypeOK
  <2> QED
    BY <1>2, <2>1 DEF Look, TypeOK
<1>3. CASE Show
  <2>1. leds' \in [Leds -> Messages]
    BY <1>3, LightType DEF Show, TypeOK
  <2> QED
    BY <1>3, <2>1 DEF Show, TypeOK
<1>4. CASE Store
  <2>1. NoMsg \in Messages
    BY MessageTypes DEF NoMsg
  <2>2. store' \in [MetricNames -> Messages]
    BY <1>4 DEF Store, TypeOK
  <2> QED
    BY <1>4, <2>1, <2>2 DEF Store, TypeOK
<1>5. CASE ConsReadRunning
  <2>1. cmsg' \in Messages /\ cmsg'.name = RunMetric
    BY <1>5, MessageTypes DEF ConsReadRunning, RunNow, Metric
  <2> QED
    BY <1>5, <2>1 DEF ConsReadRunning, TypeOK
<1>6. CASE ConsSendRunning
  <2>1. bus' \in Seq(Messages) /\ Len(bus') <= BusCap
    BY <1>6, SendEffect DEF ConsSendRunning, TypeOK
  <2>2. NoMsg \in Messages
    BY MessageTypes DEF NoMsg
  <2> QED
    BY <1>6, <2>1, <2>2 DEF ConsSendRunning, TypeOK
<1> QED
  BY <1>1, <1>2, <1>3, <1>4, <1>5, <1>6 DEF Consumer

LEMMA TInvStep ==
    ASSUME TInv, [Next]_vars
    PROVE  TInv'
<1> USE DEF TInv, FlowRight, Restoring, loopVars, consVars
<1>1. ASSUME NEW m \in Modes, SelectMode(m)
      PROVE  TInv'
  BY <1>1 DEF SelectMode, LoopAt, TypeOK
<1>2. CASE Tick
  BY <1>2 DEF Tick, TypeOK
<1>3. CASE FeedSend \/ ClientSend
  <2>1. bus' \in Seq(Messages) /\ Len(bus') <= BusCap
    BY <1>3, SendEffect, MessageTypes DEF FeedSend, ClientSend
  <2> QED
    BY <1>3, <2>1 DEF FeedSend, ClientSend, TypeOK
<1>4. ASSUME NEW m \in ControlModes, SetRunning(m)
      PROVE  TInv'
  BY <1>4 DEF SetRunning, TypeOK
<1>5. ASSUME NEW m \in ControlModes, Notify(m)
      PROVE  TInv'
  <2>1. bus' \in Seq(Messages) /\ Len(bus') <= BusCap
    BY <1>5, SendEffect, MessageTypes DEF Notify
  <2> QED
    BY <1>5, <2>1 DEF Notify, TypeOK
<1>6. CASE UNCHANGED vars
  BY <1>6 DEF vars, TypeOK
<1> QED
  BY <1>1, <1>2, <1>3, <1>4, <1>5, <1>6, LoopType, ConsumerType DEF Next

-----------------------------------------------------------------------------
(* The knob metrics on their way *)

\* Messages of other names, sent by whomever, do not hold them up.
LEMMA KnobsSendOther ==
    ASSUME TypeOK, KnobsOnTheirWay, NEW msg \in Messages, Send(msg), msg.name # KnobMetric,
           UNCHANGED <<curMode, leds>>,
           UNCHANGED consVars \/ (cpc \notin {"look", "show"} /\ cpc' \notin {"look", "show"})
    PROVE  KnobsOnTheirWay'
<1> USE DEF consVars
<1>1. UNCHANGED KnobsNow /\ UNCHANGED KnobLeds
  BY DEF KnobsNow, KnobLeds
<1>2. ASSUME NEW i \in 1 .. Len(bus) + 1, KnobsFrom(i)
      PROVE  \A j \in i .. Len(bus') : bus'[j].name = KnobMetric => bus'[j] = KnobsNow
  BY <1>2, SendEffect DEF KnobsFrom
<1>3. CASE \E i \in 1 .. Len(bus) : bus[i] = KnobsNow /\ KnobsFrom(i)
  <2>1. PICK i \in 1 .. Len(bus) : bus[i] = KnobsNow /\ KnobsFrom(i)
    BY <1>3
  <2>2. i \in 1 .. Len(bus') /\ i \in 1 .. Len(bus) + 1 /\ bus'[i] = KnobsNow
    BY <2>1, SendEffect
  <2> QED
    BY <1>1, <1>2, <2>1, <2>2 DEF KnobsOnTheirWay, KnobsFrom
<1>4. CASE KnobsFrom(1)
  <2>1. \A j \in 1 .. Len(bus') : bus'[j].name = KnobMetric => bus'[j] = KnobsNow
    BY <1>2, <1>4, SendEffect
  <2> QED
    BY <1>1, <1>3, <2>1 DEF KnobsOnTheirWay, KnobsFrom
<1> QED
  BY <1>3, <1>4 DEF KnobsOnTheirWay

\* Nor do steps that touch neither the bus, nor the LEDs, nor what will light them.
LEMMA KnobsStay ==
    ASSUME KnobsOnTheirWay, UNCHANGED <<curMode, bus, leds>>,
           UNCHANGED consVars \/ (cpc \notin {"look", "show"} /\ cpc' \notin {"look", "show"})
    PROVE  KnobsOnTheirWay'
BY DEF KnobsOnTheirWay, KnobsNow, KnobLeds, KnobsFrom, consVars

\* The last knob metric a switch sends is the one to show.
LEMMA KnobsSentLast ==
    ASSUME TypeOK, SendKnobs
    PROVE  KnobsOnTheirWay'
<1>1. Send(KnobsNow) /\ KnobsNow \in Messages /\ UNCHANGED KnobsNow
  BY MessageTypes DEF SendKnobs, KnobsNow
<1>2. Len(bus') \in 1 .. Len(bus') /\ bus'[Len(bus')] = KnobsNow
  BY <1>1, SendEffect
<1>3. \A j \in Len(bus') .. Len(bus') : bus'[j] = KnobsNow
  BY <1>2
<1> QED
  BY <1>1, <1>2, <1>3 DEF KnobsOnTheirWay, KnobsFrom

LEMMA KnobsReceived ==
    ASSUME TypeOK, KnobsOnTheirWay, Receive
    PROVE  KnobsOnTheirWay'
<1>1. UNCHANGED KnobsNow /\ UNCHANGED KnobLeds
  BY DEF KnobsNow, KnobLeds, Receive, loopVars
<1>2. cpc = "recv" /\ cpc' \in {"look", "read"} /\ UNCHANGED <<leds, cled>>
  BY DEF Receive
<1>3. ASSUME cmsg' = KnobsNow
      PROVE  cpc' = "look"
  BY <1>3 DEF Receive, KnobsNow, Metric, Update, KnobMetric
<1>4. ASSUME NEW i \in 1 .. Len(bus), KnobsFrom(i)
      PROVE  \A j \in 1 .. Len(bus') : j >= i - 1 /\ bus'[j].name = KnobMetric => bus'[j] = KnobsNow
  BY <1>4, ReceiveEffect DEF KnobsFrom
<1>5. CASE \E i \in 1 .. Len(bus) : bus[i] = KnobsNow /\ KnobsFrom(i)
  <2>1. PICK i \in 1 .. Len(bus) : bus[i] = KnobsNow /\ KnobsFrom(i)
    BY <1>5
  <2>2. CASE i = 1
    <3>1. cmsg' = KnobsNow
      BY <2>1, <2>2, ReceiveEffect
    <3> QED
      BY <1>1, <1>3, <1>4, <2>1, <2>2, <3>1, ReceiveEffect DEF KnobsOnTheirWay, KnobsFrom
  <2>3. CASE i # 1
    <3>1. i - 1 \in 1 .. Len(bus') /\ bus'[i - 1] = KnobsNow
      BY <2>1, <2>3, ReceiveEffect
    <3>2. \A j \in i - 1 .. Len(bus') : bus'[j].name = KnobMetric => bus'[j] = KnobsNow
      BY <1>4, <2>1, <3>1, ReceiveEffect
    <3> QED
      BY <1>1, <3>1, <3>2 DEF KnobsOnTheirWay, KnobsFrom
  <2> QED
    BY <2>2, <2>3
<1>6. CASE KnobsFrom(1) /\ \A l \in KnobLeds : leds[l] = KnobsNow
  <2>1. 1 \in 1 .. Len(bus)
    BY ReceiveEffect
  <2>2. cmsg'.name = KnobMetric => cmsg' = KnobsNow
    BY <1>6, <2>1, ReceiveEffect DEF KnobsFrom
  <2>3. \A j \in 1 .. Len(bus') : bus'[j].name = KnobMetric => bus'[j] = KnobsNow
    BY <1>4, <1>6, <2>1
  <2> QED
    BY <1>1, <1>2, <1>6, <2>2, <2>3 DEF KnobsOnTheirWay, KnobsFrom
<1> QED
  BY <1>2, <1>5, <1>6 DEF KnobsOnTheirWay

LEMMA KnobsLooked ==
    ASSUME TypeOK, KnobsOnTheirWay, Look
    PROVE  KnobsOnTheirWay'
<1>1. UNCHANGED KnobsNow /\ UNCHANGED KnobLeds /\ (\A i : KnobsFrom(i)' <=> KnobsFrom(i))
  BY DEF KnobsNow, KnobLeds, KnobsFrom, Look, loopVars
<1>2. cpc = "look" /\ cpc' = "show" /\ UNCHANGED <<bus, leds, cmsg>>
  BY DEF Look, ConsAt
<1>3. ASSUME cmsg = KnobsNow
      PROVE  cled' = KnobLeds
  BY <1>3 DEF Look, KnobsNow, KnobLeds, Metric
<1>4. ASSUME cmsg.name # KnobMetric
      PROVE  cled' \cap KnobLeds = {}
  BY <1>4, MeterLedsApart DEF Look, KnobLeds, TypeOK
<1> QED
  BY <1>1, <1>2, <1>3, <1>4 DEF KnobsOnTheirWay

LEMMA KnobsShown ==
    ASSUME TypeOK, KnobsOnTheirWay, Show
    PROVE  KnobsOnTheirWay'
<1>1. UNCHANGED KnobsNow /\ UNCHANGED KnobLeds /\ (\A i : KnobsFrom(i)' <=> KnobsFrom(i))
  BY DEF KnobsNow, KnobLeds, KnobsFrom, Show, loopVars
<1>2. cpc = "show" /\ cpc' = "store" /\ UNCHANGED <<bus, cmsg>>
  BY DEF Show, ConsAt
<1>3. \A l \in KnobLeds : leds'[l] = IF l \in cled THEN cmsg ELSE leds[l]
  BY MeterLedsType DEF Show, Light, KnobLeds, TypeOK
<1> QED
  BY <1>1, <1>2, <1>3 DEF KnobsOnTheirWay

LEMMA KInvStep ==
    ASSUME OwnMetricsKept, KInv, [Next]_vars
    PROVE  KInv'
<1> TInv /\ TypeOK /\ (KnobsSent => KnobsOnTheirWay)
  BY DEF KInv, TInv
<1>1. TInv'
  BY TInvStep
<1> SUFFICES ASSUME KnobsSent'
             PROVE  KnobsOnTheirWay'
  BY <1>1 DEF KInv
<1> USE DEF KnobsSent
<1>2. CASE ClearLeds \/ (\E n \in MetricNames : Retrieve(n)) \/ Restore \/ \E m \in Modes : SelectMode(m)
  BY <1>2 DEF ClearLeds, Retrieve, Restore, SelectMode, LoopAt
<1>3. CASE SendKnobs
  BY <1>3, KnobsSentLast
<1>4. CASE SwitchFeeds \/ ReadRunning
  <2>1. KnobsSent
    BY <1>4 DEF SwitchFeeds, ReadRunning, LoopAt
  <2> QED
    BY <1>4, <2>1, KnobsStay DEF SwitchFeeds, ReadRunning
<1>5. CASE SendRunning
  <2>1. KnobsSent /\ Send(lmsg) /\ UNCHANGED <<curMode, leds>> /\ UNCHANGED consVars
    BY <1>5 DEF SendRunning, LoopAt
  <2>2. lmsg \in Messages /\ lmsg.name # KnobMetric
    BY <1>5 DEF SendRunning, LoopAt, TInv, TypeOK, FlowRight, RunMetric, KnobMetric
  <2> QED
    BY <2>1, <2>2, KnobsSendOther
<1>6. CASE Consumer
  <2>1. KnobsSent
    BY <1>6 DEF Consumer, Receive, Look, Show, Store, ConsReadRunning, ConsSendRunning, loopVars
  <2>2. CASE Store \/ ConsReadRunning
    BY <2>1, <2>2, KnobsStay DEF Store, ConsReadRunning, ConsAt, loopVars
  <2>3. CASE ConsSendRunning
    <3>1. Send(cmsg) /\ UNCHANGED <<curMode, leds>> /\ cpc = "send" /\ cpc' = "recv"
      BY <2>3 DEF ConsSendRunning, ConsAt
    <3>2. cmsg \in Messages /\ cmsg.name # KnobMetric
      BY <3>1 DEF TInv, TypeOK, FlowRight, RunMetric, KnobMetric
    <3> QED
      BY <2>1, <3>1, <3>2, KnobsSendOther
  <2> QED
    BY <1>6, <2>1, <2>2, <2>3, KnobsReceived, KnobsLooked, KnobsShown DEF Consumer
<1>7. CASE FeedSend \/ ClientSend
  <2>1. KnobsSent /\ UNCHANGED <<curMode, leds>> /\ UNCHANGED consVars
    BY <1>7 DEF FeedSend, ClientSend, loopVars
  <2>2. PICK msg \in Messages : Send(msg) /\ msg.name # KnobMetric
    BY <1>7, MessageTypes DEF FeedSend, ClientSend, OwnMetricsKept, Metric, Update, KnobMetric
  <2> QED
    BY <2>1, <2>2, KnobsSendOther
<1>8. ASSUME NEW m \in ControlModes, Notify(m)
      PROVE  KnobsOnTheirWay'
  <2>1. KnobsSent /\ UNCHANGED <<curMode, leds>> /\ UNCHANGED consVars /\ Send(Update)
    BY <1>8 DEF Notify, loopVars
  <2>2. Update \in Messages /\ Update.name # KnobMetric
    BY MessageTypes DEF Update, KnobMetric
  <2> QED
    BY <2>1, <2>2, KnobsSendOther
<1>9. CASE Tick \/ (\E m \in ControlModes : SetRunning(m)) \/ UNCHANGED vars
  <2>1. KnobsSent /\ UNCHANGED <<curMode, bus, leds>> /\ UNCHANGED consVars
    BY <1>9 DEF Tick, SetRunning, vars, loopVars
  <2> QED
    BY <2>1, KnobsStay
<1> QED
  BY <1>2, <1>3, <1>4, <1>5, <1>6, <1>7, <1>8, <1>9 DEF Next, Loop

\* When the loop is idle, the bus empty and the consumer waiting, nothing is on its
\* way any more: what the knobs say is shown.
LEMMA KInvInv == KInv => KnobLedsRight
<1> SUFFICES ASSUME KInv, Quiet
             PROVE  \A l \in KnobLeds : leds[l] = KnobsNow
  BY DEF KnobLedsRight, KnobLeds, KnobsNow
<1>1. KnobsOnTheirWay /\ cpc = "recv" /\ Len(bus) = 0
  BY DEF KInv, KnobsSent, Quiet
<1> QED
  BY <1>1 DEF KnobsOnTheirWay

-----------------------------------------------------------------------------
(* The RUN led, when switches and running states wait for each other *)

LEMMA CalmIsNext == ASSUME [CalmNext]_vars PROVE [Next]_vars
BY DEF CalmNext, Next

\* A step that changes neither the mode nor its running state keeps their metric.
LEMMA RunNowKept ==
    ASSUME UNCHANGED <<curMode, running>>
    PROVE  UNCHANGED RunNow /\ UNCHANGED RunLeds
BY DEF RunNow, RunVal, RunLeds

\* A message sent is up to date, or not of the RUN led; with Update or the metric
\* itself, the RUN led is coming.
LEMMA RunSend ==
    ASSUME TypeOK, RunUpToDate, NEW msg \in Messages, Send(msg), UNCHANGED RunNow,
           msg.name = RunMetric => msg = RunNow
    PROVE  /\ \A i \in 1 .. Len(bus') : bus'[i].name = RunMetric => bus'[i] = RunNow'
           /\ (\E i \in 1 .. Len(bus) : bus[i] \in {Update, RunNow}) =>
                  \E i \in 1 .. Len(bus') : bus'[i] \in {Update, RunNow'}
           /\ msg \in {Update, RunNow} => \E i \in 1 .. Len(bus') : bus'[i] \in {Update, RunNow'}
<1>1. Len(bus) + 1 \in 1 .. Len(bus')
  BY SendEffect
<1> QED
  BY <1>1, SendEffect DEF RunUpToDate

LEMMA RunLoopStep ==
    ASSUME RInv, Loop
    PROVE  RunUpToDate' /\ RunOnItsWay'
<1> TypeOK /\ TInv /\ RunUpToDate
  BY DEF RInv, TInv
<1>1. UNCHANGED <<curMode, running>> /\ UNCHANGED <<consVars, spc>>
  BY DEF Loop, ClearLeds, Retrieve, Restore, SendKnobs, SwitchFeeds, ReadRunning, SendRunning
<1>2. UNCHANGED RunNow /\ UNCHANGED RunLeds
  BY <1>1, RunNowKept
<1>3. CASE SendRunning
  <2>1. Send(lmsg) /\ lmsg \in Messages /\ lmsg = RunNow /\ lpc' = "idle"
    BY <1>3 DEF SendRunning, LoopAt, TypeOK, RunUpToDate
  <2>2. RunUpToDate'
    BY <1>1, <1>2, <2>1, RunSend DEF RunUpToDate, consVars
  <2>3. RunComing'
    BY <1>2, <2>1, RunSend DEF RunComing
  <2> QED
    BY <2>2, <2>3 DEF RunOnItsWay
<1>4. CASE ~SendRunning
  <2>1. lpc' # "idle" /\ (lpc' = "send" => ReadRunning)
    BY <1>4 DEF Loop, ClearLeds, Retrieve, Restore, SendKnobs, SwitchFeeds, ReadRunning, LoopAt
  <2>2. lpc' = "send" => lmsg' = RunNow
    BY <2>1 DEF ReadRunning, RunNow
  <2>3. \A i \in 1 .. Len(bus') : bus'[i].name = RunMetric => bus'[i] = RunNow'
    <3>1. CASE SendKnobs
      <4>1. Send(KnobsNow) /\ KnobsNow \in Messages /\ KnobsNow.name # RunMetric
        BY <3>1, MessageTypes DEF SendKnobs, KnobsNow, Metric, KnobMetric, RunMetric
      <4> QED
        BY <1>2, <4>1, RunSend
    <3>2. CASE UNCHANGED bus
      BY <1>2, <3>2 DEF RunUpToDate
    <3> QED
      BY <1>4, <3>1, <3>2 DEF Loop, ClearLeds, Retrieve, Restore, SwitchFeeds, ReadRunning
  <2> QED
    BY <1>1, <1>2, <2>1, <2>2, <2>3 DEF RunUpToDate, RunOnItsWay, RunComing, consVars
<1> QED
  BY <1>3, <1>4

LEMMA RunConsumerStep ==
    ASSUME RInv, Consumer
    PROVE  RunUpToDate' /\ RunOnItsWay'
<1> TypeOK /\ TInv /\ RunUpToDate /\ RunOnItsWay
  BY DEF RInv, TInv
<1>1. UNCHANGED <<curMode, running, lpc, lmsg, spc>>
  BY DEF Consumer, Receive, Look, Show, Store, ConsReadRunning, ConsSendRunning, loopVars
<1>2. UNCHANGED RunNow /\ UNCHANGED RunLeds
  BY <1>1, RunNowKept
<1>3. CASE Receive
  <2>1. /\ 1 \in 1 .. Len(bus) /\ cmsg' = bus[1] /\ UNCHANGED leds
        /\ cpc = "recv" /\ cpc' = IF cmsg' = Update THEN "read" ELSE "look"
    BY <1>3, ReceiveEffect DEF Receive
  <2>2. \A i \in 1 .. Len(bus') : i + 1 \in 1 .. Len(bus) /\ bus'[i] = bus[i + 1]
    BY <1>3, ReceiveEffect
  <2>3. RunUpToDate'
    BY <1>1, <1>2, <2>1, <2>2 DEF RunUpToDate
  <2>4. ASSUME NEW i \in 1 .. Len(bus), bus[i] \in {Update, RunNow}
        PROVE  RunComing'
    <3>1. CASE i = 1
      BY <1>2, <2>1, <2>4, <3>1 DEF RunComing
    <3>2. CASE i # 1
      <4>1. i - 1 \in 1 .. Len(bus') /\ bus'[i - 1] = bus[i]
        BY <1>3, <3>2, ReceiveEffect
      <4> QED
        BY <1>2, <2>4, <4>1 DEF RunComing
    <3> QED
      BY <3>1, <3>2
  <2> QED
    BY <1>1, <1>2, <2>1, <2>3, <2>4 DEF RunOnItsWay, RunComing
<1>4. CASE Look
  <2>1. /\ cpc = "look" /\ cpc' = "show" /\ UNCHANGED <<bus, leds, cmsg>>
        /\ cled' = MeterLeds(curMode, cmsg.name)
    BY <1>4 DEF Look, ConsAt
  <2> QED
    BY <1>1, <1>2, <2>1 DEF RunUpToDate, RunOnItsWay, RunComing
\* The meters of other metrics leave the RUN led alone.
<1>5. CASE Show
  <2>1. /\ cpc = "show" /\ cpc' = "store" /\ UNCHANGED <<bus, cmsg>>
        /\ cled = MeterLeds(curMode, cmsg.name)
    BY <1>5 DEF Show, ConsAt, RunUpToDate
  <2>2. \A l \in RunLeds : leds'[l] = IF l \in cled THEN cmsg ELSE leds[l]
    BY <1>5, MeterLedsType DEF Show, Light, RunLeds, TypeOK
  <2>3. RunUpToDate'
    BY <1>1, <1>2, <2>1 DEF RunUpToDate
  <2>4. CASE cmsg.name = RunMetric
    <3>1. cmsg = RunNow /\ cled = RunLeds
      BY <2>1, <2>4 DEF RunUpToDate, RunLeds
    <3> QED
      BY <1>2, <2>2, <2>3, <3>1 DEF RunOnItsWay
  <2>5. CASE cmsg.name # RunMetric
    <3>1. cled \cap RunLeds = {}
      BY <2>1, <2>5, MeterLedsApart DEF RunLeds, TypeOK
    <3>2. \A l \in RunLeds : leds'[l] = leds[l]
      BY <2>2, <3>1
    <3>3. cmsg # RunNow
      BY <2>5 DEF RunNow, Metric
    <3> QED
      BY <1>1, <1>2, <2>1, <2>3, <3>2, <3>3 DEF RunOnItsWay, RunComing
  <2> QED
    BY <2>4, <2>5
<1>6. CASE Store
  <2>1. cpc = "store" /\ cpc' = "recv" /\ UNCHANGED <<bus, leds>>
    BY <1>6 DEF Store, ConsAt
  <2> QED
    BY <1>1, <1>2, <2>1 DEF RunUpToDate, RunOnItsWay, RunComing
<1>7. CASE ConsReadRunning
  <2>1. cpc' = "send" /\ cmsg' = RunNow /\ UNCHANGED bus
    BY <1>7 DEF ConsReadRunning, ConsAt, RunNow
  <2> QED
    BY <1>1, <1>2, <2>1 DEF RunUpToDate, RunOnItsWay, RunComing
<1>8. CASE ConsSendRunning
  <2>1. Send(cmsg) /\ cmsg \in Messages /\ cmsg = RunNow /\ cpc' = "recv"
    BY <1>8 DEF ConsSendRunning, ConsAt, TypeOK, RunUpToDate
  <2>2. RunUpToDate'
    BY <1>1, <1>2, <2>1, RunSend DEF RunUpToDate
  <2>3. RunComing'
    BY <1>2, <2>1, RunSend DEF RunComing
  <2> QED
    BY <2>2, <2>3 DEF RunOnItsWay
<1> QED
  BY <1>3, <1>4, <1>5, <1>6, <1>7, <1>8 DEF Consumer

LEMMA RInvStep ==
    ASSUME OwnMetricsKept, RInv, [CalmNext]_vars
    PROVE  RInv'
<1> TypeOK /\ TInv /\ RunUpToDate /\ RunOnItsWay
  BY DEF RInv, TInv
<1>1. TInv'
  BY CalmIsNext, TInvStep
<1>2. CASE Loop \/ Consumer
  BY <1>1, <1>2, RunLoopStep, RunConsumerStep DEF RInv
\* The switch will send the running state of the new mode, and none is on its way.
<1>3. ASSUME Settled, NEW m \in Modes, SelectMode(m)
      PROVE  RInv'
  <2>1. cpc' = "recv" /\ Len(bus') = 0 /\ lpc' = "clear"
    BY <1>3 DEF Settled, Quiet, SelectMode, LoopAt, consVars
  <2> QED
    BY <1>1, <2>1 DEF RInv, RunUpToDate, RunOnItsWay, RunComing
\* So will setRunning.
<1>4. ASSUME Settled, NEW m \in ControlModes, SetRunning(m)
      PROVE  RInv'
  <2>1. cpc' = "recv" /\ Len(bus') = 0 /\ lpc' = "idle" /\ spc'[m] = "notify"
    BY <1>4 DEF Settled, Quiet, SetRunning, consVars, loopVars, TypeOK
  <2> QED
    BY <1>1, <2>1 DEF RInv, RunUpToDate, RunOnItsWay, RunComing
<1>5. ASSUME NEW m \in ControlModes, Notify(m)
      PROVE  RInv'
  <2>1. /\ Send(Update) /\ Update \in Messages /\ Update.name # RunMetric
        /\ UNCHANGED <<curMode, running, leds, lpc, lmsg, cpc, cmsg, cled>>
    BY <1>5, MessageTypes DEF Notify, consVars, loopVars, Update, RunMetric
  <2>2. UNCHANGED RunNow
    BY <2>1, RunNowKept
  <2>3. RunUpToDate' /\ RunComing'
    BY <2>1, <2>2, RunSend DEF RunUpToDate, RunComing
  <2> QED
    BY <1>1, <2>3 DEF RInv, RunOnItsWay
<1>6. CASE FeedSend \/ ClientSend
  <2>1. UNCHANGED <<curMode, running, leds, lpc, lmsg, cpc, cmsg, cled, spc>>
    BY <1>6 DEF FeedSend, ClientSend, consVars, loopVars
  <2>2. PICK msg \in Messages : Send(msg) /\ msg.name # RunMetric
    BY <1>6, MessageTypes DEF FeedSend, ClientSend, OwnMetricsKept, Metric, Update, RunMetric
  <2>3. UNCHANGED RunNow /\ UNCHANGED RunLeds
    BY <2>1, RunNowKept
  <2>4. RunUpToDate' /\ (RunComing => RunComing')
    BY <2>1, <2>2, <2>3, RunSend DEF RunUpToDate, RunComing
  <2> QED
    BY <1>1, <2>1, <2>3, <2>4 DEF RInv, RunOnItsWay
<1>7. CASE Tick \/ UNCHANGED vars
  <2>1. UNCHANGED <<curMode, running, bus, leds, lpc, lmsg, cpc, cmsg, cled, spc>>
    BY <1>7 DEF Tick, vars, consVars, loopVars
  <2>2. UNCHANGED RunNow /\ UNCHANGED RunLeds
    BY <2>1, RunNowKept
  <2> QED
    BY <1>1, <2>1, <2>2 DEF RInv, RunUpToDate, RunOnItsWay, RunComing
<1> QED
  BY <1>2, <1>3, <1>4, <1>5, <1>6, <1>7 DEF CalmNext

\* The program starts in the middle of its first switch.
LEMMA InvInit == ASSUME Init PROVE KInv /\ RInv
<1>1. TInv
  BY TInvInit
<1>2. ~KnobsSent /\ RunComing
  BY DEF Init, KnobsSent, RunComing
<1>3. RunUpToDate
  BY DEF Init, RunUpToDate
<1> QED
  BY <1>1, <1>2, <1>3 DEF KInv, RInv, RunOnItsWay

LEMMA RInvInv == RInv => RunLedRight
<1> SUFFICES ASSUME RInv, Settled
             PROVE  \A l \in RunLeds : leds[l] = RunNow
  BY DEF RunLedRight, RunLeds, RunNow
<1>1. ~RunComing
  BY DEF RunComing, Settled, Quiet
<1> QED
  BY <1>1 DEF RInv, RunOnItsWay

-----------------------------------------------------------------------------
\* The bus never holds more messages than its capacity, and what is restored,
\* shown or stored is always a metric of the mode, or an LED that is off.
THEOREM TypeCorrect == Spec => []TypeOK
<1>1. Init => TInv
  BY TInvInit
<1>2. TInv /\ [Next]_vars => TInv'
  BY TInvStep
<1>3. TInv => TypeOK
  BY DEF TInv
<1> QED
  BY <1>1, <1>2, <1>3, PTL DEF Spec

\* After a switch, and after any number of them in a row, the knob LEDs come to
\* show the mode that is selected, as long as nobody else sends the metrics of
\* the knobs: the bus keeps the order in which selectMode sent them.
THEOREM KnobLedsAlwaysRight ==
    ASSUME OwnMetricsKept
    PROVE  Spec => []KnobLedsRight
<1>1. Init => KInv
  BY InvInit
<1>2. KInv /\ [Next]_vars => KInv'
  BY KInvStep
<1> QED
  BY <1>1, <1>2, KInvInv, PTL DEF Spec

\* The RUN led tells whether the control of the mode runs, as long as the next
\* switch, start or stop waits for the previous one to be over: the only one
\* that updateRUNLed reads the flags for.
THEOREM RunLedAlwaysRight ==
    ASSUME OwnMetricsKept
    PROVE  CalmSpec => []RunLedRight
<1>1. Init => RInv
  BY InvInit
<1>2. RInv /\ [CalmNext]_vars => RInv'
  BY RInvStep
<1> QED
  BY <1>1, <1>2, RInvInv, PTL DEF CalmSpec
=============================================================================
