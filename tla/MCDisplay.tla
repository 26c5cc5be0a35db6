----------------------------- MODULE MCDisplay -----------------------------
(***************************************************************************)
(* Two modes whose meters share an LED for different metrics: one shows    *)
(* the ticking feed, the other a client's metric and, in the runs with a   *)
(* control, the RUN led.                                                   *)
(***************************************************************************)
EXTENDS Display, TLC

MCModes == {"clock", "load"}
MCFeedModes == {"clock"}
MCControl == {"load"}
NoControl == {}

MCPosition == [m \in MCModes |-> IF m = "clock" THEN 1 ELSE 2]

MCLeds == {"A0", "RUN", "KNOB"}

MCMeters ==
    [clock |-> ("time" :> "A0" @@ "system.knobs" :> "KNOB"),
     load  |-> ("cpu" :> "A0" @@ "system.running" :> "RUN" @@ "system.knobs" :> "KNOB")]
=============================================================================
