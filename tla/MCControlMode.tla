--------------------------- MODULE MCControlMode ---------------------------
(* Each kind of switch has been pressed at most once and not been sent yet. *)
EXTENDS ControlMode, TLC

MCSenders == "start-pressed" :> 1 @@ "event" :> 1
OnlyStart == "start-pressed" :> 1 @@ "event" :> 0
OnlyEvent == "start-pressed" :> 0 @@ "event" :> 1
=============================================================================
