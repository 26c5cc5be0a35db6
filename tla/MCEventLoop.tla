---------------------------- MODULE MCEventLoop ----------------------------
(***************************************************************************)
(* A panel with three sections (two, two and one modes) and a hidden mode. *)
(* Two modes have a control; the feeds of neighbouring modes are equal,    *)
(* overlapping and disjoint, so that a switch keeps, starts and stops some.*)
(***************************************************************************)
EXTENDS EventLoop

MCModes == {"clock", "stopwatch", "demo", "load", "home", "_idle"}

MCControlModes == {"stopwatch", "home"}

MCKnobaOf == [m \in MCModes |->
    CASE m \in {"clock", "stopwatch"} -> 0
      [] m \in {"demo", "load"} -> 1
      [] m = "home" -> 2
      [] OTHER -> -1]

MCKnobdOf == [m \in MCModes |->
    CASE m \in {"clock", "demo", "home"} -> 0
      [] m \in {"stopwatch", "load"} -> 1
      [] OTHER -> -1]

MCFeeds == {"time", "animation"}

ListedBy == [time |-> {"clock", "stopwatch", "demo"}, animation |-> {"demo", "home"}]

MCFeedsOf == [m \in MCModes |-> [f \in MCFeeds |-> IF m \in ListedBy[f] THEN 1 ELSE 0]]

MCNetworkModes == {"load"}
=============================================================================
