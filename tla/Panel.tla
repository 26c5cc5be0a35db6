------------------------------- MODULE Panel -------------------------------
(***************************************************************************)
(* What the front panel promises to the person turning its knobs, without *)
(* any of the bookkeeping of the event loop.                               *)
(*                                                                         *)
(* One configured mode is always selected (the base).  A system mode       *)
(* (lamp test, levels, data entry) may be laid over it: it hides the base, *)
(* never replaces it, and closing it shows the same base again.  The base  *)
(* changes only while nothing covers it, and only to a mode one click of a *)
(* knob away.  Data entry edits the memory of the mode it covers.          *)
(***************************************************************************)
EXTENDS Integers

CONSTANTS
    Modes,          \* the modes of the configuration file
    KnobaOf,        \* position of the address knob that selects a mode
    KnobdOf         \* position of the data knob that selects a mode

NoOverlay == "none"
NoEdit    == "nobody"

Overlays == {"system.test", "system.levels", "entry"}

VARIABLES
    base,           \* the configured mode that is selected
    overlay,        \* the system mode laid over it, or NoOverlay
    edited,         \* the mode whose memory data entry edits, or NoEdit
    on              \* FALSE once the program has ended

panelVars == <<base, overlay, edited, on>>

\* One click of one knob: either the next mode of the same section, or some
\* mode of the next section (the one that section was left at).
OneClick(m, n) ==
    \/ KnobaOf[n] = KnobaOf[m] /\ KnobdOf[n] \in {KnobdOf[m] - 1, KnobdOf[m] + 1}
    \/ KnobaOf[n] \in {KnobaOf[m] - 1, KnobaOf[m] + 1}

Init ==
    /\ base \in {m \in Modes : KnobaOf[m] = 0 /\ KnobdOf[m] = 0}
    /\ overlay = NoOverlay
    /\ edited = NoEdit
    /\ on = TRUE

Turn ==
    /\ on
    /\ overlay = NoOverlay
    /\ base' \in {n \in Modes : OneClick(base, n)}
    /\ UNCHANGED <<overlay, edited, on>>

Open(o) ==
    /\ on
    /\ overlay = NoOverlay
    /\ overlay' = o
    /\ edited' = IF o = "entry" THEN base ELSE NoEdit
    /\ UNCHANGED <<base, on>>

Close ==
    /\ on
    /\ overlay # NoOverlay
    /\ overlay' = NoOverlay
    /\ edited' = NoEdit
    /\ UNCHANGED <<base, on>>

\* The program ends, or the machine is powered off, from the lamp test only.
End ==
    /\ on
    /\ overlay = "system.test"
    /\ on' = FALSE
    /\ UNCHANGED <<base, overlay, edited>>

Next == Turn \/ (\E o \in Overlays : Open(o)) \/ Close \/ End

Spec == Init /\ [][Next]_panelVars
=============================================================================
