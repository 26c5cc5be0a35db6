----------------------------- MODULE Positions -----------------------------
(***************************************************************************)
(* The positions of modes on the two knobs, as they go from makeModes,     *)
(* which gives them, to the event loop, which looks modes up by them.      *)
(***************************************************************************)
EXTENDS Integers

\* Eight sections on the address knob, four modes of each on the data knob.
LastKnoba == 7
LastKnobd == 3

\* Modes have positions on the knobs or, in a hidden section, none.
OnKnobs(modes, knoba, knobd) ==
    \A m \in modes : /\ knoba[m] \in -1 .. LastKnoba
                     /\ knobd[m] \in -1 .. LastKnobd
                     /\ knoba[m] = -1 <=> knobd[m] = -1

\* No two modes have the same position.
OnePerPosition(modes, knoba, knobd) ==
    \A m, n \in modes :
        knoba[m] # -1 /\ knoba[m] = knoba[n] /\ knobd[m] = knobd[n] => m = n

\* The modes of a section have a first one.
FirstInSection(modes, knoba, knobd) ==
    \A m \in modes : knoba[m] # -1 =>
        \E n \in modes : knoba[n] = knoba[m] /\ knobd[n] = 0

Positioned(modes, knoba, knobd) ==
    /\ OnKnobs(modes, knoba, knobd)
    /\ OnePerPosition(modes, knoba, knobd)
    /\ FirstInSection(modes, knoba, knobd)
=============================================================================
