------------------------------ MODULE MCMixer ------------------------------
(* Every sound has two blocks, the second of them short. *)
EXTENDS Mixer

MCLength == [s \in Sounds |-> 4]
=============================================================================
