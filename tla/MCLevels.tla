----------------------------- MODULE MCLevels -----------------------------
(* Where IEEE 754 numbers lose a percent, and a file for every volume level. *)
EXTENDS Levels

\* n with int(float64(float32(n / 100)) * 100) = n - 1.
MCLostReading ==
    {1, 2, 3, 4, 6, 8, 11, 12, 13, 16, 19, 21, 22, 24, 26, 29, 32, 35, 38, 39, 41,
     42, 44, 45, 47, 48, 51, 52, 53, 57, 58, 59, 63, 64, 65, 69, 70, 71, 76, 77, 78,
     82, 83, 84, 88, 89, 90, 94, 95, 96}

\* n with int(float64(n) / 100 * 100) = n - 1.
MCLostWriting == {29, 57, 58}

MCOldFiles ==
    {<<>>} \cup
    {[volume |-> Truncated(VolumePercent(l), LostWriting), brightness |-> 50, speech |-> 0] : l \in 0 .. 7}
=============================================================================
