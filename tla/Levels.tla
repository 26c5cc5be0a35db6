------------------------------ MODULE Levels ------------------------------
(***************************************************************************)
(* The levels mode (mode.go newLevelsMode) and the settings it leaves in   *)
(* memory (memory.go Volume, SaveVolume, ...; console.go Start).           *)
(*                                                                         *)
(* Volume and brightness are floats in the code and percents here; where   *)
(* the code truncates a float that falls below its percent, a percent is   *)
(* lost.  Every change of a setting leaves a goroutine to write it in the  *)
(* table, and that one a goroutine to dump the table: see DataEntry for    *)
(* what overlapping dumps do to the file, which is one step here.          *)
(***************************************************************************)
EXTENDS Integers, Sequences, SequencesExt

CONSTANTS
    LostReading,    \* percents that GetVolume gives back a little smaller
    LostWriting,    \* percents p with int(p / 100.0 * 100) < p
    OldFiles,       \* files left by earlier runs
    MaxSaves,       \* bound: settings saved
    MaxRestarts     \* bound: restarts

Percents == 0 .. 100
Settings == {"volume", "brightness", "speech"}

\* The memory of system.levels: absent when nothing was saved.
IsTable(t) == DOMAIN t \subseteq Settings /\ t \in [DOMAIN t -> Percents]

ASSUME LevelsAssumption ==
    /\ LostReading \subseteq Percents \ {0} /\ LostWriting \subseteq Percents \ {0}
    /\ \A t \in OldFiles : IsTable(t)
    /\ MaxSaves \in Nat /\ MaxRestarts \in Nat

VARIABLES
    up,             \* the program runs
    current,        \* per setting, its value in the console and the mixer
    open,           \* the levels mode is selected
    shown,          \* per setting, what its meter and its knob LEDs show
    table, file,    \* modeMemories["system.levels"], in memory and on file
    writes,         \* SaveVolume and the like whose Write is to come
    dumps,          \* tables marshalled by save and not written
    marshals,       \* saves that have not marshalled
    kept,           \* ghost: the level of each setting whose last save overlapped
                    \* with no other
    saving,         \* ghost: the settings saved since nothing was left to save
    saves, restarts \* for the bounds

memory == <<table, file>>
goroutines == <<writes, dumps, marshals>>
ghosts == <<kept, saving>>
bounds == <<saves, restarts>>
levelsVars == <<up, current, open, shown, memory, goroutines, ghosts, bounds>>

-----------------------------------------------------------------------------
(* Conversions *)

Truncated(p, lost) == IF p \in lost THEN p - 1 ELSE p

\* math.Round(n / of * steps), halves up.
Scale(n, of, steps) == (2 * n * steps + of) \div (2 * of)

\* Mutation: scaleFloor is called for scaleRound.
VolumeLevelFloor(p) == (Truncated(p, LostReading) * 7) \div 100

VolumeLevel(p) == Scale(Truncated(p, LostReading), 100, 7)
VolumePercent(l) == Scale(l, 7, 100)

BrightnessLevel(p) == Scale(p - 25, 75, 3)
BrightnessPercent(l) == 25 + Scale(l, 3, 75)

\* The least brightness of the mode, which another one may be below.
Clamp(p) == IF p < 25 THEN 25 ELSE p

Read(t, s) == IF s \in DOMAIN t THEN t[s] ELSE 0

\* Every setting is found once one of them has been saved.
Found(t) == DOMAIN t # {}

Default == [volume |-> 50, brightness |-> 50, speech |-> 1]

\* console.Start
Started(t) ==
    IF Found(t) THEN [volume |-> Truncated(Read(t, "volume"), LostWriting),
                      brightness |-> Read(t, "brightness"),
                      speech |-> IF Read(t, "speech") = 1 THEN 1 ELSE 0]
    ELSE Default

\* What emit sends.
Emitted(c) == [volume |-> VolumeLevel(c.volume), brightness |-> BrightnessLevel(c.brightness),
               speech |-> c.speech]

Nothing == [volume |-> -1, brightness |-> -1, speech |-> -1]

-----------------------------------------------------------------------------
LevelsInit ==
    /\ up = TRUE
    /\ file \in OldFiles
    /\ table = file
    /\ current = Started(table)
    /\ open = FALSE /\ shown = Nothing
    /\ writes = <<>> /\ dumps = <<>> /\ marshals = 0
    /\ kept = [s \in DOMAIN file |-> Emitted(current)[s]] /\ saving = {}
    /\ saves = 0 /\ restarts = 0

Saved == writes = <<>> /\ dumps = <<>> /\ marshals = 0

Put(t, s, v) == [r \in DOMAIN t \cup {s} |-> IF r = s THEN v ELSE t[r]]

Without(k, settings) == [s \in DOMAIN k \ settings |-> k[s]]

\* go memory.SaveVolume(...), and the two like it.
Save(s, v, level) ==
    /\ saves < MaxSaves
    /\ saves' = saves + 1
    /\ writes' = Append(writes, [setting |-> s, value |-> v])
    /\ saving' = IF Saved THEN {s} ELSE saving \cup {s}
    /\ kept' = IF Saved THEN Put(kept, s, level) ELSE Without(kept, saving')
    /\ UNCHANGED <<memory, dumps, marshals, restarts>>

-----------------------------------------------------------------------------
(* The handler: an event clamps the brightness first *)

InMode == up /\ open

\* Select the mode: the init message, or another event that changes nothing.
Open ==
    /\ up
    /\ open' = TRUE
    /\ current' = [current EXCEPT !.brightness = Clamp(@)]
    /\ shown' = Emitted(current')
    /\ UNCHANGED <<up, memory, goroutines, ghosts, bounds>>

Exit ==
    /\ InMode
    /\ open' = FALSE
    /\ current' = [current EXCEPT !.brightness = Clamp(@)]
    /\ UNCHANGED <<up, shown, memory, goroutines, ghosts, bounds>>

\* A knob at its end plays the other sound.
Refused(level, step, max) == level + step \notin 0 .. max

VolumeEnd(step) ==
    /\ InMode /\ Refused(VolumeLevel(current.volume), step, 7)
    /\ current' = [current EXCEPT !.brightness = Clamp(@)]
    /\ UNCHANGED <<up, open, shown, memory, goroutines, ghosts, bounds>>

Volume(step) ==
    /\ InMode /\ ~Refused(VolumeLevel(current.volume), step, 7)
    /\ LET p == VolumePercent(VolumeLevel(current.volume) + step)
       IN  /\ current' = [current EXCEPT !.volume = Truncated(p, LostWriting),
                                         !.brightness = Clamp(@)]
           /\ Save("volume", Truncated(p, LostWriting), VolumeLevel(current.volume) + step)
    /\ shown' = [Emitted(current') EXCEPT !.volume = VolumeLevel(current.volume) + step]
    /\ UNCHANGED <<up, open>>

BrightnessEnd(step) ==
    /\ InMode /\ Refused(BrightnessLevel(Clamp(current.brightness)), step, 3)
    /\ current' = [current EXCEPT !.brightness = Clamp(@)]
    /\ UNCHANGED <<up, open, shown, memory, goroutines, ghosts, bounds>>

Brightness(step) ==
    /\ InMode /\ ~Refused(BrightnessLevel(Clamp(current.brightness)), step, 3)
    /\ LET l == BrightnessLevel(Clamp(current.brightness)) + step
       IN  /\ current' = [current EXCEPT !.brightness = BrightnessPercent(l)]
           /\ Save("brightness", BrightnessPercent(l), l)
           /\ shown' = [Emitted(current') EXCEPT !.brightness = l]
    /\ UNCHANGED <<up, open>>

\* The address knob is pressed, or released: the handler does not look.
Speech ==
    /\ InMode
    /\ current' = [current EXCEPT !.speech = 1 - @, !.brightness = Clamp(@)]
    /\ Save("speech", 1 - current.speech, 1 - current.speech)
    /\ shown' = Emitted(current')
    /\ UNCHANGED <<up, open>>

\* The test mode enables the speech to say that it powers off, and may fail to.
PowerOffFails ==
    /\ up /\ ~open
    /\ current' = [current EXCEPT !.speech = 1]
    /\ UNCHANGED <<up, open, shown, memory, goroutines, ghosts, bounds>>

-----------------------------------------------------------------------------
(* The goroutines, the file, and the program *)

Write(i) ==
    /\ up
    /\ table' = Put(table, writes[i].setting, writes[i].value)
    /\ writes' = RemoveAt(writes, i)
    /\ marshals' = marshals + 1
    /\ UNCHANGED <<up, current, open, shown, file, dumps, ghosts, bounds>>

Marshal ==
    /\ up /\ marshals > 0
    /\ marshals' = marshals - 1
    /\ dumps' = Append(dumps, table)
    /\ UNCHANGED <<up, current, open, shown, memory, writes, ghosts, bounds>>

\* Mutation: the dump of a table keeps the settings of the file.
WriteFileMerged(i) ==
    /\ up
    /\ file' = [s \in DOMAIN dumps[i] \cup DOMAIN file |->
                   IF s \in DOMAIN file THEN file[s] ELSE dumps[i][s]]
    /\ dumps' = RemoveAt(dumps, i)
    /\ UNCHANGED <<up, current, open, shown, table, writes, marshals, ghosts, bounds>>

WriteFile(i) ==
    /\ up
    /\ file' = dumps[i]
    /\ dumps' = RemoveAt(dumps, i)
    /\ UNCHANGED <<up, current, open, shown, table, writes, marshals, ghosts, bounds>>

\* The program ends, and with it what its goroutines had yet to do.
Down ==
    /\ up
    /\ up' = FALSE
    /\ open' = FALSE
    /\ writes' = <<>> /\ dumps' = <<>> /\ marshals' = 0
    /\ kept' = IF Saved THEN kept ELSE Without(kept, saving)
    /\ saving' = {}
    /\ UNCHANGED <<current, shown, memory, bounds>>

Restart ==
    /\ ~up /\ restarts < MaxRestarts
    /\ restarts' = restarts + 1
    /\ up' = TRUE
    /\ table' = file
    /\ current' = Started(file)
    /\ shown' = Nothing
    /\ UNCHANGED <<open, file, goroutines, ghosts, saves>>

-----------------------------------------------------------------------------
Knobs ==
    \/ \E step \in {-1, 1} : Volume(step) \/ VolumeEnd(step) \/ Brightness(step) \/ BrightnessEnd(step)
    \/ Open \/ Exit \/ Speech \/ PowerOffFails

Goroutines ==
    \/ \E i \in DOMAIN writes : Write(i)
    \/ Marshal
    \/ \E i \in DOMAIN dumps : WriteFile(i)

LevelsNext == Knobs \/ Goroutines \/ Down \/ Restart

LevelsSpec == LevelsInit /\ [][LevelsNext]_levelsVars

-----------------------------------------------------------------------------
LevelsTypeOK ==
    /\ up \in BOOLEAN /\ open \in BOOLEAN
    /\ current \in [volume : Percents, brightness : Percents, speech : {0, 1}]
    /\ shown \in [volume : -1 .. 7, brightness : -1 .. 3, speech : {-1, 0, 1}]
    /\ open => up /\ current.brightness >= 25
    /\ IsTable(table) /\ IsTable(file) /\ DOMAIN kept \subseteq Settings
    /\ writes \in Seq([setting : Settings, value : Percents])
    /\ \A i \in DOMAIN dumps : IsTable(dumps[i])
    /\ marshals \in Nat
    /\ saving \subseteq Settings
    /\ saves \in 0 .. MaxSaves /\ restarts \in 0 .. MaxRestarts

\* What the LEDs of the levels mode show is what the next click counts from,
\* though the volume has gone to a percent, to the audio server, to a float and
\* back, and lost a percent at each turn (scaleRound, SetVolume, GetVolume).
ShownIsCounted == InMode => shown = Emitted(current)

\* A setting whose last save overlapped with no other is on file when nothing is
\* left to save, and a restart finds it at the level it had, whatever was done to
\* the other settings meanwhile (SaveVolume, Volume, console.Start).
RestartKeepsLevels ==
    Saved => \A s \in DOMAIN kept : s \in DOMAIN file /\ Emitted(Started(file))[s] = kept[s]

\* "Value and boolean indicating whether defined" (memory.Read): a setting that
\* was never saved has its default after a restart.
DefaultsKept == [][Restart => \A s \in Settings \ DOMAIN file : current'[s] = Default[s]]_levelsVars
=============================================================================
