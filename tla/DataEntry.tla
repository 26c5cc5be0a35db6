----------------------------- MODULE DataEntry -----------------------------
(***************************************************************************)
(* Data entry and the memory it edits (mode.go newEntryMode; memory/):     *)
(* LOAD, EXAM and DEP on the memory space of one mode, the table of all    *)
(* memory spaces, its file, and the goroutine that every deposit leaves    *)
(* behind to dump the table to the file.                                   *)
(*                                                                         *)
(* The table is guarded by a lock, the file by nothing: a dump marshals    *)
(* the table under the lock, then truncates the file, then writes it.  The *)
(* program may crash or be killed between any two steps, and be started    *)
(* again.  Which mode is edited is EventLoop's concern: any may be.        *)
(***************************************************************************)
EXTENDS Integers, FiniteSets

CONSTANTS
    Modes,          \* the configured modes, each with a memory space
    Switches,       \* values of the register switches, 0 .. 2^22 - 1 in the code
    WordSize,       \* number of values of a word, 2^16 in the code
    MaxAddr,        \* bound: the address is not stepped beyond
    MaxDeposits,    \* bound: deposits altogether
    Savers          \* bound: the dumps under way at any time

ASSUME EntryAssumption ==
    /\ Switches \subseteq Nat
    /\ WordSize \in Nat \ {0}
    /\ MaxAddr \in Nat
    /\ \A sw \in Switches : sw <= MaxAddr
    /\ MaxDeposits \in Nat
    /\ 0 \in Switches

NoMode == "nil"
ASSUME NoModeAssumption == NoMode \notin Modes

Addresses == 0 .. MaxAddr
Words == 0 .. WordSize - 1

\* A memory space is a function on the addresses deposited to.
Spaces == UNION {[A -> Words] : A \in SUBSET Addresses}
Tables == [Modes -> Spaces]
Blank  == [m \in Modes |-> [a \in {} |-> 0]]

\* The file is absent, truncated and not written yet, whole, or a mix of two
\* tables.
Whole(t) == [state |-> "whole", table |-> t]
Absent == [state |-> "absent", table |-> Blank]
Empty  == [state |-> "empty", table |-> Blank]
Mixed  == [state |-> "mixed", table |-> Blank]

VARIABLES
    up,             \* the program is running
    table,          \* modeMemories
    nilTable,       \* modeMemories is a nil map: it reads as blank
    file,           \* the file at memory_path
    save,           \* per dump, where its goroutine is
    buf,            \* per dump, the marshalled table
    editing,        \* the mode whose memory is edited, NoMode outside of data entry
    addr, data,     \* entryAddr and entryData, as displayed
    justExamined, justDeposited,
    last,           \* what this session did last: for the properties
    deposits,       \* deposits so far: for the bound
    overlap         \* a deposit was made while a dump was under way, and the
                    \* dumps have not all ended before another: for the properties

memVars   == <<up, table, nilTable>>
saveVars  == <<file, save, buf>>
entryVars == <<editing, addr, data, justExamined, justDeposited, last>>
vars == <<memVars, saveVars, entryVars, deposits, overlap>>

Read(t, m, a) == IF a \in DOMAIN t[m] THEN t[m][a] ELSE 0

Write(t, m, a, d) ==
    [t EXCEPT ![m] = [b \in DOMAIN t[m] \cup {a} |-> IF b = a THEN d ELSE t[m][b]]]

\* Mutation: the switches above the word are not masked.
WordUnmasked(sw) == sw

\* console.ReadRegSwitches() &^ (0xFF << 16)
Word(sw) == sw % WordSize

NoSave == \A s \in Savers : save[s] = "none"

Init ==
    /\ up = TRUE
    /\ table = Blank /\ nilTable = FALSE
    /\ file = Absent
    /\ save = [s \in Savers |-> "none"]
    /\ buf = [s \in Savers |-> Blank]
    /\ editing = NoMode
    /\ addr = 0 /\ data = 0
    /\ justExamined = FALSE /\ justDeposited = FALSE
    /\ last = "none"
    /\ deposits = 0
    /\ overlap = FALSE

-----------------------------------------------------------------------------
(* The handler of the entry mode *)

\* The init message: justExamined and justDeposited are those of the previous
\* session.
Open(m) ==
    /\ up
    /\ editing = NoMode
    /\ editing' = m
    /\ addr' = 0
    /\ data' = Read(table, m, 0)
    /\ last' = "none"
    /\ UNCHANGED <<memVars, saveVars, justExamined, justDeposited, deposits, overlap>>

InSession == up /\ editing # NoMode

Did(op) ==
    /\ justExamined' = (op = "EXAM")
    /\ justDeposited' = (op = "DEP")
    /\ last' = op

Load ==
    /\ InSession
    /\ addr' \in Switches
    /\ Did("LOAD")
    /\ UNCHANGED <<memVars, saveVars, editing, data, deposits, overlap>>

Step(again) == addr' = IF again THEN addr + 1 ELSE addr

\* Mutation: the content is read before the address is stepped.
ExamStale ==
    /\ InSession
    /\ addr < MaxAddr
    /\ Step(justExamined)
    /\ data' = Read(table, editing, addr)
    /\ Did("EXAM")
    /\ UNCHANGED <<memVars, saveVars, editing, deposits, overlap>>

Exam ==
    /\ InSession
    /\ addr < MaxAddr
    /\ Step(justExamined)
    /\ data' = Read(table, editing, addr')
    /\ Did("EXAM")
    /\ UNCHANGED <<memVars, saveVars, editing, deposits, overlap>>

\* Mutation: the table is marshalled before the deposit changes it.
DumpFirst(s) ==
    /\ save[s] = "none"
    /\ save' = [save EXCEPT ![s] = "open"]
    /\ buf' = [buf EXCEPT ![s] = table]
    /\ overlap' = ~NoSave
    /\ UNCHANGED file

\* The deposit is dumped by a goroutine of its own.
Dump(s) ==
    /\ save[s] = "none"
    /\ save' = [save EXCEPT ![s] = "marshal"]
    /\ overlap' = ~NoSave
    /\ UNCHANGED <<file, buf>>

\* Mutation: the word is written before the address is stepped.
DepThenStep(sw) ==
    /\ InSession /\ ~nilTable
    /\ addr < MaxAddr /\ deposits < MaxDeposits
    /\ table' = Write(table, editing, addr, Word(sw))
    /\ Step(justDeposited)
    /\ data' = Read(table', editing, addr')
    /\ Did("DEP")
    /\ deposits' = deposits + 1
    /\ \E s \in Savers : Dump(s)
    /\ UNCHANGED <<up, nilTable, editing>>

Dep(sw) ==
    /\ InSession /\ ~nilTable
    /\ addr < MaxAddr /\ deposits < MaxDeposits
    /\ Step(justDeposited)
    /\ table' = Write(table, editing, addr', Word(sw))
    /\ data' = Read(table', editing, addr')
    /\ Did("DEP")
    /\ deposits' = deposits + 1
    /\ \E s \in Savers : Dump(s)
    /\ UNCHANGED <<up, nilTable, editing>>

\* A register switch, or a knob that is pushed to hear a number.
Other ==
    /\ InSession
    /\ Did("other")
    /\ UNCHANGED <<memVars, saveVars, editing, addr, data, deposits, overlap>>

\* ENABLE leaves the handler before the flags are set.
Enable ==
    /\ InSession
    /\ editing' = NoMode
    /\ UNCHANGED <<memVars, saveVars, addr, data, justExamined, justDeposited, last,
                   deposits, overlap>>

-----------------------------------------------------------------------------
(* save() *)

Saving(s, p, q) == up /\ save[s] = p /\ save' = [save EXCEPT ![s] = q]

Marshal(s) ==
    /\ Saving(s, "marshal", "open")
    /\ buf' = [buf EXCEPT ![s] = table]
    /\ UNCHANGED <<memVars, file, entryVars, deposits, overlap>>

Truncate(s) ==
    /\ Saving(s, "open", "write")
    /\ file' = Empty
    /\ UNCHANGED <<memVars, buf, entryVars, deposits, overlap>>

\* When another dump has written since this one truncated the file, the end of a
\* longer text of that one remains behind the text of this one.
WriteFile(s) ==
    /\ Saving(s, "write", "none")
    /\ \/ file' = Whole(buf[s])
       \/ file # Empty /\ file # Whole(buf[s]) /\ file' = Mixed
    /\ buf' = [buf EXCEPT ![s] = Blank]
    /\ UNCHANGED <<memVars, entryVars, deposits, overlap>>

-----------------------------------------------------------------------------
(* Crash and restart *)

Down ==
    /\ up' = FALSE
    /\ table' = Blank /\ nilTable' = FALSE
    /\ save' = [s \in Savers |-> "none"]
    /\ buf' = [s \in Savers |-> Blank]
    /\ editing' = NoMode
    /\ addr' = 0 /\ data' = 0
    /\ justExamined' = FALSE /\ justDeposited' = FALSE
    /\ last' = "none"
    /\ overlap' = FALSE
    /\ UNCHANGED <<file, deposits>>

Crash == up /\ Down

\* Writing to a nil map panics.
DepPanics ==
    /\ InSession /\ nilTable
    /\ deposits < MaxDeposits
    /\ Down

\* memory.Init.  An empty file parses as a nil map.  A mix is taken not to parse:
\* the program ends.
Restart ==
    /\ ~up
    /\ file # Mixed
    /\ up' = TRUE
    /\ table' = file.table
    /\ nilTable' = (file = Empty)
    /\ UNCHANGED <<saveVars, entryVars, deposits, overlap>>

-----------------------------------------------------------------------------

Next ==
    \/ \E m \in Modes : Open(m)
    \/ Load \/ Exam \/ Other \/ Enable
    \/ \E sw \in Switches : Dep(sw)
    \/ \E s \in Savers : Marshal(s) \/ Truncate(s) \/ WriteFile(s)
    \/ Crash \/ DepPanics \/ Restart

Spec == Init /\ [][Next]_vars

-----------------------------------------------------------------------------
(* Properties *)

TypeOK ==
    /\ up \in BOOLEAN /\ nilTable \in BOOLEAN
    /\ table \in Tables
    /\ file \in [state : {"absent", "empty", "mixed", "whole"}, table : Tables]
    /\ save \in [Savers -> {"none", "marshal", "open", "write"}]
    /\ buf \in [Savers -> Tables]
    /\ editing \in Modes \cup {NoMode}
    /\ addr \in Addresses /\ data \in Words
    /\ justExamined \in BOOLEAN /\ justDeposited \in BOOLEAN
    /\ last \in {"none", "LOAD", "EXAM", "DEP", "other"}
    /\ deposits \in 0 .. MaxDeposits
    /\ overlap \in BOOLEAN

\* Unless the address has just been loaded, the data LEDs show the content of
\* the address on the address LEDs, in the memory of the mode edited: through
\* stepped examines and deposits, through sessions on different modes, and with
\* flags left by an earlier session (mode.go:432-466).
DataMatchesAddress ==
    InSession /\ last \notin {"LOAD", "other"} => data = Read(table, editing, addr)

\* While the program runs, a word of memory changes only in the mode edited, at
\* the address displayed after the step, to the word displayed: never in another
\* mode and never at the address deposited to before (mode.go:458-466).
DepositsOnly ==
    [][ up /\ up' => \A m \in Modes, a \in Addresses :
            Read(table', m, a) # Read(table, m, a)
                => m = editing /\ a = addr' /\ Read(table', m, a) = data' ]_vars

\* Deposits made one dump at a time are on file once the dump is over, after
\* whatever overlapping dumps and crashes came before (memory.go:40-47).
SerialDepositsSaved ==
    up /\ NoSave /\ ~overlap /\ ~nilTable => file.table = table /\ file # Mixed

\* Every deposit triggers a dump of the whole memory, so when no dump is under
\* way the file has the memory (memory.go:61, "Triggers a dump of the whole
\* memory to a file.").
DepositsSaved ==
    up /\ NoSave /\ ~nilTable => file.table = table /\ file # Mixed

\* The address is stepped only by repeating, in one session, what was done to
\* the address displayed (mode.go:419-425, "Performing more than one EXAM
\* operation in a row").
StepsRepeat ==
    [][ last' \in {"EXAM", "DEP"} /\ addr' # addr => last = last' ]_vars
=============================================================================
