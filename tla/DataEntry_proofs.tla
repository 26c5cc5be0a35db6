-------------------------- MODULE DataEntry_proofs --------------------------
(***************************************************************************)
(* Theorems about data entry, for any number of modes, dumps and deposits, *)
(* any word size and any values of the switches.                           *)
(***************************************************************************)
EXTENDS DataEntry, TLAPS

-----------------------------------------------------------------------------
(* Tables *)

\* What is read from a table is a word.
LEMMA ReadWord ==
    ASSUME NEW t \in Tables, NEW m \in Modes, NEW a
    PROVE  Read(t, m, a) \in Words
  <1>1. PICK A \in SUBSET Addresses : t[m] \in [A -> Words]
    BY DEF Tables, Spaces
  <1>2. CASE a \in DOMAIN t[m]
    BY <1>1, <1>2 DEF Read
  <1>3. CASE a \notin DOMAIN t[m]
    BY <1>3, EntryAssumption DEF Read, Words
  <1> QED BY <1>2, <1>3

\* A word written to an address of a mode gives a table.
LEMMA WriteTable ==
    ASSUME NEW t \in Tables, NEW m \in Modes, NEW a \in Addresses, NEW d \in Words
    PROVE  Write(t, m, a, d) \in Tables
  <1> DEFINE space == [b \in DOMAIN t[m] \cup {a} |-> IF b = a THEN d ELSE t[m][b]]
  <1>1. PICK A \in SUBSET Addresses : t[m] \in [A -> Words]
    BY DEF Tables, Spaces
  <1>2. space \in [A \cup {a} -> Words]
    BY <1>1
  <1>3. A \cup {a} \in SUBSET Addresses
    OBVIOUS
  <1>4. space \in Spaces
    BY <1>2, <1>3 DEF Spaces
  <1> QED
    BY <1>4 DEF Write, Tables

\* It is read back there, and nothing else reads differently.
LEMMA ReadAfterWrite ==
    ASSUME NEW t \in Tables, NEW m \in Modes, NEW a, NEW d
    PROVE  /\ Read(Write(t, m, a, d), m, a) = d
           /\ \A n \in Modes : \A b : n # m \/ b # a =>
                Read(Write(t, m, a, d), n, b) = Read(t, n, b)
  <1> DEFINE w == Write(t, m, a, d)
  <1>1. /\ w[m] = [b \in DOMAIN t[m] \cup {a} |-> IF b = a THEN d ELSE t[m][b]]
        /\ \A n \in Modes : n # m => w[n] = t[n]
    BY DEF Write, Tables
  <1> HIDE DEF w
  <1>2. Read(w, m, a) = d
    BY <1>1 DEF Read
  <1>3. ASSUME NEW n \in Modes, NEW b, n # m \/ b # a
        PROVE  Read(w, n, b) = Read(t, n, b)
    <2>1. CASE n # m
      BY <1>1, <2>1 DEF Read
    <2>2. CASE n = m
      BY <1>1, <1>3, <2>2 DEF Read
    <2> QED BY <2>1, <2>2
  <1> QED
    BY <1>2, <1>3 DEF w

LEMMA BlankTable == Blank \in Tables
  <1>1. [a \in {} |-> 0] \in [{} -> Words]
    OBVIOUS
  <1>2. [a \in {} |-> 0] \in Spaces
    BY <1>1 DEF Spaces
  <1> QED BY <1>2 DEF Blank, Tables

\* The masked value of the switches is a word.
LEMMA WordOfSwitches == \A sw \in Switches : Word(sw) \in Words
  BY EntryAssumption DEF Word, Words

-----------------------------------------------------------------------------
(* Type correctness *)

LEMMA Zeros == 0 \in Addresses /\ 0 \in Words /\ 0 \in 0 .. MaxDeposits
  BY EntryAssumption DEF Addresses, Words

LEMMA TypeInit == Init => TypeOK
  <1> SUFFICES ASSUME Init PROVE TypeOK
    OBVIOUS
  <1>1. file \in [state : {"absent", "empty", "mixed", "whole"}, table : Tables]
    BY BlankTable DEF Init, Absent
  <1>2. /\ table \in Tables
        /\ save \in [Savers -> {"none", "marshal", "open", "write"}]
        /\ buf \in [Savers -> Tables]
    BY BlankTable DEF Init
  <1> QED
    BY <1>1, <1>2, Zeros DEF Init, TypeOK

LEMMA TypeDown == TypeOK /\ Down => TypeOK'
  <1> SUFFICES ASSUME TypeOK, Down PROVE TypeOK'
    OBVIOUS
  <1>1. /\ table' \in Tables
        /\ save' \in [Savers -> {"none", "marshal", "open", "write"}]
        /\ buf' \in [Savers -> Tables]
    BY BlankTable DEF Down
  <1> QED
    BY <1>1, Zeros DEF Down, TypeOK

LEMMA TypeDep ==
    ASSUME TypeOK, NEW sw \in Switches, Dep(sw)
    PROVE  TypeOK'
  <1>1. editing \in Modes /\ addr' \in Addresses
    BY EntryAssumption DEF TypeOK, Dep, InSession, Step, Addresses
  <1>2. table' \in Tables
    BY <1>1, WordOfSwitches, WriteTable DEF TypeOK, Dep
  <1>3. data' \in Words
    BY <1>1, <1>2, ReadWord DEF Dep
  <1>4. deposits' \in 0 .. MaxDeposits
    BY EntryAssumption DEF TypeOK, Dep
  <1>5. /\ save' \in [Savers -> {"none", "marshal", "open", "write"}]
        /\ UNCHANGED <<file, buf>>
        /\ overlap' \in BOOLEAN
    BY DEF TypeOK, Dep, Dump
  <1> QED
    BY <1>1, <1>2, <1>3, <1>4, <1>5 DEF TypeOK, Dep, Did

LEMMA TypeStep == TypeOK /\ [Next]_vars => TypeOK'
  <1> SUFFICES ASSUME TypeOK, [Next]_vars PROVE TypeOK'
    OBVIOUS
  <1> USE DEF TypeOK, memVars, saveVars
  <1>1. CASE \E m \in Modes : Open(m)
    BY <1>1, ReadWord, EntryAssumption DEF Open, Addresses
  <1>2. CASE Load
    BY <1>2, EntryAssumption DEF Load, Did, Addresses
  <1>3. CASE Exam
    <2>1. editing \in Modes /\ addr' \in Addresses
      BY <1>3, EntryAssumption DEF Exam, InSession, Step, Addresses
    <2>2. data' \in Words
      BY <1>3, <2>1, ReadWord DEF Exam
    <2> QED BY <1>3, <2>1, <2>2 DEF Exam, Did
  <1>4. CASE Other \/ Enable
    BY <1>4 DEF Other, Enable, Did
  <1>5. CASE \E sw \in Switches : Dep(sw)
    BY <1>5, TypeDep
  <1>6. ASSUME NEW s \in Savers, Marshal(s) \/ Truncate(s)
        PROVE  TypeOK'
    BY <1>6, BlankTable DEF Marshal, Truncate, Saving, entryVars, Empty
  <1>7. ASSUME NEW s \in Savers, WriteFile(s)
        PROVE  TypeOK'
    BY <1>7, BlankTable DEF WriteFile, Saving, entryVars, Whole, Mixed
  <1>8. CASE Crash \/ DepPanics
    BY <1>8, TypeDown DEF Crash, DepPanics
  <1>9. CASE Restart
    BY <1>9 DEF Restart, entryVars
  <1>10. CASE UNCHANGED vars
    BY <1>10 DEF vars, entryVars
  <1> QED
    BY <1>1, <1>2, <1>3, <1>4, <1>5, <1>6, <1>7, <1>8, <1>9, <1>10 DEF Next

\* The type invariant: addresses, words and tables stay what they are, whatever
\* is on the switches, in the file, or in flight (mode.go:430-477).
THEOREM TypeCorrect == Spec => []TypeOK
  BY TypeInit, TypeStep, PTL DEF Spec

-----------------------------------------------------------------------------
(* The words displayed and deposited *)

\* A program that has just been restarted is not in data entry.
DataInv ==
    /\ DataMatchesAddress
    /\ ~up => editing = NoMode

LEMMA DataStep == TypeOK /\ DataInv /\ [Next]_vars => DataInv'
  <1> SUFFICES ASSUME TypeOK, DataInv, [Next]_vars PROVE DataInv'
    OBVIOUS
  <1> USE DEF DataInv, DataMatchesAddress, InSession, memVars
  <1>1. CASE \E m \in Modes : Open(m)
    BY <1>1 DEF Open
  <1>2. CASE Load \/ Other
    BY <1>2 DEF Load, Other, Did
  <1>3. CASE Exam
    BY <1>3 DEF Exam
  <1>4. CASE Enable
    BY <1>4 DEF Enable
  <1>5. CASE \E sw \in Switches : Dep(sw)
    <2>1. PICK sw \in Switches : Dep(sw)
      BY <1>5
    <2>2. data' = Read(table', editing, addr') /\ editing' = editing /\ up' = up
      BY <2>1 DEF Dep
    <2> QED BY <2>1, <2>2 DEF Dep
  <1>6. CASE \E s \in Savers : Marshal(s) \/ Truncate(s) \/ WriteFile(s)
    BY <1>6 DEF Marshal, Truncate, WriteFile, entryVars
  <1>7. CASE Crash \/ DepPanics
    BY <1>7 DEF Crash, DepPanics, Down
  <1>8. CASE Restart
    BY <1>8 DEF Restart, entryVars
  <1>9. CASE UNCHANGED vars
    BY <1>9 DEF vars, entryVars
  <1> QED
    BY <1>1, <1>2, <1>3, <1>4, <1>5, <1>6, <1>7, <1>8, <1>9 DEF Next

LEMMA DataInit == Init => DataInv
  BY DEF Init, DataInv, DataMatchesAddress, InSession

\* Unless an address was just loaded, the data displayed is the content of the
\* address displayed (mode.go:432-466).
THEOREM DataAlwaysMatchesAddress == Spec => []DataMatchesAddress
  <1>1. Init => TypeOK /\ DataInv
    BY TypeInit, DataInit
  <1>2. TypeOK /\ DataInv /\ [Next]_vars => (TypeOK /\ DataInv)'
    BY TypeStep, DataStep
  <1>3. DataInv => DataMatchesAddress
    BY DEF DataInv
  <1> QED
    BY <1>1, <1>2, <1>3, PTL DEF Spec

\* What DepositsOnly says of a step.
OnlyDeposit ==
    up /\ up' => \A m \in Modes, a \in Addresses :
        Read(table', m, a) # Read(table, m, a)
            => m = editing /\ a = addr' /\ Read(table', m, a) = data'

LEMMA DepositStep ==
    ASSUME TypeOK, NEW sw \in Switches, Dep(sw)
    PROVE  OnlyDeposit
  <1>1. /\ editing \in Modes
        /\ table \in Tables
        /\ table' = Write(table, editing, addr', Word(sw))
        /\ data' = Read(table', editing, addr')
    BY DEF TypeOK, Dep, InSession
  <1>2. \A n \in Modes : \A b : n # editing \/ b # addr' => Read(table', n, b) = Read(table, n, b)
    BY <1>1, ReadAfterWrite
  <1> QED
    BY <1>1, <1>2 DEF OnlyDeposit

\* No other step that starts and ends with the program running changes the
\* table: a crash and a restart are steps apart.
LEMMA OtherStep ==
    ASSUME [Next]_vars, ~(\E sw \in Switches : Dep(sw))
    PROVE  OnlyDeposit
  <1>1. CASE Crash \/ DepPanics
    BY <1>1 DEF Crash, DepPanics, Down, OnlyDeposit
  <1>2. CASE Restart
    BY <1>2 DEF Restart, OnlyDeposit
  <1>3. ASSUME ~(Crash \/ DepPanics \/ Restart)
        PROVE  table' = table
    BY <1>3 DEF Next, vars, memVars, Open, Load, Exam, Other, Enable,
                Marshal, Truncate, WriteFile
  <1> QED
    BY <1>1, <1>2, <1>3 DEF OnlyDeposit

\* Memory changes only where a word is deposited: in the mode edited, at the
\* address displayed (mode.go:458-466).
THEOREM DepositsNowhereElse == Spec => DepositsOnly
  <1>1. TypeOK /\ [Next]_vars => [OnlyDeposit]_vars
    BY DepositStep, OtherStep
  <1> QED
    BY <1>1, TypeCorrect, PTL DEF Spec, DepositsOnly, OnlyDeposit

-----------------------------------------------------------------------------
(* The file *)

\* While dumps have not overlapped there is at most one; what it has marshalled
\* is the memory; and nobody wrote since it truncated the file.  A program that
\* is down has no dump.
SaveInv ==
    /\ ~up => NoSave
    /\ up /\ ~overlap /\ ~nilTable =>
        /\ \A s, t \in Savers : save[s] # "none" /\ save[t] # "none" => s = t
        /\ \A s \in Savers : save[s] \in {"open", "write"} => buf[s] = table
        /\ \A s \in Savers : save[s] = "write" => file = Empty
        /\ NoSave => file.table = table /\ file # Mixed

LEMMA FileStates ==
    /\ Absent.table = Blank /\ Empty.table = Blank
    /\ Absent # Mixed /\ Empty # Mixed
    /\ \A t : Whole(t).table = t /\ Whole(t) # Mixed
  BY DEF Absent, Empty, Mixed, Whole

LEMMA SaveInit == Init => SaveInv
  BY FileStates DEF Init, SaveInv, NoSave

LEMMA SaveDep ==
    ASSUME TypeOK, SaveInv, NEW sw \in Switches, Dep(sw)
    PROVE  SaveInv'
  <1>1. PICK s \in Savers : Dump(s)
    BY DEF Dep
  <1>2. /\ up /\ up' /\ save' = [save EXCEPT ![s] = "marshal"]
        /\ overlap' = ~NoSave
    BY <1>1 DEF Dep, Dump, InSession
  <1>3. save' \in [Savers -> {"none", "marshal", "open", "write"}] /\ save'[s] = "marshal"
    BY <1>2 DEF TypeOK
  <1>4. ASSUME ~overlap'
        PROVE  \A t \in Savers : t # s => save'[t] = "none"
    BY <1>2, <1>4 DEF NoSave, TypeOK
  <1> QED
    BY <1>2, <1>3, <1>4 DEF SaveInv, NoSave

LEMMA SaveSaving ==
    ASSUME TypeOK, SaveInv, NEW s \in Savers, Marshal(s) \/ Truncate(s) \/ WriteFile(s)
    PROVE  SaveInv'
  <1> USE DEF Saving, TypeOK, memVars
  <1>1. CASE Marshal(s)
    BY <1>1 DEF Marshal, SaveInv, NoSave
  <1>2. CASE Truncate(s)
    BY <1>2 DEF Truncate, SaveInv, NoSave
  <1>3. CASE WriteFile(s)
    <2>1. /\ up /\ up' /\ UNCHANGED <<table, nilTable, overlap>>
          /\ save[s] = "write" /\ save' = [save EXCEPT ![s] = "none"]
      BY <1>3 DEF WriteFile
    <2> SUFFICES ASSUME ~overlap, ~nilTable
                 PROVE  /\ \A t \in Savers : save'[t] = "none"
                        /\ file'.table = table /\ file' # Mixed
      BY <2>1 DEF SaveInv, NoSave
    <2>2. file' = Whole(table)
      BY <1>3, <2>1 DEF WriteFile, SaveInv
    <2> QED
      BY <2>1, <2>2, FileStates DEF SaveInv
  <1> QED
    BY <1>1, <1>2, <1>3

LEMMA SaveStep == TypeOK /\ SaveInv /\ [Next]_vars => SaveInv'
  <1> SUFFICES ASSUME TypeOK, SaveInv, [Next]_vars PROVE SaveInv'
    OBVIOUS
  <1>1. CASE (\E m \in Modes : Open(m)) \/ Load \/ Exam \/ Other \/ Enable \/ UNCHANGED vars
    <2>1. UNCHANGED <<up, table, nilTable, file, save, buf, overlap>>
      BY <1>1 DEF Open, Load, Exam, Other, Enable, vars, memVars, saveVars
    <2> QED
      BY <2>1 DEF SaveInv, NoSave
  <1>2. CASE \E sw \in Switches : Dep(sw)
    BY <1>2, SaveDep
  <1>3. CASE \E s \in Savers : Marshal(s) \/ Truncate(s) \/ WriteFile(s)
    BY <1>3, SaveSaving
  <1>4. CASE Crash \/ DepPanics
    BY <1>4 DEF Crash, DepPanics, Down, SaveInv, NoSave
  <1>5. CASE Restart
    <2>1. /\ NoSave' /\ file' = file /\ file # Mixed /\ table' = file.table /\ up'
          /\ save' = save
      BY <1>5 DEF Restart, SaveInv, NoSave, saveVars
    <2> QED
      BY <2>1 DEF SaveInv, NoSave
  <1> QED
    BY <1>1, <1>2, <1>3, <1>4, <1>5 DEF Next

\* Deposits made one dump at a time are on file once the dump is over
\* (memory.go:40-47).
THEOREM SerialDepositsAlwaysSaved == Spec => []SerialDepositsSaved
  <1>1. Init => TypeOK /\ SaveInv
    BY TypeInit, SaveInit
  <1>2. TypeOK /\ SaveInv /\ [Next]_vars => (TypeOK /\ SaveInv)'
    BY TypeStep, SaveStep
  <1>3. SaveInv => SerialDepositsSaved
    BY DEF SaveInv, SerialDepositsSaved
  <1> QED
    BY <1>1, <1>2, <1>3, PTL DEF Spec
=============================================================================
