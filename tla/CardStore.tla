------------------------------ MODULE CardStore ------------------------------
(***************************************************************************)
(* The state file of slot 0 (card/storage.rs), step by step: migration of  *)
(* the legacy file, load, and the save that truncates and rewrites the     *)
(* file in place.  The process may crash between any two steps, and every  *)
(* file operation may fail.                                                *)
(***************************************************************************)
EXTENDS Naturals

CONSTANTS
  States,    \* card states
  Factory,   \* CardState::default with the default PINs
  Absent,    \* no such file
  Partial,   \* a file that does not parse
  MaxFaults  \* how many operations may fail: a bound of the model

ASSUME StatesAssumption ==
  Factory \in States /\ Absent \notin States /\ Partial \notin States /\ Absent # Partial

ASSUME FaultsAssumption == MaxFaults \in Nat

VARIABLES
  pc,       \* where the process is: off, loading, ready, saving, writing
  file,     \* slot-0/card_state.json
  legacy,   \* card_state.json of an installation without slots
  mem,      \* CardDataStore.state
  faults,   \* operations that failed, and crashes in the middle of a write
  \* History of the run, read by no action.
  before,   \* mem and what a load would read, before the command being saved
  first     \* the data found at installation, until the first command or fault

vars == <<pc, file, legacy, mem, faults, before, first>>

\* What load would find: the legacy file counts while there is no other.
ReadBack ==
  IF file \in States THEN file
  ELSE IF file = Absent /\ legacy \in States THEN legacy
  ELSE Factory

\* What load will put in memory after the migration.
Found == IF file \in States THEN file ELSE Factory

Fault == faults < MaxFaults /\ faults' = faults + 1 /\ first' = Absent

-----------------------------------------------------------------------------

\* Mutant: the legacy file replaces a state file that is there.
MigrateOver ==
  /\ pc = "off"
  /\ pc' = "loading"
  /\ \/ legacy # Absent /\ file' = legacy /\ legacy' = Absent
     \/ legacy = Absent /\ UNCHANGED <<file, legacy>>
  /\ UNCHANGED <<mem, before, first, faults>>

\* migrate_legacy_state: create_dir_all and rename, whose failure only warns.
Migrate ==
  /\ pc = "off"
  /\ pc' = "loading"
  /\ \/ /\ legacy # Absent /\ file = Absent
        /\ file' = legacy /\ legacy' = Absent
        /\ UNCHANGED <<faults, first>>
     \/ legacy # Absent /\ file = Absent /\ Fault /\ UNCHANGED <<file, legacy>>
     \/ (legacy = Absent \/ file # Absent) /\ UNCHANGED <<file, legacy, faults, first>>
  /\ UNCHANGED <<mem, before>>

\* The rest of load: no file, a file that parses or not, a read that fails.
Load ==
  /\ pc = "loading"
  /\ pc' = "ready"
  /\ \/ /\ mem' = Found
        /\ UNCHANGED <<faults, first>>
     \/ file # Absent /\ Fault /\ mem' = Factory
  /\ UNCHANGED <<file, legacy, before>>

\* A command changes the state in memory and calls save.
Command(s) ==
  /\ pc = "ready"
  /\ pc' = "saving"
  /\ before' = [mem |-> mem, stored |-> ReadBack]
  /\ mem' = s
  /\ first' = Absent
  /\ UNCHANGED <<file, legacy, faults>>

\* save: the directory is there and fs::write has opened and truncated the
\* file, or one of the two failed.
OpenFile ==
  /\ pc = "saving"
  /\ \/ pc' = "writing" /\ file' = Partial /\ UNCHANGED <<faults, first>>
     \/ pc' = "ready" /\ Fault /\ UNCHANGED file
  /\ UNCHANGED <<legacy, mem, before>>

\* Mutant: a write that fails is not noticed.
WriteFileBlind ==
  /\ pc = "writing"
  /\ pc' = "ready"
  /\ \/ file' = mem
     \/ file' = Partial
  /\ UNCHANGED <<legacy, mem, before, faults, first>>

\* fs::write has written all, or failed part of the way.  The callers ignore
\* which.
WriteFile ==
  /\ pc = "writing"
  /\ pc' = "ready"
  /\ \/ file' = mem /\ UNCHANGED <<faults, first>>
     \/ Fault /\ UNCHANGED file
  /\ UNCHANGED <<legacy, mem, before>>

\* The process ends: a fault of the store only while it is writing.
Crash ==
  /\ pc # "off"
  /\ pc' = "off"
  /\ IF pc = "writing" THEN Fault ELSE UNCHANGED <<faults, first>>
  /\ UNCHANGED <<file, legacy, mem, before>>

Init ==
  /\ pc = "off"
  /\ file \in States \cup {Absent}
  /\ legacy \in States \cup {Absent}
  /\ mem = Factory
  /\ faults = 0
  /\ before = [mem |-> Factory, stored |-> Factory]
  /\ first = IF file = Absent THEN legacy ELSE file

Next ==
  \/ Migrate
  \/ Load
  \/ \E s \in States : Command(s)
  \/ OpenFile
  \/ WriteFile
  \/ Crash

Spec == Init /\ [][Next]_vars

-----------------------------------------------------------------------------
(* Properties. *)

Saving == pc \in {"saving", "writing"}

\* The type of the state.
TypeOK ==
  /\ pc \in {"off", "loading", "ready", "saving", "writing"}
  /\ file \in States \cup {Absent, Partial}
  /\ legacy \in States \cup {Absent}
  /\ mem \in States
  /\ faults \in 0..MaxFaults
  /\ before \in [mem: States, stored: States]
  /\ first \in States \cup {Absent}

\* A process that is not up counts as having loaded what it will load, and a
\* command takes effect when its save is over.
memBar ==
  IF pc = "off" THEN ReadBack
  ELSE IF pc = "loading" THEN Found
  ELSE IF pc = "ready" THEN mem
  ELSE before.mem

storedBar == IF Saving THEN before.stored ELSE ReadBack

Store == INSTANCE AbstractStore WITH mem <- memBar, stored <- storedBar

\* The file with its migration, its in-place rewrite and its crashes is the
\* store that the applet relies on.
ImplementsStore == Store!Spec

\* An installation keeps its data: until a command is run or something fails,
\* every load, of the state file or of a migrated one, yields what was there.
InstallKeepsData == (pc = "ready" /\ first # Absent) => mem = first
=============================================================================
