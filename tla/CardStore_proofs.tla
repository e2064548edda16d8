-------------------------- MODULE CardStore_proofs --------------------------
(***************************************************************************)
(* Proofs about the state file, for every set of card states and any       *)
(* number of failing operations and crashes: the file is the store that    *)
(* AbstractStore describes, and an installation keeps its data.            *)
(***************************************************************************)
EXTENDS CardStore, TLAPS

\* A command under way knows what a load would have read before it: a save
\* that has not opened the file has not touched it, and one that has opened it
\* left it empty.
CommandPart ==
  /\ pc = "saving" => before.stored = ReadBack
  /\ pc = "writing" => file = Partial

\* The data found at installation is in the state file, or still in the legacy
\* file of a process that has not started.
InstallPart ==
  first # Absent =>
    /\ pc \in {"off", "loading", "ready"}
    /\ file = first \/ (pc = "off" /\ file = Absent /\ legacy = first)
    /\ pc = "ready" => mem = first

IInv == TypeOK /\ CommandPart /\ InstallPart

-----------------------------------------------------------------------------

\* What load finds is a card state.
LEMMA FoundTyped == TypeOK => ReadBack \in States /\ Found \in States
BY StatesAssumption DEF TypeOK, ReadBack, Found

\* A fault counts as one and forgets the data of the installation.
LEMMA FaultStep ==
  ASSUME TypeOK, Fault
  PROVE  faults' \in 0..MaxFaults /\ faults' = faults + 1 /\ first' = Absent
BY FaultsAssumption DEF TypeOK, Fault

LEMMA InitInv == Init => IInv
<1> SUFFICES ASSUME Init PROVE IInv
  OBVIOUS
<1>1. TypeOK
  BY StatesAssumption, FaultsAssumption DEF Init, TypeOK
<1>2. CommandPart /\ InstallPart
  BY StatesAssumption DEF Init, CommandPart, InstallPart
<1>3. QED
  BY <1>1, <1>2 DEF IInv

\* No step of the store leaves the types.
LEMMA NextTyped == TypeOK /\ [Next]_vars => TypeOK'
<1> SUFFICES ASSUME TypeOK, [Next]_vars PROVE TypeOK'
  OBVIOUS
<1> USE DEF TypeOK
<1>1. CASE Migrate
  BY <1>1, FaultStep DEF Migrate
<1>2. CASE Load
  BY <1>2, FoundTyped, FaultStep, StatesAssumption DEF Load
<1>3. CASE \E s \in States : Command(s)
  BY <1>3, FoundTyped DEF Command
<1>4. CASE OpenFile
  BY <1>4, FaultStep DEF OpenFile
<1>5. CASE WriteFile
  BY <1>5, FaultStep DEF WriteFile
<1>6. CASE Crash
  BY <1>6, FaultStep DEF Crash
<1>7. CASE UNCHANGED vars
  BY <1>7 DEF vars
<1>8. QED
  BY <1>1, <1>2, <1>3, <1>4, <1>5, <1>6, <1>7 DEF Next

\* Every step keeps what is known of the command under way and of the data of
\* the installation.
LEMMA NextInv == IInv /\ [Next]_vars => IInv'
<1> SUFFICES ASSUME IInv, [Next]_vars PROVE IInv'
  OBVIOUS
<1>1. TypeOK /\ TypeOK'
  BY NextTyped DEF IInv
<1> USE StatesAssumption DEF IInv, TypeOK, CommandPart, InstallPart
<1>2. CASE Migrate
  BY <1>1, <1>2, FaultStep DEF Migrate
<1>3. CASE Load
  BY <1>1, <1>3, FaultStep DEF Load, Found
<1>4. CASE \E s \in States : Command(s)
  BY <1>1, <1>4 DEF Command, ReadBack
<1>5. CASE OpenFile
  BY <1>1, <1>5, FaultStep DEF OpenFile
<1>6. CASE WriteFile
  BY <1>1, <1>6, FaultStep DEF WriteFile
<1>7. CASE Crash
  BY <1>1, <1>7, FaultStep DEF Crash
<1>8. CASE UNCHANGED vars
  BY <1>1, <1>8 DEF vars, ReadBack
<1>9. QED
  BY <1>2, <1>3, <1>4, <1>5, <1>6, <1>7, <1>8 DEF Next

\* The invariant of the state file (card/storage.rs).
THEOREM Invariance == Spec => []IInv
BY InitInv, NextInv, PTL DEF Spec

\* Until a command is run or an operation fails, every load, after a migration
\* of the legacy file or not, yields the data found at installation.
THEOREM InstallationKeepsData == Spec => []InstallKeepsData
<1>1. IInv => InstallKeepsData
  BY DEF IInv, InstallPart, InstallKeepsData
<1>2. QED
  BY <1>1, Invariance, PTL

-----------------------------------------------------------------------------
(* The refinement.  Each step is matched with the abstract step it is: most  *)
(* are none, and the ones that end a save or a load decide.                  *)

\* The abstract variables hold card states.
BarTypeOK == memBar \in States /\ storedBar \in States

LEMMA BarTyped == TypeOK => BarTypeOK
BY FoundTyped DEF TypeOK, BarTypeOK, memBar, storedBar, Saving

\* Which abstract step each step of the file is.
LEMMA StepSimulates == IInv /\ [Next]_vars => [Store!Next]_<<memBar, storedBar, faults>>
<1> SUFFICES ASSUME IInv, [Next]_vars
             PROVE  Store!Next \/ UNCHANGED <<memBar, storedBar, faults>>
  OBVIOUS
<1>1. TypeOK /\ TypeOK' /\ CommandPart
  BY NextTyped DEF IInv
<1>2. BarTypeOK'
  BY <1>1, BarTyped, PTL
<1> USE <1>1, StatesAssumption DEF memBar, storedBar, Saving, BarTypeOK
<1>3. CASE Migrate
  <2>1. CASE Fault /\ UNCHANGED <<file, legacy>>
    <3>1. Store!FailedLoad
      BY <1>3, <2>1, FaultStep DEF Migrate, Store!FailedLoad, ReadBack, Found, TypeOK
    <3>2. QED
      BY <3>1 DEF Store!Next
  <2>2. CASE UNCHANGED faults
    BY <1>3, <2>2 DEF Migrate, Fault, ReadBack, Found, TypeOK
  <2>3. QED
    BY <1>3, <2>1, <2>2 DEF Migrate
<1>4. CASE Load
  <2>1. CASE Fault
    <3>1. Store!FailedLoad
      BY <1>4, <2>1, FaultStep DEF Load, Store!FailedLoad, ReadBack
    <3>2. QED
      BY <3>1 DEF Store!Next
  <2>2. CASE mem' = Found /\ UNCHANGED faults
    BY <1>4, <2>2 DEF Load, ReadBack
  <2>3. QED
    BY <1>4, <2>1, <2>2 DEF Load
<1>5. CASE \E s \in States : Command(s)
  BY <1>5 DEF Command
<1>6. CASE OpenFile
  <2>1. CASE Fault
    <3>1. Store!FailedCommit
      BY <1>2, <1>6, <2>1, FaultStep DEF OpenFile, Store!FailedCommit, CommandPart, ReadBack
    <3>2. QED
      BY <3>1 DEF Store!Next
  <2>2. CASE UNCHANGED faults
    BY <1>6, <2>2 DEF OpenFile, Fault, TypeOK
  <2>3. QED
    BY <1>6, <2>1, <2>2 DEF OpenFile
<1>7. CASE WriteFile
  <2>1. CASE Fault /\ UNCHANGED file
    <3>1. Store!FailedCommit
      BY <1>2, <1>7, <2>1, FaultStep DEF WriteFile, Store!FailedCommit, CommandPart, ReadBack
    <3>2. QED
      BY <3>1 DEF Store!Next
  <2>2. CASE file' = mem /\ UNCHANGED faults
    <3>1. Store!Commit
      BY <1>7, <2>2 DEF WriteFile, Store!Commit, ReadBack, TypeOK
    <3>2. QED
      BY <3>1 DEF Store!Next
  <2>3. QED
    BY <1>7, <2>1, <2>2 DEF WriteFile
<1>8. CASE Crash
  <2>1. CASE pc = "writing"
    <3>1. Store!FailedCommit
      BY <1>2, <1>8, <2>1, FaultStep DEF Crash, Store!FailedCommit, CommandPart, ReadBack
    <3>2. QED
      BY <3>1 DEF Store!Next
  <2>2. CASE pc # "writing"
    <3>1. Store!Reload
      BY <1>8, <2>2 DEF Crash, Store!Reload, CommandPart, ReadBack, TypeOK
    <3>2. QED
      BY <3>1 DEF Store!Next
  <2>3. QED
    BY <2>1, <2>2
<1>9. CASE UNCHANGED vars
  BY <1>9 DEF vars, ReadBack, Found
<1>10. QED
  BY <1>3, <1>4, <1>5, <1>6, <1>7, <1>8, <1>9 DEF Next

\* The state file, with its migration, its rewrite in place, its failing
\* operations and its crashes, implements the store that the applet relies on.
THEOREM Implementation == Spec => ImplementsStore
<1>1. Init => Store!Init
  <2>1. Init => TypeOK /\ faults = 0
    BY InitInv DEF IInv, Init
  <2>2. QED
    BY <2>1, BarTyped DEF Store!Init, BarTypeOK
<1>2. QED
  BY <1>1, Invariance, StepSimulates, PTL DEF Spec, ImplementsStore, Store!Spec
=============================================================================
