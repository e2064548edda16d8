---------------------------- MODULE AbstractStore ----------------------------
(***************************************************************************)
(* What the card's storage promises to the applet: a state in memory and   *)
(* the state a restart would load.  A change is committed as a whole with  *)
(* its answer.  A fault (a save or a load that fails, a crash in the       *)
(* middle of a save) may leave the stored state behind or lose it to the   *)
(* factory state, and nothing else.                                        *)
(***************************************************************************)
EXTENDS Naturals

CONSTANTS States, Factory

VARIABLES mem, stored, faults

Commit ==
  /\ mem' \in States
  /\ stored' = mem'
  /\ UNCHANGED faults

Reload ==
  /\ mem' = stored
  /\ UNCHANGED <<stored, faults>>

FailedCommit ==
  /\ mem' \in States
  /\ stored' \in {stored, Factory}
  /\ faults' = faults + 1

FailedLoad ==
  /\ mem' = Factory
  /\ faults' = faults + 1
  /\ UNCHANGED stored

Init == mem \in States /\ stored \in States /\ faults = 0

Next == Commit \/ Reload \/ FailedCommit \/ FailedLoad

Spec == Init /\ [][Next]_<<mem, stored, faults>>
=============================================================================
