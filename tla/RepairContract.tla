-------------------------- MODULE RepairContract --------------------------
(***************************************************************************)
(* What a repair run promises the machine: one repair at a time, each      *)
(* selected finding at most once, nothing in a simulation, nothing before  *)
(* the restore point that was asked for, nothing once the run has ended.   *)
(*                                                                         *)
(* The abstract specification of RepairRun (engine/runner.rs,              *)
(* run_repairs).                                                           *)
(***************************************************************************)
EXTENDS FiniteSets

CONSTANT Issues

VARIABLES
  allowed,              \* the findings ticked when the run started
  mayStart,             \* no restore point is missing and it is no simulation
  active,               \* the repairs that run
  attempted,            \* the repairs that were started
  ended

vars == <<allowed, mayStart, active, attempted, ended>>

Init == /\ allowed \in SUBSET Issues
        /\ mayStart \in BOOLEAN
        /\ active = {} /\ attempted = {}
        /\ ended = FALSE

Protect == /\ ~mayStart /\ attempted = {} /\ ~ended
           /\ mayStart' = TRUE
           /\ UNCHANGED <<allowed, active, attempted, ended>>

Start(i) == /\ mayStart /\ active = {} /\ ~ended
            /\ i \in allowed \ attempted
            /\ active' = {i}
            /\ attempted' = attempted \cup {i}
            /\ UNCHANGED <<allowed, mayStart, ended>>

Stop == /\ active # {}
        /\ active' = {}
        /\ UNCHANGED <<allowed, mayStart, attempted, ended>>

End == /\ active = {} /\ ~ended
       /\ ended' = TRUE
       /\ UNCHANGED <<allowed, mayStart, active, attempted>>

Next == Protect \/ (\E i \in Issues : Start(i)) \/ Stop \/ End

Spec == Init /\ [][Next]_vars
===========================================================================
