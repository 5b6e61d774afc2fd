--------------------------- MODULE ScanContract ---------------------------
(***************************************************************************)
(* What a diagnostic scan promises whoever started it: each check reports  *)
(* at most one outcome, a scan that says it completed has the outcome of   *)
(* every check, one that says it was cancelled lacks at least one and says *)
(* how many it has, and nothing is reported after the end.                 *)
(*                                                                         *)
(* The abstract specification of ScanRun (engine/runner.rs, run_scan) as   *)
(* the window sees it (app/events.rs, process_scan_events).                *)
(***************************************************************************)
EXTENDS Naturals, FiniteSets

CONSTANT Modules        \* the registered diagnostic checks

VARIABLES
  outcome,              \* what each check reported so far
  verdict,              \* how the scan ended, "running" until then
  told                  \* how many checks a cancelled scan says have reported

vars == <<outcome, verdict, told>>

Outcomes == {"pending", "found", "failed"}
Verdicts == {"running", "completed", "cancelled"}

Reported == {m \in Modules : outcome[m] # "pending"}

Init == /\ outcome = [m \in Modules |-> "pending"]
        /\ verdict = "running"
        /\ told = 0

Report(m) == /\ verdict = "running"
             /\ outcome[m] = "pending"
             /\ \E o \in Outcomes \ {"pending"} : outcome' = [outcome EXCEPT ![m] = o]
             /\ UNCHANGED <<verdict, told>>

Complete == /\ verdict = "running"
            /\ Reported = Modules
            /\ verdict' = "completed"
            /\ UNCHANGED <<outcome, told>>

Cancel == /\ verdict = "running"
          /\ Reported # Modules
          /\ verdict' = "cancelled"
          /\ told' = Cardinality(Reported)
          /\ UNCHANGED outcome

Next == \/ \E m \in Modules : Report(m)
        \/ Complete
        \/ Cancel

Spec == Init /\ [][Next]_vars
===========================================================================
