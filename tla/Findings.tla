----------------------------- MODULE Findings -----------------------------
(***************************************************************************)
(* What a finding is and how it changes: engine/issue.rs, the decisions    *)
(* carried from one scan to the next (app/state.rs, app/archive.rs), the   *)
(* health score (engine/runner.rs) and the exit code of a command line run *)
(* (engine/exit_code.rs).                                                  *)
(*                                                                         *)
(* A list of findings is a function from their ids to records; the texts   *)
(* of a finding are left out, its error is whether it has one.             *)
(***************************************************************************)
EXTENDS Integers, FiniteSets

Severities == {"critical", "warning", "info"}

Finding == [severity        : Severities,
            is_selected     : BOOLEAN,
            is_fixed        : BOOLEAN,
            is_reboot_pending : BOOLEAN,
            requires_reboot : BOOLEAN,
            advice_only     : BOOLEAN,
            fix_error       : BOOLEAN,
            nothing_to_remove : BOOLEAN]

(* A finding as its module reports it. Advice starts unticked.             *)
Fresh(severity, ticked, reboot, advice) ==
  [severity |-> severity, is_selected |-> ticked /\ ~advice, is_fixed |-> FALSE,
   is_reboot_pending |-> FALSE, requires_reboot |-> reboot,
   advice_only |-> advice, fix_error |-> FALSE, nothing_to_remove |-> FALSE]

(* How a repair ends: Ok(Changed), Ok(NothingToRemove) or Err.             *)
RepairResults == {"changed", "nothing", "error"}

RecordRepair(f, result) ==
  LET waits == result = "changed" /\ f.requires_reboot
  IN  [f EXCEPT !.is_reboot_pending = waits,
                !.is_fixed = result # "error" /\ ~waits,
                !.is_selected = @ /\ ~waits,
                !.fix_error = result = "error",
                !.nothing_to_remove = result = "nothing"]

IsRepairable(f) == ~f.advice_only /\ ~f.is_fixed /\ ~f.is_reboot_pending

WillRepair(f) == f.is_selected /\ IsRepairable(f)

---------------------------------------------------------------------------
Penalty == [critical |-> 25, warning |-> 10, info |-> 2]

(* 100 less the weight of each finding that is not fixed, never below 0.   *)
HealthScore(issues) ==
  LET open(s) == Cardinality({i \in DOMAIN issues :
                                ~issues[i].is_fixed /\ issues[i].severity = s})
      score == 100 - Penalty.critical * open("critical")
                   - Penalty.warning * open("warning")
                   - Penalty.info * open("info")
  IN  IF score < 0 THEN 0 ELSE score

ExitOk == 0
ExitWarnings == 1
ExitCritical == 2
ExitFixFailed == 3
ExitCancelled == 6
ExitIncomplete == 7

ExitFromIssues(issues, failed_fixes, failed_modules) ==
  LET open(s) == \E i \in DOMAIN issues :
                   ~issues[i].is_fixed /\ issues[i].severity = s
  IN  CASE failed_fixes > 0   -> ExitFixFailed
        [] failed_fixes <= 0 /\ open("critical") -> ExitCritical
        [] failed_fixes <= 0 /\ ~open("critical") /\ failed_modules > 0 -> ExitIncomplete
        [] OTHER -> IF open("warning") THEN ExitWarnings ELSE ExitOk
===========================================================================
