------------------------------ MODULE Headless ------------------------------
(***************************************************************************)
(* main.rs, run_headless: a run without a window. It scans, prints or      *)
(* saves what it found, repairs or simulates, and tells a script by its    *)
(* exit code how it went. Ctrl+C may come at any moment. The scan and the  *)
(* repairs themselves are ScanRun and RepairRun; here a check finds what   *)
(* the machine has, or fails, and a repair ends as RecordRepair says.      *)
(***************************************************************************)
EXTENDS Findings, Sequences

CONSTANT Problems      \* what may be wrong with the machine, one check each

(* How a problem is found: Fresh(severity, ticked, needs a restart, advice)*)
Profiles == {Fresh("critical", TRUE, FALSE, FALSE), Fresh("warning", TRUE, TRUE, FALSE),
             Fresh("warning", FALSE, FALSE, TRUE), Fresh("info", TRUE, FALSE, FALSE)}

(* The flags, and the settings they go with: mode is what --auto-fix and   *)
(* --dry-run ask for, vss without --no-vss; on is the helper's setting.    *)
Args == {a \in [mode : {"scan", "fix", "dry run"}, json : BOOLEAN, helper : BOOLEAN,
                vss : BOOLEAN, on : BOOLEAN] :
           (a.vss => a.mode = "fix") /\ (a.on \/ a.helper)}

VARIABLES
  args,
  profile,    \* how each problem is found
  machine,    \* the problems the machine has
  archived,   \* the problems whose findings are archived
  run,        \* the run: see Init
  list,       \* its findings
  printed,    \* the JSON documents it printed
  lastScan,   \* what it saved as last_scan.json, if it did
  touched     \* history: the problems whose repair was started

vars == <<args, profile, machine, archived, run, list, printed, lastScan, touched>>
input == <<args, profile, archived>>

RunsRepairs == args.mode # "scan"

Init ==
  /\ args \in Args
  /\ profile \in [Problems -> Profiles]
  /\ machine \in SUBSET Problems
  /\ archived \in {{}, {CHOOSE p \in Problems : TRUE}}
  /\ run = [at |-> "start", token |-> FALSE, cut |-> FALSE, checked |-> {}, failed |-> {},
            fixing |-> {}, failures |-> 0, cancelled |-> FALSE, code |-> -1]
  /\ list = [p \in {} |-> {}] /\ printed = <<>> /\ lastScan = <<>> /\ touched = {}

Ended(code) == run' = [run EXCEPT !.at = "ended", !.code = code]
Live == run.at # "ended"

---------------------------------------------------------------------------
(* A helper whose setting is off leaves, as one does whose executable      *)
(* others could change (HelperTask).                                       *)
Start ==
  /\ run.at = "start"
  /\ \/ args.helper /\ Ended(ExitOk)
     \/ args.on /\ run' = [run EXCEPT !.at = "scan"]
  /\ UNCHANGED <<input, machine, list, printed, lastScan, touched>>

CtrlC ==
  /\ Live /\ run.at # "start" /\ ~run.token
  /\ run' = [run EXCEPT !.token = TRUE]
  /\ UNCHANGED <<input, machine, list, printed, lastScan, touched>>

(* A check reports what the machine has of its problem, or fails.          *)
CheckEnds(p) ==
  /\ run.at = "scan" /\ p \notin run.checked
  /\ \E fails \in BOOLEAN :
       /\ run' = [run EXCEPT !.checked = @ \cup {p},
                             !.failed = IF fails THEN @ \cup {p} ELSE @]
       /\ list' = IF fails \/ p \notin machine THEN list
                  ELSE [q \in DOMAIN list \cup {p} |-> profile[q]]
  /\ UNCHANGED <<input, machine, printed, lastScan, touched>>

(* Whether the document waits for the repairs.                             *)
DeferJson(cut) == args.json /\ RunsRepairs /\ ~cut

(* archive::split, the results of the helper, which keeps those of the     *)
(* scan before when this one was cut off, and the report.                  *)
Split == [p \in DOMAIN list \ archived |-> list[p]]

ScanEnds ==
  /\ run.at = "scan"
  /\ \E cut \in BOOLEAN :
       /\ IF cut THEN run.token ELSE run.checked = Problems
       /\ list' = Split
       /\ \/ lastScan' = IF args.helper /\ ~cut THEN <<Split>> ELSE lastScan
          \/ UNCHANGED lastScan                     \* it could not be saved
       /\ printed' = IF args.json /\ ~DeferJson(cut) /\ ~args.helper
                     THEN Append(printed, Split) ELSE printed
       /\ run' = [run EXCEPT !.cut = cut,
                             !.at = IF RunsRepairs /\ ~cut THEN "restore point" ELSE "report"]
  /\ UNCHANGED <<input, machine, touched>>

---------------------------------------------------------------------------
(* run_repairs                                                             *)

Waiting(l) == {p \in DOMAIN l : WillRepair(l[p])}

(* Without a new restore point nothing is repaired. Mutant: it is not said *)
(* of the repairs.                                                         *)
MissingUncounted == run' = [run EXCEPT !.at = "report"] /\ UNCHANGED list
Missing ==
  /\ list' = [p \in DOMAIN list |-> [list[p] EXCEPT !.fix_error = @ \/ p \in Waiting(list)]]
  /\ run' = [run EXCEPT !.at = "report", !.failures = Cardinality(Waiting(list))]

RestorePoint ==
  /\ run.at = "restore point"
  /\ \/ args.vss /\ Missing
     \/ run' = [run EXCEPT !.at = "repairs"] /\ UNCHANGED list
  /\ UNCHANGED <<input, machine, printed, lastScan, touched>>

Todo == {p \in Waiting(list) : p \notin touched /\ ~list[p].fix_error}

StartRepair(p) ==
  /\ run.at = "repairs" /\ p \in Todo /\ ~run.token
  /\ args.mode = "fix"
  /\ touched' = touched \cup {p}
  /\ run' = [run EXCEPT !.at = "fix", !.fixing = {p}]
  /\ UNCHANGED <<input, machine, list, printed, lastScan>>

FixEnds(p) ==
  /\ run.at = "fix" /\ p \in run.fixing
  /\ \E result \in RepairResults :
       /\ result = "nothing" => p \notin machine
       /\ machine' = IF result = "changed" THEN machine \ {p} ELSE machine
       /\ list' = [list EXCEPT ![p] = RecordRepair(@, result)]
       /\ run' = [run EXCEPT !.at = "repairs", !.fixing = {},
                             !.failures = IF result = "error" THEN @ + 1 ELSE @]
  /\ UNCHANGED <<input, printed, lastScan, touched>>

(* The machine mends itself while a repair of it runs.                     *)
Mended(p) ==
  /\ run.at = "fix" /\ p \in run.fixing \cap machine
  /\ machine' = machine \ {p}
  /\ UNCHANGED <<input, run, list, printed, lastScan, touched>>

(* Ctrl+C ends the repair that runs, or the run before the next one.       *)
Cancelled ==
  /\ run.token
  /\ \/ run.at = "fix"
     \/ run.at = "repairs" /\ Todo # {}
  /\ list' = [p \in DOMAIN list |-> [list[p] EXCEPT !.fix_error = @ \/ p \in run.fixing]]
  /\ run' = [run EXCEPT !.at = "report", !.cancelled = TRUE]
  /\ UNCHANGED <<input, machine, printed, lastScan, touched>>

(* A simulation goes through the list and changes none of it.              *)
RepairsEnd ==
  /\ run.at = "repairs"
  /\ Todo = {} \/ (args.mode = "dry run" /\ ~run.token)
  /\ run' = [run EXCEPT !.at = "report"]
  /\ UNCHANGED <<input, machine, list, printed, lastScan, touched>>

(* The document that waited, and the exit code.                            *)
Report ==
  /\ run.at = "report"
  /\ printed' = IF DeferJson(run.cut) THEN Append(printed, list) ELSE printed
  /\ Ended(IF run.cut \/ run.cancelled THEN ExitCancelled
           ELSE IF args.helper /\ run.failures = 0 THEN ExitOk
           ELSE ExitFromIssues(list, run.failures, Cardinality(run.failed)))
  /\ UNCHANGED <<input, machine, list, lastScan, touched>>

Next ==
  \/ Start
  \/ CtrlC
  \/ \E p \in Problems : CheckEnds(p)
  \/ ScanEnds
  \/ RestorePoint
  \/ \E p \in Problems : StartRepair(p)
  \/ \E p \in Problems : FixEnds(p)
  \/ \E p \in Problems : Mended(p)
  \/ Cancelled
  \/ RepairsEnd
  \/ Report

Spec == Init /\ [][Next]_vars

---------------------------------------------------------------------------
(* What a script concludes from a run that ended holds of the machine. 0   *)
(* means that nothing above info is wrong with it that was not archived,   *)
(* and 3 that a repair that was asked for did not work ("Exit codes" of    *)
(* --help), and without it every one was tried; --json prints one          *)
(* document, of what the run left; a helper that was cut off leaves the    *)
(* scan before ("A partial scan would replace a complete one with modules  *)
(* that never ran"); what is archived is not repaired, and nothing is in a *)
(* simulation.                                                             *)
RunIsToldTruly ==
  run.at = "ended" =>
    /\ run.code = ExitOk /\ ~args.helper =>
         \A p \in machine \ archived : profile[p].severity = "info"
    /\ run.code = ExitFixFailed => \E p \in DOMAIN list : list[p].fix_error
    /\ run.code \in {ExitOk, ExitWarnings} => ~run.cut /\ ~run.cancelled
    /\ (\E p \in DOMAIN list : list[p].fix_error) => run.code \in {ExitFixFailed, ExitCancelled}
    /\ args.mode = "fix" /\ run.code \notin {ExitFixFailed, ExitCancelled} =>
         Waiting(list) = {}
    /\ args.json /\ ~args.helper => printed = <<list>>
    /\ lastScan # <<>> => args.helper /\ run.checked = Problems
    /\ touched \cap archived = {} /\ (args.mode # "fix" => touched = {})
=============================================================================
