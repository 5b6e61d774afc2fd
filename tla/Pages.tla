------------------------------- MODULE Pages -------------------------------
(***************************************************************************)
(* What the window shows of the findings (app/filters.rs, app/preview.rs,  *)
(* gui/views): in Advanced mode the list, filtered and with a cursor, and  *)
(* a badge for each check; in Easy mode one page that says how the PC is   *)
(* doing and what Repair will do. How the findings come and go is in       *)
(* Decisions; here it is what every page derives from them.                *)
(***************************************************************************)
EXTENDS Findings, Sequences, SequencesExt

CONSTANTS
  MaxScans      \* bound: scans, of the window and of the helper

PagesAssumption == MaxScans \in Nat

(* Two checks and what they may report: a repair that can be done now, one *)
(* that needs a restart and whose finding may be worse the next time, and  *)
(* the restart that Windows itself waits for.                              *)
Modules == {"m1", "m2"}
Notice == "wu_reboot_pending"
Report(id, severity, reboot, advice) ==
  [id |-> id, module |-> IF id = "a" THEN "m1" ELSE "m2"] @@ Fresh(severity, TRUE, reboot, advice)
Reports(m) ==
  IF m = "m1" THEN {<<>>, <<Report("a", "critical", FALSE, FALSE)>>}
  ELSE {<<>>,
        <<Report("b", "warning", TRUE, FALSE), Report(Notice, "info", FALSE, TRUE)>>,
        <<Report("b", "critical", TRUE, FALSE)>>}

Everything == "all severities"
NoForecast == [health |-> 0, restart |-> FALSE, due |-> FALSE]

VARIABLES
  issues,      \* the findings shown, in their order
  hidden,      \* archived_issues
  before,      \* last_findings, while a scan runs
  archive,     \* archived_findings of the settings, by id
  badges,      \* module_statuses: "idle", "scanning", "failed", or the worst found
  score,       \* health_score
  busy,        \* "idle", "scan", "repair"
  left,        \* the checks a scan, the findings a run has still to do
  filter,      \* severity_filter; the others leave rows out in the same way
  cursor,      \* selected_filtered_index
  simulate,    \* dry_run, as a run finds it
  scanned,     \* last_scan_timestamp: whether there was a scan
  forecast,    \* history: what Repair was to achieve, and whether it still can
  narrowed,    \* history: whether a check reported to a filtered list
  scans

derived == <<badges, score>>
view == <<filter, cursor>>
run == <<busy, left, before, simulate, forecast, scanned, scans>>
vars == <<issues, hidden, archive, derived, view, narrowed, run>>

Init ==
  /\ issues = <<>> /\ hidden = <<>> /\ before = <<>> /\ archive = {}
  /\ badges = [m \in Modules |-> "idle"] /\ score = 100
  /\ busy = "idle" /\ left = {}
  /\ filter = Everything /\ cursor = 0
  /\ simulate = FALSE /\ scanned = FALSE
  /\ forecast = NoForecast /\ narrowed = FALSE
  /\ scans = 0

---------------------------------------------------------------------------
IdsOf(list) == {list[i].id : i \in DOMAIN list}
Without(list, ids) == SelectSeq(list, LAMBDA f : f.id \notin ids)
With(list, ids) == SelectSeq(list, LAMBDA f : f.id \in ids)

RepairWaits(f) == f.is_reboot_pending /\ f.id # Notice
WaitsForRestart(f) == f.is_reboot_pending \/ (f.id = Notice /\ ~f.is_fixed)
RestartPending(list) == \E i \in DOMAIN list : WaitsForRestart(list[i])
Todo(list) == {list[i].id : i \in {j \in DOMAIN list : WillRepair(list[j])}}

(* carry_over, keep_waiting                                                *)
CarryOver(fresh, known) ==
  [i \in DOMAIN fresh |->
     LET old == With(known, {fresh[i].id})
     IN  IF old = <<>> THEN fresh[i]
         ELSE [fresh[i] EXCEPT
                 !.is_reboot_pending = @ \/ old[1].is_reboot_pending,
                 !.is_selected = /\ ~old[1].is_reboot_pending
                                 /\ old[1].is_selected /\ ~fresh[i].advice_only,
                 !.fix_error = @ \/ old[1].fix_error]]
KeepWaiting(fresh, known) ==
  fresh \o SelectSeq(known, LAMBDA f : RepairWaits(f) /\ f.id \notin IdsOf(fresh))

(* ModuleStatus::from_findings, and recount_module_statuses.               *)
Badge(list, m) ==
  LET found == {list[i].severity : i \in {j \in DOMAIN list : list[j].module = m}}
  IN  IF "critical" \in found THEN "critical"
      ELSE IF "warning" \in found THEN "warning" ELSE "passed"
Finished == {"passed", "warning", "critical"}
Recounted(all, list) ==
  [m \in Modules |-> IF all[m] \in Finished THEN Badge(list, m) ELSE all[m]]

---------------------------------------------------------------------------
(* filtered_issue_indices, and clamp_filtered_selection.                   *)
Rows(list, f) == SelectSeq(list, LAMBDA i : f \in {Everything, i.severity})
Clamped(list, f) ==
  LET count == Len(Rows(list, f))
  IN  IF count = 0 THEN 0 ELSE IF cursor >= count THEN count - 1 ELSE cursor

(* toggle_severity_filter, clear_filters                                   *)
SetFilter(f) ==
  /\ filter' = f /\ cursor' = Clamped(issues, f)
  /\ UNCHANGED <<issues, hidden, archive, derived, narrowed, run>>

(* next_issue and prev_issue go round, a page stops at the ends; a click   *)
(* goes anywhere.                                                          *)
MoveCursor ==
  LET count == Len(Rows(issues, filter))
  IN  /\ count > 0
      /\ \/ cursor' = (cursor + 1) % count
         \/ cursor' = IF cursor = 0 THEN count - 1 ELSE cursor - 1
         \/ busy # "scan" /\ cursor' \in 0..(count - 1)
      /\ UNCHANGED <<issues, hidden, archive, derived, filter, narrowed, run>>

(* Space on the row of the cursor, and "select none".                      *)
SetTicks(ids, ticked) ==
  /\ issues' = [i \in DOMAIN issues |->
                  IF issues[i].id \in ids THEN [issues[i] EXCEPT !.is_selected = ticked]
                  ELSE issues[i]]
  /\ UNCHANGED <<hidden, archive, derived, view, narrowed, run>>
ToggleSelected ==
  LET rows == Rows(issues, filter)
  IN  /\ cursor < Len(rows)
      /\ IsRepairable(rows[cursor + 1])
      /\ SetTicks({rows[cursor + 1].id}, ~rows[cursor + 1].is_selected)
DeselectAll == SetTicks(IdsOf(Rows(issues, filter)), FALSE)

---------------------------------------------------------------------------
(* The findings, as in Decisions, with what is derived from them.          *)

(* Mutant: the score stays as it was.                                      *)
ArchiveChangedQuietly ==
  /\ score' = score
  /\ badges' = Recounted(badges, issues')
  /\ cursor' = Clamped(issues', filter)

ArchiveChanged ==
  /\ score' = HealthScore(issues')
  /\ badges' = Recounted(badges, issues')
  /\ cursor' = Clamped(issues', filter)

(* Archive, in the details of the row of the cursor.                       *)
ArchiveIssue ==
  LET rows == Rows(issues, filter)
  IN  /\ busy = "idle"
      /\ cursor < Len(rows) /\ ~rows[cursor + 1].is_fixed
      /\ archive' = archive \cup {rows[cursor + 1].id}
      /\ issues' = Without(issues, archive') /\ hidden' = hidden \o With(issues, archive')
      /\ ArchiveChanged
      /\ UNCHANGED <<filter, narrowed, run>>

ShowAgain(id) ==
  /\ busy = "idle" /\ id \in archive
  /\ archive' = archive \ {id}
  /\ issues' = issues \o With(hidden, {id}) /\ hidden' = Without(hidden, {id})
  /\ ArchiveChanged
  /\ UNCHANGED <<filter, narrowed, run>>

StartScan ==
  /\ busy = "idle" /\ scans < MaxScans /\ scans' = scans + 1
  /\ busy' = "scan" /\ left' = Modules
  /\ before' = issues \o hidden
  /\ issues' = SelectSeq(issues, RepairWaits) /\ hidden' = SelectSeq(hidden, RepairWaits)
  /\ cursor' = 0 /\ badges' = [m \in Modules |-> "scanning"] /\ narrowed' = FALSE
  /\ UNCHANGED <<archive, score, filter, simulate, scanned, forecast>>

ModuleFinished(m, report) ==
  /\ busy = "scan" /\ m \in left /\ report \in Reports(m)
  /\ left' = left \ {m}
  /\ LET found == CarryOver(report, before)
     IN  /\ issues' = Without(issues, IdsOf(found)) \o Without(found, archive)
         /\ hidden' = Without(hidden, IdsOf(found)) \o With(found, archive)
  /\ badges' = [badges EXCEPT ![m] = Badge(issues', m)]
  /\ narrowed' = (narrowed \/ filter # Everything)
  /\ UNCHANGED <<before, archive, score, busy, simulate, scanned, forecast, scans, view>>

ModuleFailed(m) ==
  /\ busy = "scan" /\ m \in left
  /\ left' = left \ {m} /\ badges' = [badges EXCEPT ![m] = "failed"]
  /\ UNCHANGED <<issues, hidden, before, archive, score, busy, simulate, scanned, forecast,
                 narrowed, scans, view>>

(* ScanCompleted, or ScanCancelled with checks that never reported.        *)
ScanEnded ==
  /\ busy = "scan"
  /\ busy' = "idle" /\ left' = {} /\ before' = <<>> /\ scanned' = TRUE
  /\ score' = HealthScore(issues)
  /\ badges' = [m \in Modules |-> IF badges[m] = "scanning" THEN "idle" ELSE badges[m]]
  /\ UNCHANGED <<issues, hidden, archive, simulate, forecast, narrowed, scans, view>>

(* take_in_background_scan: the helper's badges count what is archived.    *)
TakeInBackgroundScan(first, second) ==
  /\ busy = "idle" /\ scans < MaxScans /\ scans' = scans + 1
  /\ first \in Reports("m1") /\ second \in Reports("m2")
  /\ LET all == KeepWaiting(CarryOver(first \o second, issues \o hidden), issues \o hidden)
         saved == [m \in Modules |-> Badge(all, m)]
     IN  /\ issues' = Without(all, archive) /\ hidden' = With(all, archive)
         /\ score' = HealthScore(issues') /\ badges' = Recounted(saved, issues')
  /\ cursor' = Clamped(issues', filter) /\ scanned' = TRUE /\ narrowed' = FALSE
  /\ UNCHANGED <<before, archive, busy, left, filter, simulate, forecast>>

(* repair_preview: as if every ticked repair fixed its finding.            *)
Preview(simulated) ==
  [health |-> HealthScore([i \in DOMAIN issues |->
                             [issues[i] EXCEPT !.is_fixed = @ \/ WillRepair(issues[i])]]),
   restart |-> \E i \in DOMAIN issues : WillRepair(issues[i]) /\ issues[i].requires_reboot,
   due |-> ~simulated]

(* The simulation is switched on and off while nothing runs.               *)
StartRepairs ==
  /\ busy = "idle"
  /\ left' = Todo(issues) /\ left' # {}
  /\ busy' = "repair" /\ simulate' \in BOOLEAN /\ forecast' = Preview(simulate')
  /\ UNCHANGED <<issues, hidden, before, archive, derived, scanned, narrowed, scans, view>>

FixFinished(id, result) ==
  /\ busy = "repair" /\ id \in left /\ left' = left \ {id}
  /\ issues' = [i \in DOMAIN issues |->
                  IF issues[i].id = id /\ ~simulate THEN RecordRepair(issues[i], result)
                  ELSE issues[i]]
  /\ forecast' = [forecast EXCEPT !.due = @ /\ result # "error"]
  /\ UNCHANGED <<hidden, before, archive, derived, busy, simulate, scanned, narrowed, scans, view>>

(* Done or cancelled; or without its restore point, before any repair.     *)
RepairsEnded ==
  /\ busy = "repair"
  /\ busy' = "idle" /\ left' = {} /\ simulate' = FALSE /\ forecast' = NoForecast
  /\ score' = HealthScore(issues)
  /\ UNCHANGED <<issues, hidden, before, archive, badges, scanned, narrowed, scans, view>>

Next ==
  \/ \E f \in {Everything, "critical"} : SetFilter(f)
  \/ MoveCursor \/ ToggleSelected \/ DeselectAll \/ ArchiveIssue
  \/ \E id \in archive : ShowAgain(id)
  \/ StartScan \/ ScanEnded
  \/ \E m \in Modules : (\E r \in Reports(m) : ModuleFinished(m, r)) \/ ModuleFailed(m)
  \/ \E first \in Reports("m1"), second \in Reports("m2") : TakeInBackgroundScan(first, second)
  \/ StartRepairs \/ RepairsEnded
  \/ \E id \in left, result \in RepairResults : FixFinished(id, result)

Spec == Init /\ [][Next]_vars

---------------------------------------------------------------------------
(* What the page of Easy mode says.                                        *)
HasScanned == scanned \/ issues # <<>>
Open == {i \in DOMAIN issues : ~issues[i].is_fixed /\ ~issues[i].is_reboot_pending}
AsksForRestart ==
  /\ busy = "idle" /\ HasScanned
  /\ RestartPending(issues)
  /\ \A i \in DOMAIN issues : issues[i].is_fixed \/ WaitsForRestart(issues[i])
Says ==
  IF busy # "idle" THEN "busy"
  ELSE IF ~HasScanned THEN "not checked yet"
  ELSE IF AsksForRestart THEN "almost done"
  ELSE IF Open = {} THEN "good" ELSE "problems"

(* "N more need your decision", counted from two filters of the list.      *)
LeftAlone == Cardinality(Open) - Cardinality(Todo(issues))

(* The pages agree with the findings and each other, whatever changed the  *)
(* list last: while nothing runs the score is that of the list; at any     *)
(* time the badge of a check that finished is; the cursor is on a row      *)
(* unless a scan reported to a filtered list; Easy mode calls the PC good  *)
(* only when nothing is open nor waits, and promises what Repair does: the *)
(* score a run was to bring is there when it worked, unless it has to wait *)
(* for the restart, which the page had said.                               *)
PagesAgree ==
  /\ busy = "idle" => score = HealthScore(issues)
  /\ \A m \in Modules : badges[m] \in Finished => badges[m] = Badge(issues, m)
  /\ cursor < Len(Rows(issues, filter)) \/ Rows(issues, filter) = <<>> \/ narrowed
  /\ Says = "good" => /\ ~RestartPending(issues)
                      /\ \A i \in DOMAIN issues : issues[i].is_fixed
  /\ Says = "problems" => LeftAlone >= 0

PromiseIsKept ==
  [][busy = "repair" /\ busy' = "idle" /\ forecast.due /\ left = {} =>
       \/ score' = forecast.health
       \/ forecast.restart /\ RestartPending(issues')]_vars
=============================================================================
