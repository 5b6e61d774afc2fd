---------------------------- MODULE Decisions ----------------------------
(***************************************************************************)
(* What is decided against a scan and must outlive it: the findings the    *)
(* user unticked or archived, the repairs that wait for a restart. They    *)
(* pass from scan to scan in the window (app/run_control.rs, app/events.rs,*)
(* app/state.rs, app/archive.rs, app/filters.rs), through the file of the  *)
(* last scan (app/scan_state.rs) to the next session and to the background *)
(* helper (main.rs), which saves over it, and back to the window, which    *)
(* polls the file.                                                         *)
(*                                                                         *)
(* A scan is the order its checks report in (ScanRun has the rest), a      *)
(* repair run the order its repairs finish in (RepairRun); simulations     *)
(* change nothing here. Every scan ends at a time of its own: two that end *)
(* in the same second, which the code takes for one, are left out.         *)
(***************************************************************************)
EXTENDS Findings, Functions

CONSTANTS
  Modules, Ids,         \* the checks, and the findings they can report
  ModuleOf,             \* the check that reports a finding
  NeedsRestart,         \* findings whose repair needs a restart to finish
  Notices,              \* the advice that Windows itself waits for a restart
  Overdue,              \* the advice to restart after weeks without one
  Worlds,               \* the kinds of sessions to look at, see World
  MaxBoot, MaxScans     \* bounds

Advice == Notices \cup Overdue

ASSUME FindingsAssumption ==
  /\ IsFiniteSet(Modules) /\ IsFiniteSet(Ids)
  /\ ModuleOf \in [Ids -> Modules]
  /\ Advice \subseteq Ids
  /\ NeedsRestart \subseteq Ids \ Advice

(* What goes on around a window: when the helper runs, "alone" standing    *)
(* for only while no window is open; when the user quits; whether scans    *)
(* are cancelled and checks fail; how often Windows restarts.              *)
World == [helper : {"never", "alone", "any"}, quits : SUBSET {"idle", "busy"},
          cuts : BOOLEAN, restarts : 0..MaxBoot]

ASSUME WorldsAssumption == MaxBoot \in Nat /\ MaxScans \in Nat /\ Worlds \subseteq World

VARIABLES
  world,                \* the kind of session this is
  boot,                 \* Windows' boot counter
  clock,                \* the time of the newest scan
  archived,             \* config.archived_findings
  open,                 \* there is a window
  run,                  \* what it is busy with
  shown, hidden,        \* App::issues and App::archived_issues
  last,                 \* App::last_findings
  todo,                 \* checks of the running scan that have not reported
  fixing,               \* findings the running repair run is still to finish
  stamp,                \* App::last_scan_timestamp, 0 for none
  file,                 \* last_scan.json; its stamp is 0 if there is none
  helper,               \* the helper, between loading the last scan and saving
  leftOut,              \* history: what the user unticked, and is still reported
  waiting               \* history: repairs recorded as waiting for this boot's end

windowVars == <<run, shown, hidden, last, todo, fixing, stamp>>
vars == <<world, boot, clock, archived, open, run, shown, hidden, last, todo, fixing,
          stamp, file, helper, leftOut, waiting>>

(* A list of findings: a function from some of the ids.                    *)
IsFindingList(f) == DOMAIN f \subseteq Ids /\ f \in [DOMAIN f -> Finding]
NoFindings == [i \in {} |-> Fresh("info", FALSE, FALSE, TRUE)]

Join(f, g) == [i \in DOMAIN f \cup DOMAIN g |-> IF i \in DOMAIN f THEN f[i] ELSE g[i]]

(* What a scan reports of the findings it comes upon.                      *)
Reported(found) ==
  [i \in found |-> Fresh("warning", TRUE, i \in NeedsRestart, i \in Advice)]

TypeOK ==
  /\ world \in World
  /\ boot \in 0..MaxBoot
  /\ clock \in Nat
  /\ archived \in SUBSET Ids
  /\ open \in BOOLEAN
  /\ run \in {"idle", "scan", "repair"}
  /\ IsFindingList(shown) /\ IsFindingList(hidden) /\ IsFindingList(last)
  /\ todo \in SUBSET Modules
  /\ fixing \in SUBSET DOMAIN shown
  /\ stamp \in Nat
  /\ file = [stamp |-> file.stamp, boot |-> file.boot, issues |-> file.issues]
  /\ file.stamp \in Nat /\ file.boot \in 0..MaxBoot /\ IsFindingList(file.issues)
  /\ helper = [phase |-> helper.phase, stamp |-> helper.stamp, issues |-> helper.issues]
  /\ helper.phase \in {"off", "loaded"}
  /\ helper.stamp \in Nat /\ IsFindingList(helper.issues)
  /\ leftOut \in SUBSET Ids /\ waiting \in SUBSET Ids

HelperOff == [phase |-> "off", stamp |-> 0, issues |-> NoFindings]

Init ==
  /\ world \in Worlds
  /\ boot = 0 /\ clock = 0
  /\ archived = {}
  /\ open = FALSE
  /\ run = "idle"
  /\ shown = NoFindings /\ hidden = NoFindings /\ last = NoFindings
  /\ todo = {} /\ fixing = {}
  /\ stamp = 0
  /\ file = [stamp |-> 0, boot |-> 0, issues |-> NoFindings]
  /\ helper = HelperOff
  /\ leftOut = {} /\ waiting = {}

---------------------------------------------------------------------------
(* The decisions. *)

(* repair_waits_for_restart: Windows' own pending restart is no repair.    *)
RepairWaits(i, f) == f.is_reboot_pending /\ i \notin Notices

Waiting(fs) == {i \in DOMAIN fs : RepairWaits(i, fs[i])}

(* Mutant: a tick is set anew by every scan.                               *)
CarryOverWaitsOnly(fresh, known) ==
  [i \in DOMAIN fresh |->
     IF i \in DOMAIN known /\ known[i].is_reboot_pending
       THEN [fresh[i] EXCEPT !.is_reboot_pending = TRUE, !.is_selected = FALSE]
       ELSE fresh[i]]

CarryOver(fresh, known) ==
  [i \in DOMAIN fresh |->
     IF i \in DOMAIN known
       THEN [fresh[i] EXCEPT
               !.is_reboot_pending = @ \/ known[i].is_reboot_pending,
               !.is_selected = /\ ~known[i].is_reboot_pending
                               /\ known[i].is_selected /\ ~fresh[i].advice_only,
               !.fix_error = @ \/ known[i].fix_error]
       ELSE fresh[i]]

KeepWaiting(fresh, known) == Join(fresh, Restrict(known, Waiting(known)))

Decided(fresh, known) == KeepWaiting(CarryOver(fresh, known), known)

(* settle_after_restart *)
Settled(fs) ==
  [i \in DOMAIN fs |->
     IF fs[i].is_reboot_pending \/ (i \in Notices /\ ~fs[i].is_fixed) \/ i \in Overdue
       THEN [fs[i] EXCEPT !.is_reboot_pending = FALSE, !.is_fixed = TRUE]
       ELSE fs[i]]

(* Mutant: what comes in is not sorted. *)
ShownUnsorted(fs) == fs

(* archive::split *)
Shown(fs)  == Restrict(fs, DOMAIN fs \ archived)
Hidden(fs) == Restrict(fs, DOMAIN fs \cap archived)

(* save_scan_state, of the window as it now is: with the time of its scan, *)
(* and of no scan nothing. Whoever reads the file puts the two lists       *)
(* together again, so it is one list here.                                 *)
Save == file' = IF stamp' = 0 THEN file
                ELSE [stamp |-> stamp', boot |-> boot, issues |-> Join(shown', hidden')]

Idle == open /\ run = "idle"

---------------------------------------------------------------------------
(* The window. *)

(* Mutant: a restart settles nothing. *)
OpenUnsettled ==
  /\ ~open /\ open' = TRUE
  /\ shown' = Shown(file.issues) /\ hidden' = Hidden(file.issues)
  /\ stamp' = file.stamp
  /\ UNCHANGED <<world, boot, clock, archived, run, last, todo, fixing, file, helper, leftOut, waiting>>

Open ==
  /\ ~open
  /\ world.helper = "alone" => helper.phase = "off"
  /\ open' = TRUE
  /\ LET all == IF file.stamp # 0 /\ file.boot # boot THEN Settled(file.issues)
                                                      ELSE file.issues
     IN  shown' = Shown(all) /\ hidden' = Hidden(all)
  /\ stamp' = file.stamp
  /\ UNCHANGED <<world, boot, clock, archived, run, last, todo, fixing, file, helper, leftOut, waiting>>

(* Mutant: start_scan clears the lists. *)
StartScanAnew ==
  /\ Idle /\ clock < MaxScans
  /\ run' = "scan"
  /\ last' = Join(shown, hidden)
  /\ shown' = NoFindings /\ hidden' = NoFindings
  /\ todo' = Modules
  /\ UNCHANGED <<world, boot, clock, archived, open, fixing, stamp, file, helper, leftOut, waiting>>

StartScan ==
  /\ Idle /\ clock < MaxScans
  /\ run' = "scan"
  /\ last' = Join(shown, hidden)
  /\ shown' = Restrict(shown, Waiting(shown))
  /\ hidden' = Restrict(hidden, Waiting(hidden))
  /\ todo' = Modules
  /\ UNCHANGED <<world, boot, clock, archived, open, fixing, stamp, file, helper, leftOut, waiting>>

(* A check reports: what is left of the list gives way to its report.      *)
ModuleFinished(m, found) ==
  /\ run = "scan" /\ m \in todo
  /\ found \subseteq {i \in Ids : ModuleOf[i] = m}
  /\ todo' = todo \ {m}
  /\ LET issues == CarryOver(Reported(found), last)
     IN  /\ shown' = Join(Shown(issues), Restrict(shown, DOMAIN shown \ found))
         /\ hidden' = Join(Hidden(issues), Restrict(hidden, DOMAIN hidden \ found))
  /\ leftOut' = leftOut \ {i \in Ids \ found : ModuleOf[i] = m}
  /\ UNCHANGED <<world, boot, clock, archived, open, run, last, fixing, stamp, file, helper, waiting>>

ModuleFailed(m) ==
  /\ world.cuts
  /\ run = "scan" /\ m \in todo
  /\ todo' = todo \ {m}
  /\ UNCHANGED <<world, boot, clock, archived, open, run, shown, hidden, last, fixing, stamp>>
  /\ UNCHANGED <<file, helper, leftOut, waiting>>

(* ScanCompleted, or ScanCancelled with checks that never reported.        *)
ScanEnded ==
  /\ run = "scan"
  /\ todo = {} \/ world.cuts
  /\ run' = "idle"
  /\ todo' = {}
  /\ last' = NoFindings
  /\ clock' = clock + 1
  /\ stamp' = clock + 1
  /\ UNCHANGED <<shown, hidden>>
  /\ Save
  /\ UNCHANGED <<world, boot, archived, open, fixing, helper, leftOut, waiting>>

(* A repair run works on the findings ticked now, one after the other.     *)
StartRepairs ==
  /\ Idle
  /\ fixing' = {i \in DOMAIN shown : WillRepair(shown[i])}
  /\ fixing' # {}
  /\ run' = "repair"
  /\ UNCHANGED <<world, boot, clock, archived, open, shown, hidden, last, todo, stamp>>
  /\ UNCHANGED <<file, helper, leftOut, waiting>>

FixFinished(i, result) ==
  /\ run = "repair" /\ i \in fixing
  /\ fixing' = fixing \ {i}
  /\ shown' = [shown EXCEPT ![i] = RecordRepair(@, result)]
  /\ waiting' = waiting \cup (IF RecordRepair(shown[i], result).is_reboot_pending
                                THEN {i} ELSE {})
  /\ UNCHANGED <<world, boot, clock, archived, open, run, hidden, last, todo, stamp>>
  /\ UNCHANGED <<file, helper, leftOut>>

(* All done, cancelled, or without the restore point it asked for.         *)
RepairsEnded ==
  /\ run = "repair"
  /\ run' = "idle"
  /\ fixing' = {}
  /\ UNCHANGED <<shown, hidden, stamp>>
  /\ Save
  /\ UNCHANGED <<world, boot, clock, archived, open, last, todo, helper, leftOut, waiting>>

(* The ticks, which a running scan or repair does not lock: those of the   *)
(* findings in S, a filter's choice of the list, become `ticked`. Advice   *)
(* and what is repaired is left alone, except that "deselect all" clears   *)
(* the lot.                                                                *)
SetTicks(S, ticked) ==
  /\ shown' = [i \in DOMAIN shown |->
                 IF i \in S THEN [shown[i] EXCEPT !.is_selected = ticked] ELSE shown[i]]
  /\ leftOut' = IF ticked THEN leftOut \ S ELSE leftOut \cup S
  /\ UNCHANGED <<hidden, stamp>>
  /\ Save
  /\ UNCHANGED <<world, boot, clock, archived, open, run, last, todo, fixing, helper, waiting>>

Repairable(S) == {i \in S : IsRepairable(shown[i])}

ToggleIssue(i) ==
  /\ open /\ i \in DOMAIN shown
  /\ IsRepairable(shown[i])
  /\ SetTicks({i}, ~shown[i].is_selected)

ToggleAll(filtered) ==
  /\ open /\ filtered \subseteq DOMAIN shown
  /\ SetTicks(Repairable(filtered), \E i \in Repairable(filtered) : ~shown[i].is_selected)

SelectAll(filtered) ==
  /\ open /\ filtered \subseteq DOMAIN shown
  /\ SetTicks(Repairable(filtered), TRUE)

DeselectAll(filtered) ==
  /\ open /\ filtered \subseteq DOMAIN shown
  /\ SetTicks(filtered, FALSE)

(* Mutant: archiving is possible in the middle of a run. *)
ArchiveAnyTime(i) ==
  /\ open
  /\ i \in DOMAIN shown /\ ~shown[i].is_fixed
  /\ archived' = archived \cup {i}
  /\ shown' = Restrict(shown, DOMAIN shown \ archived')
  /\ hidden' = Join(hidden, Restrict(shown, DOMAIN shown \cap archived'))
  /\ UNCHANGED stamp
  /\ Save
  /\ UNCHANGED <<world, boot, clock, open, run, last, todo, fixing, helper, leftOut, waiting>>

Archive(i) ==
  /\ Idle
  /\ i \in DOMAIN shown /\ ~shown[i].is_fixed
  /\ archived' = archived \cup {i}
  /\ shown' = Restrict(shown, DOMAIN shown \ archived')
  /\ hidden' = Join(hidden, Restrict(shown, DOMAIN shown \cap archived'))
  /\ UNCHANGED stamp
  /\ Save
  /\ UNCHANGED <<world, boot, clock, open, run, last, todo, fixing, helper, leftOut, waiting>>

ShowAgain(i) ==
  /\ Idle
  /\ i \in archived
  /\ archived' = archived \ {i}
  /\ hidden' = Restrict(hidden, DOMAIN hidden \ {i})
  /\ shown' = Join(shown, Restrict(hidden, DOMAIN hidden \cap {i}))
  /\ UNCHANGED stamp
  /\ Save
  /\ UNCHANGED <<world, boot, clock, open, run, last, todo, fixing, helper, leftOut, waiting>>

(* Once a second, but not in the middle of a run: what another process     *)
(* saved is taken in, and not saved again.                                 *)
TakeInBackgroundScan ==
  /\ Idle
  /\ file.stamp # 0 /\ file.stamp # stamp
  /\ LET all == Decided(file.issues, Join(shown, hidden))
     IN  /\ shown' = Shown(all)
         /\ hidden' = Hidden(all)
         /\ leftOut' = leftOut \cap DOMAIN all
  /\ stamp' = file.stamp
  /\ UNCHANGED <<world, boot, clock, archived, open, run, last, todo, fixing, file, helper, waiting>>

(* Nothing is saved when the window goes. *)
WindowGone ==
  /\ open' = FALSE
  /\ run' = "idle"
  /\ shown' = NoFindings /\ hidden' = NoFindings /\ last' = NoFindings
  /\ todo' = {} /\ fixing' = {}
  /\ stamp' = 0

Quit ==
  /\ open
  /\ (IF run = "idle" THEN "idle" ELSE "busy") \in world.quits
  /\ WindowGone
  /\ UNCHANGED <<world, boot, clock, archived, file, helper, leftOut, waiting>>

(* Windows restarts; a user who never quits in the middle of a run does    *)
(* not restart in one either.                                              *)
Restart ==
  /\ boot < world.restarts
  /\ open /\ run # "idle" => "busy" \in world.quits
  /\ boot' = boot + 1
  /\ WindowGone
  /\ helper' = HelperOff
  /\ waiting' = {}
  /\ UNCHANGED <<world, clock, archived, file, leftOut>>

---------------------------------------------------------------------------
(* The helper, once its scan is complete: it loads the scan saved before   *)
(* its own, carries over what was decided against that one unless Windows  *)
(* has restarted since, and saves its own over it.                         *)

(* A restart in between ends what the user's unticks stand against.        *)
HelperLoads(found) ==
  /\ world.helper = "any" \/ (world.helper = "alone" /\ ~open)
  /\ helper.phase = "off" /\ clock < MaxScans
  /\ clock' = clock + 1
  /\ LET carries == file.stamp # 0 /\ file.boot = boot
     IN  /\ helper' = [phase |-> "loaded", stamp |-> clock + 1,
                       issues |-> IF carries THEN Decided(Reported(found), file.issues)
                                             ELSE Reported(found)]
         /\ leftOut' = IF carries \/ open THEN leftOut ELSE {}
  /\ UNCHANGED <<world, boot, archived, open, file, waiting>> /\ UNCHANGED windowVars

HelperSaves ==
  /\ helper.phase = "loaded"
  /\ file' = [stamp |-> helper.stamp, boot |-> boot, issues |-> helper.issues]
  /\ helper' = HelperOff
  /\ leftOut' = IF open THEN leftOut ELSE leftOut \cap DOMAIN helper.issues
  /\ UNCHANGED <<world, boot, clock, archived, open, waiting>> /\ UNCHANGED windowVars

---------------------------------------------------------------------------
Next ==
  \/ Open \/ StartScan \/ ScanEnded \/ StartRepairs \/ RepairsEnded
  \/ \E m \in Modules : \/ \E found \in SUBSET Ids : ModuleFinished(m, found)
                        \/ ModuleFailed(m)
  \/ \E i \in Ids : \/ \E result \in RepairResults : FixFinished(i, result)
                    \/ ToggleIssue(i) \/ Archive(i) \/ ShowAgain(i)
  \/ \E filtered \in SUBSET Ids :
       ToggleAll(filtered) \/ SelectAll(filtered) \/ DeselectAll(filtered)
  \/ TakeInBackgroundScan \/ Quit \/ Restart
  \/ (\E found \in SUBSET Ids : HelperLoads(found)) \/ HelperSaves

Spec == Init /\ [][Next]_vars

---------------------------------------------------------------------------
(* Everything that counts, lists, repairs or scores what the window shows  *)
(* relies on the archived findings being sorted out of it (archive.rs):    *)
(* none is shown, none is in both lists, and nothing else is hidden. It    *)
(* must hold in the middle of a scan and after results are taken in.       *)
ArchiveIsSortedOut ==
  open => /\ DOMAIN shown \cap archived = {}
          /\ DOMAIN hidden \subseteq archived

(* A repair that waits for the restart waits until the restart: in one     *)
(* session neither a new scan, complete or not, nor a background scan, nor *)
(* the archive, nor a tick takes that from it (state.rs carry_over,        *)
(* keep_waiting; run_control.rs start_scan).                               *)
WaitsUntilRestart ==
  [][open /\ open' /\ boot' = boot =>
       Waiting(shown) \cup Waiting(hidden) \subseteq Waiting(shown') \cup Waiting(hidden')]_vars

(* ... and no run schedules it again, in whatever session it was repaired, *)
(* as long as the user quits between runs only, and the helper does not    *)
(* save over a window that is then quit.                                   *)
NotScheduledAgain ==
  /\ "busy" \notin world.quits
  /\ world.helper = "any" => world.quits = {} /\ world.restarts = 0
  => fixing \cap waiting = {}

(* "... and schedules again what only waits for the restart" (state.rs, of *)
(* carry_over): not whatever the helper does. "The background scan saves   *)
(* over the window's results, and used to drop the repairs waiting for the *)
(* restart from them" (scan_state.rs).                                     *)
NeverScheduledAgain == fixing \cap waiting = {}

(* A finding the user unticked stays unticked as long as scans report it,  *)
(* and between scans one of the two lists has it: archived, shown again,   *)
(* taken in or loaded, it is not lost to both; if scans are complete and   *)
(* the helper does not save over a window that is then quit.               *)
LeftOutStaysOut ==
  /\ ~world.cuts /\ "busy" \notin world.quits
  /\ world.helper = "any" => world.quits = {} /\ world.restarts = 0
  => /\ \A i \in leftOut \cap DOMAIN shown : ~shown[i].is_selected
     /\ \A i \in leftOut \cap DOMAIN hidden : ~hidden[i].is_selected
     /\ open /\ run # "scan" => leftOut \subseteq DOMAIN shown \cup DOMAIN hidden

(* Neither what waits nor what was left out is repaired by the next run    *)
(* (state.rs carry_over and keep_waiting, scan_state.rs settle_restart).   *)
DecisionsHold == NotScheduledAgain /\ LeftOutStaysOut

(* "... or the next repair run repairs what was deliberately left out"     *)
(* (state.rs, of carry_over): not after a scan that was cancelled either.  *)
LeftOutIsNotRepaired ==
  \A i \in leftOut \cap DOMAIN shown : ~shown[i].is_selected

(* Only what waited for a restart that has happened is settled by it: no   *)
(* finding shown as waiting was repaired before this boot.                 *)
NothingWaitsForAPastRestart == open => Waiting(shown) \cup Waiting(hidden) \subseteq waiting
===========================================================================
