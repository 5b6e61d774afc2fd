----------------------------- MODULE Session -----------------------------
(***************************************************************************)
(* What goes on at once in one window (src/app, src/gui/mod.rs): the run   *)
(* in progress, the registry restore, the download of an update, and the   *)
(* dialogs that ask before something is done. The window works in frames:  *)
(* it takes in what the engine and the background tasks sent               *)
(* (process_background_events), restarts into an installed update once     *)
(* nothing runs, polls the file for another process's scan, and then       *)
(* handles the keys and clicks of the frame - the last two only while it   *)
(* is not minimised. Tasks end between any two of these steps.             *)
(* What a run does is in ScanRun and RepairRun, what becomes of the        *)
(* findings in Decisions; here a run is a task that ends somehow and       *)
(* leaves some of the findings ticked.                                     *)
(***************************************************************************)
EXTENDS Naturals, Sequences

CONSTANTS
  Findings,
  MaxRuns,       \* bound: runs the user starts
  MaxRestores,   \* bound: registry backups the user restores
  MaxChanges,    \* bound: changes of the settings
  MaxOthers      \* bound: scans another process saves

ASSUME BoundsAssumption ==
  MaxRuns \in Nat /\ MaxRestores \in Nat /\ MaxChanges \in Nat /\ MaxOthers \in Nat

VARIABLES
  frame,       \* the step of the frame that comes next, "closed" after the last one
  dialog,      \* pending_confirm
  busy,        \* is_scanning, is_fixing
  token,       \* cancel_token
  task,        \* the engine's task and how it ended, until the window knows
  restoring,   \* is_restoring
  restores,    \* registry restores at work
  updating,    \* is_updating
  installs,    \* installations of an update at work
  notice,      \* available_update: with a download, or only the release page
  mail,        \* bg_rx
  restartInto, \* restart_into is set
  started,     \* whether the installed update was started
  quit,        \* should_quit, and what set it
  selected,    \* the findings a repair run would repair
  asked,       \* those it would when the window asked to go on without a restore point
  due,         \* something waits for a restart of Windows
  settings,    \* the settings, as the number of changes so far
  engine,      \* the settings the engine was built with
  count        \* what was used up of the bounds

runVars == <<busy, token, task>>
restoreVars == <<restoring, restores>>
updateVars == <<updating, installs, notice, restartInto, started>>
listVars == <<selected, due>>
settingVars == <<settings, engine>>
vars == <<frame, dialog, busy, token, task, restoring, restores, updating, installs, notice,
          mail, restartInto, started, quit, selected, asked, due, settings, engine, count>>

Dialogs == {"none", "rollback", "download", "page", "restart", "unregister", "norestore"}
Mail == {"download", "page", "installed", "failed", "restored"}
NoTask == [doing |-> "none", vss |-> FALSE, ends |-> "none"]

(* The parts of the state relate in the way the handlers rely on: a frame   *)
(* that finds a run in progress finds its token and its task, and the       *)
(* window knows of every restore and every installation at work.            *)
TypeOK ==
  /\ frame \in {"runs", "background", "restart", "poll", "keys", "closed"}
  /\ dialog \in Dialogs
  /\ busy \in {"no", "scan", "repair"} /\ token \in {"none", "set", "cancelled"}
  /\ task \in [doing : {"none", "work", "over"}, vss : BOOLEAN,
               ends : {"none", "completed", "cancelled", "missing"}]
  /\ (busy = "no") = (task = NoTask) /\ (busy = "no") = (token = "none")
  /\ (task.ends = "none") = (task.doing # "over")
  /\ restoring \in BOOLEAN /\ restores \in 0..MaxRestores /\ (restores > 0 => restoring)
  /\ updating \in BOOLEAN /\ installs \in Nat /\ (installs > 0 => updating)
  /\ notice \in {"none", "download", "page"}
  /\ mail \in Seq(Mail) /\ restartInto \in BOOLEAN
  /\ started \in {"no", "yes", "refused"}
  /\ quit \in {"no", "user", "update", "windows"}
  /\ selected \subseteq Findings /\ asked \subseteq Findings /\ due \in BOOLEAN
  /\ settings \in 0..MaxChanges /\ engine \in 0..settings
  /\ count \in [runs : 0..MaxRuns, restores : 0..MaxRestores, others : 0..MaxOthers]

(* WinMedicApp::new: the findings of the last scan, an engine built for the *)
(* settings, and the check for an update under way.                         *)
Init ==
  /\ frame = "runs" /\ dialog = "none"
  /\ busy = "no" /\ token = "none" /\ task = NoTask
  /\ restoring = FALSE /\ restores = 0
  /\ updating = FALSE /\ installs = 0 /\ notice = "none"
  /\ restartInto = FALSE /\ started = "no" /\ quit = "no"
  /\ mail \in {<<>>, <<"download">>, <<"page">>}
  /\ selected \in SUBSET Findings /\ asked = {} /\ due \in BOOLEAN
  /\ settings = 0 /\ engine = 0
  /\ count = [runs |-> 0, restores |-> 0, others |-> 0]

-----------------------------------------------------------------------------
(* The tasks.                                                               *)

(* run_scan or run_repairs has sent its last event. It stops early only     *)
(* when cancelled, or when there was to be a restore point and there is     *)
(* none.                                                                    *)
TaskEnds ==
  /\ frame # "closed" /\ task.doing = "work"
  /\ \E e \in {"completed"}
              \cup (IF token = "cancelled" THEN {"cancelled"} ELSE {})
              \cup (IF task.vss THEN {"missing"} ELSE {}) :
       task' = [task EXCEPT !.doing = "over", !.ends = e]
  /\ UNCHANGED <<frame, dialog, busy, token, restoreVars, updateVars, mail, quit, listVars,
                 asked, settingVars, count>>

RestoreEnds ==
  /\ frame # "closed" /\ restores > 0
  /\ restores' = restores - 1
  /\ mail' = Append(mail, "restored")
  /\ UNCHANGED <<frame, dialog, runVars, restoring, updateVars, quit, listVars, asked,
                 settingVars, count>>

InstallEnds ==
  /\ frame # "closed" /\ installs > 0
  /\ installs' = installs - 1
  /\ \E e \in {"installed", "failed"} : mail' = Append(mail, e)
  /\ UNCHANGED <<frame, dialog, runVars, restoreVars, updating, notice, restartInto, started,
                 quit, listVars, asked, settingVars, count>>

-----------------------------------------------------------------------------
(* process_background_events.                                               *)

NothingOver ==
  /\ frame = "runs" /\ task.doing # "over"
  /\ frame' = "background"
  /\ UNCHANGED <<dialog, runVars, restoreVars, updateVars, mail, quit, listVars, asked,
                 settingVars, count>>

(* Mutant: the token of a run stays behind when the run is over. *)
RunIsOverTokenStays ==
  /\ frame = "runs" /\ task.doing = "over"
  /\ frame' = "background"
  /\ busy' = "no" /\ task' = NoTask
  /\ UNCHANGED <<token, restoreVars, updateVars, mail, quit, settingVars, count>>

RunIsOver ==
  /\ frame = "runs" /\ task.doing = "over"
  /\ frame' = "background"
  /\ busy' = "no" /\ token' = "none" /\ task' = NoTask
  /\ UNCHANGED <<restoreVars, updateVars, mail, quit, settingVars, count>>

(* A scan replaces the findings; a run of repairs settles some of those it  *)
(* had, or lets them wait for a restart. Neither opens a dialog.            *)
ScanIsOver ==
  /\ RunIsOver /\ busy = "scan"
  /\ selected' \in SUBSET Findings /\ due' \in BOOLEAN
  /\ UNCHANGED <<dialog, asked>>

RepairsAreOver ==
  /\ RunIsOver /\ busy = "repair" /\ task.ends # "missing"
  /\ selected' \in SUBSET selected /\ due' \in {due, TRUE}
  /\ UNCHANGED <<dialog, asked>>

(* Whatever dialog was open then.                                           *)
RestorePointMissing ==
  /\ RunIsOver /\ task.ends = "missing"
  /\ dialog' = "norestore" /\ asked' = selected
  /\ UNCHANGED listVars

(* One event of the channel of the background tasks.                        *)
Receive ==
  /\ frame = "background" /\ mail # <<>>
  /\ mail' = Tail(mail)
  /\ UNCHANGED <<frame, dialog, runVars, restores, installs, started, quit, listVars, asked,
                 settingVars, count>>

UpdateChecked ==
  /\ Receive /\ Head(mail) \in {"download", "page"}
  /\ notice' = Head(mail)
  /\ UNCHANGED <<restoring, updating, restartInto>>

UpdateInstallFinished ==
  /\ Receive /\ Head(mail) \in {"installed", "failed"}
  /\ updating' = FALSE /\ notice' = "none"
  /\ restartInto' = (restartInto \/ Head(mail) = "installed")
  /\ UNCHANGED restoring

RollbackFinished ==
  /\ Receive /\ Head(mail) = "restored"
  /\ restoring' = FALSE
  /\ UNCHANGED <<updating, notice, restartInto>>

AllReceived ==
  /\ frame = "background" /\ mail = <<>>
  /\ frame' = "restart"
  /\ UNCHANGED <<dialog, runVars, restoreVars, updateVars, mail, quit, listVars, asked,
                 settingVars, count>>

(* restart_into_update_when_idle.                                           *)
MayRestart == busy = "no" /\ ~restoring /\ restartInto

(* Mutant: restart_into is taken before the window asks whether it may restart. *)
RestartIntoUpdateTaken ==
  /\ frame = "restart"
  /\ frame' = "poll"
  /\ restartInto' = FALSE
  /\ IF MayRestart
     THEN \/ started' = "yes" /\ quit' = "update"
          \/ started' = "refused" /\ UNCHANGED quit
     ELSE UNCHANGED <<started, quit>>
  /\ UNCHANGED <<dialog, runVars, restoreVars, updating, installs, notice, mail, listVars,
                 asked, settingVars, count>>

RestartIntoUpdate ==
  /\ frame = "restart"
  /\ frame' = "poll"
  /\ IF MayRestart
     THEN /\ restartInto' = FALSE
          /\ \/ started' = "yes" /\ quit' = "update"
             \/ started' = "refused" /\ UNCHANGED quit
     ELSE UNCHANGED <<restartInto, started, quit>>
  /\ UNCHANGED <<dialog, runVars, restoreVars, updating, installs, notice, mail, listVars,
                 asked, settingVars, count>>

(* logic, once a second: poll_external_scan_updates takes in what another   *)
(* process saved, unless a run is in progress. A minimised window goes on   *)
(* with the next frame: it gets no keys, is not drawn and so not closed.    *)
Poll ==
  /\ frame = "poll"
  /\ frame' \in {"keys", "runs"}
  /\ \/ UNCHANGED <<listVars, count>>
     \/ /\ busy = "no" /\ count.others < MaxOthers
        /\ count' = [count EXCEPT !.others = @ + 1]
        /\ selected' \in SUBSET Findings /\ due' \in BOOLEAN
  /\ UNCHANGED <<dialog, runVars, restoreVars, updateVars, mail, quit, asked, settingVars>>

-----------------------------------------------------------------------------
(* ui: keys and clicks. A pending dialog takes them all.                    *)

(* Mutant: a dialog does not take the keys. *)
FreeAnyTime == frame = "keys"

Free == frame = "keys" /\ dialog = "none"

StartTask(kind, vss) ==
  /\ busy = "no" /\ count.runs < MaxRuns
  /\ count' = [count EXCEPT !.runs = @ + 1]
  /\ busy' = kind /\ token' = "set"
  /\ task' = [doing |-> "work", vss |-> vss, ends |-> "none"]

(* The list is emptied until the scan reports.                              *)
StartScan ==
  /\ Free /\ StartTask("scan", FALSE)
  /\ selected' = {}
  /\ UNCHANGED <<frame, dialog, restoreVars, updateVars, mail, quit, asked, due, settingVars>>

(* Whether with a restore point is one of the settings, and not for a       *)
(* simulation.                                                              *)
StartRepairs ==
  /\ Free /\ selected # {} /\ \E vss \in BOOLEAN : StartTask("repair", vss)
  /\ UNCHANGED <<frame, dialog, restoreVars, updateVars, mail, quit, listVars, asked,
                 settingVars>>

CancelCurrentOperation ==
  /\ Free /\ token = "set"
  /\ token' = "cancelled"
  /\ UNCHANGED <<frame, dialog, busy, task, restoreVars, updateVars, mail, quit, listVars,
                 asked, settingVars, count>>

ToggleIssues ==
  /\ Free /\ selected' \in SUBSET Findings
  /\ UNCHANGED <<frame, dialog, runVars, restoreVars, updateVars, mail, quit, due, asked,
                 settingVars, count>>

Ask(d) ==
  /\ dialog' = d
  /\ UNCHANGED <<frame, runVars, restoreVars, updateVars, mail, quit, listVars, asked,
                 settingVars, count>>

RequestRollback ==
  /\ Free /\ busy = "no" /\ ~restoring /\ count.restores < MaxRestores
  /\ Ask("rollback")

(* Mutant: the notice can be opened again in the middle of the installation. *)
ShowUpdateNoticeAgain == Free /\ notice # "none" /\ Ask(notice)

(* "Reopening the dialog mid-install would offer to start a second          *)
(* download onto the same staging file."                                    *)
ShowUpdateNotice ==
  /\ Free /\ notice # "none" /\ ~updating
  /\ Ask(notice)

ShowRebootNotice ==
  /\ Free /\ busy = "no" /\ due
  /\ Ask("restart")

RequestUnregister == Free /\ Ask("unregister")

(* apply_config_change: a run in progress keeps its engine, and nothing     *)
(* builds another one later.                                                *)
ApplyConfigChange ==
  /\ Free /\ settings < MaxChanges
  /\ settings' = settings + 1
  /\ engine' = IF busy = "no" THEN settings' ELSE engine
  /\ UNCHANGED <<frame, dialog, runVars, restoreVars, updateVars, mail, quit, listVars, asked,
                 count>>

(* q, or the window's own button, which no dialog holds up.                 *)
Quit ==
  /\ frame = "keys"
  /\ quit' = "user"
  /\ UNCHANGED <<frame, dialog, runVars, restoreVars, updateVars, mail, listVars, asked,
                 settingVars, count>>

-----------------------------------------------------------------------------
(* The answer to the dialog.                                                *)

Answer(d) == frame = "keys" /\ dialog = d /\ dialog' = "none"

DismissConfirm ==
  /\ \E d \in Dialogs \ {"none"} : Answer(d)
  /\ asked' = {}
  /\ UNCHANGED <<frame, runVars, restoreVars, updateVars, mail, quit, listVars, settingVars,
                 count>>

ConfirmRollback ==
  /\ Answer("rollback")
  /\ restoring' = TRUE /\ restores' = restores + 1
  /\ count' = [count EXCEPT !.restores = @ + 1]
  /\ UNCHANGED <<frame, runVars, updateVars, mail, quit, listVars, asked, settingVars>>

(* start_update_install, or its fallback to the browser when the            *)
(* installation cannot even be planned.                                     *)
ConfirmDownload ==
  /\ Answer("download")
  /\ \/ updating' = TRUE /\ installs' = installs + 1 /\ UNCHANGED notice
     \/ notice' = "none" /\ UNCHANGED <<updating, installs>>
  /\ UNCHANGED <<frame, runVars, restoreVars, restartInto, started, mail, quit, listVars,
                 asked, settingVars, count>>

ConfirmPage ==
  /\ Answer("page")
  /\ notice' = "none"
  /\ UNCHANGED <<frame, runVars, restoreVars, updating, installs, restartInto, started, mail,
                 quit, listVars, asked, settingVars, count>>

(* shutdown /r /t 0.                                                        *)
ConfirmRestart ==
  /\ Answer("restart")
  /\ \/ quit' = "windows"
     \/ UNCHANGED quit
  /\ UNCHANGED <<frame, runVars, restoreVars, updateVars, mail, listVars, asked, settingVars,
                 count>>

ConfirmUnregister ==
  /\ Answer("unregister")
  /\ UNCHANGED <<frame, runVars, restoreVars, updateVars, mail, quit, listVars, asked,
                 settingVars, count>>

(* start_repairs_without_restore_point, which may find nothing selected.    *)
ConfirmNoRestorePoint ==
  /\ Answer("norestore")
  /\ asked' = {}
  /\ \/ selected # {} /\ StartTask("repair", FALSE)
     \/ (selected = {} \/ busy # "no") /\ UNCHANGED <<runVars, count>>
  /\ UNCHANGED <<frame, restoreVars, updateVars, mail, quit, listVars, settingVars>>

-----------------------------------------------------------------------------
EndFrame ==
  /\ frame = "keys"
  /\ frame' = IF quit = "no" THEN "runs" ELSE "closed"
  /\ UNCHANGED <<dialog, runVars, restoreVars, updateVars, mail, quit, listVars, asked,
                 settingVars, count>>

Logic ==
  \/ NothingOver \/ ScanIsOver \/ RepairsAreOver \/ RestorePointMissing
  \/ UpdateChecked \/ UpdateInstallFinished \/ RollbackFinished \/ AllReceived
  \/ RestartIntoUpdate \/ Poll

Keys ==
  \/ StartScan \/ StartRepairs \/ CancelCurrentOperation \/ ToggleIssues
  \/ RequestRollback \/ ShowUpdateNotice \/ ShowRebootNotice \/ RequestUnregister
  \/ ApplyConfigChange \/ Quit
  \/ DismissConfirm \/ ConfirmRollback \/ ConfirmDownload \/ ConfirmPage \/ ConfirmRestart
  \/ ConfirmUnregister \/ ConfirmNoRestorePoint

Next ==
  \/ TaskEnds \/ RestoreEnds \/ InstallEnds
  \/ Logic \/ Keys \/ EndFrame

(* Frames follow each other - a window that is idle repaints once a second, *)
(* minimised or not - and tasks end: scans and repairs do by ScanRun and    *)
(* RepairRun, reg.exe and the download have time limits.                    *)
Fairness ==
  /\ WF_vars(Logic) /\ WF_vars(EndFrame)
  /\ WF_vars(TaskEnds) /\ WF_vars(RestoreEnds) /\ WF_vars(InstallEnds)

Spec == Init /\ [][Next]_vars /\ Fairness

-----------------------------------------------------------------------------
(* Properties                                                               *)

(* A restart of Windows and a registry restore are asked for while nothing  *)
(* runs and done when the answer comes, frames later: no scan or repair has *)
(* a task then, not even one whose end the window has yet to hear of, and   *)
(* no other restore is at work (confirm_pending_action asks nothing again;  *)
(* it relies on what show_reboot_notice and request_rollback asked, and on  *)
(* every other way to start a run being shut while a dialog is open).       *)
AnsweredWhenIdle ==
  [][/\ quit' = "windows" /\ quit # "windows" => task.doing = "none"
     /\ restores' > restores => task.doing = "none" /\ restores = 0]_vars

(* Two installations never write the same staging file: the notice stays    *)
(* parked while the first one downloads, its dialog may have been closed    *)
(* and asked for again, and the end of the first is still in the channel    *)
(* (show_update_notice).                                                    *)
OneInstall == installs <= 1

(* WinMedic starts an update itself only while no run, no restore and no    *)
(* other installation is at work in the window it is about to close; what   *)
(* the keys of the same frame still start is NothingCutByUpdate             *)
(* (restart_into_update_when_idle).                                         *)
StartedWhenIdle ==
  [][started' = "yes" /\ started # "yes"
       => task.doing = "none" /\ restores = 0 /\ installs = 0]_vars

(* What ends a run or a restore in its middle - a restart of Windows, the   *)
(* window that closes for an update - or writes under one - a restore of    *)
(* the registry - is done only while nothing is at work.                    *)
OnlyWhenIdle == AnsweredWhenIdle /\ StartedWhenIdle

(* "WinMedic then starts the new version and closes itself": an installed   *)
(* update is started, or said not to start, also when runs, restores and    *)
(* dialogs were in the way when its installation ended - as long as the     *)
(* user at some time stops starting runs and leaves the window open.        *)
UpdateIsStarted == restartInto ~> (started # "no" \/ frame = "closed")

(* "A scan or repair still running is finished first"                       *)
(* (docs/how-it-works.md:89): when WinMedic closes for an update and nobody *)
(* else asked it to close, nothing is running.                              *)
NothingCutByUpdate ==
  frame = "closed" /\ quit = "update" => task.doing # "work" /\ restores = 0

(* "rebuild the engine so modules pick up new thresholds on the next scan"  *)
(* (app/settings.rs:163): a scan runs with the settings shown when it was   *)
(* started.                                                                 *)
NextScanUsesSettings ==
  [][busy = "no" /\ busy' = "scan" => engine = settings]_vars

(* "Repair the same selection again, without the restore point Windows      *)
(* would not create; the user said yes to that" (app/run_control.rs:63):    *)
(* the answer starts a run for what was selected when the window asked.     *)
SameSelectionAgain ==
  [][dialog = "norestore" /\ task.doing = "none" /\ task'.doing = "work"
       => selected = asked]_vars

=============================================================================
