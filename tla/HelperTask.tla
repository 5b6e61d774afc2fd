----------------------------- MODULE HelperTask -----------------------------
(***************************************************************************)
(* The scheduled task WinMedicHelper (utils/background_task.rs) and what   *)
(* keeps it in line with its setting: the settings page and the Unregister *)
(* dialog of an open window, its start, an update that renames the         *)
(* executable, --uninstall, and the helper that the task starts. The       *)
(* window works on its own copy of the settings; schtasks and each save    *)
(* may fail.                                                               *)
(***************************************************************************)
EXTENDS Naturals

CONSTANTS
  Exes,         \* where winmedic.exe may be, or how it may be named
  Frequencies,
  Slips,        \* "beside": --uninstall runs beside an open window;
                \* "name": the executable's name cannot be compared with the task
  MaxChanges    \* bound on what the user does

HelperTaskAssumption == MaxChanges \in Nat

NoTask == [exe |-> "nowhere", frequency |-> 0, highest |-> FALSE]
Task(e, f) == [exe |-> e, frequency |-> f, highest |-> TRUE]
Defaults == [on |-> FALSE, frequency |-> CHOOSE f \in Frequencies : TRUE]
Settings == [on : BOOLEAN, frequency : Frequencies]

VARIABLES
  task,        \* the registered task
  config,      \* config.json: the settings, and whether it can be read
  pane,        \* the window: whether it is open, its settings, its executable
  exe,         \* the executable there is
  adminOnly,   \* the executables only administrators can change
  warned,      \* history: the user was told that the task is not as it should be
  off,         \* history: the user turned the scan off, and was not told it stays on
  tally        \* scans of the helper, and changes

vars == <<task, config, pane, exe, adminOnly, warned, off, tally>>

Closed == [open |-> FALSE, settings |-> Defaults, exe |-> CHOOSE e \in Exes : TRUE]
File(settings) == [settings |-> settings, readable |-> TRUE]

(* An older WinMedic may have left a task with limited rights.             *)
Init ==
  /\ exe \in Exes
  /\ adminOnly \in SUBSET Exes
  /\ \E s \in Settings :
       /\ config = File(s)
       /\ task \in {NoTask, Task(exe, s.frequency),
                    [exe |-> exe, frequency |-> s.frequency, highest |-> FALSE]}
  /\ pane = Closed
  /\ warned = FALSE /\ off = FALSE /\ tally = [scans |-> 0, changes |-> 0]

Changes == tally.changes < MaxChanges /\ tally' = [tally EXCEPT !.changes = @ + 1]

---------------------------------------------------------------------------
(* What schtasks may leave: the task, and whether an error came back.      *)

(* register_helper_task: only an executable that only administrators can   *)
(* change, and that is there: the window's own may have been renamed.      *)
RegisterThere(e, f) ==
  {[task |-> task, error |-> TRUE]} \cup
  (IF e \in adminOnly THEN {[task |-> Task(e, f), error |-> FALSE]} ELSE {})

Register(e, f) == IF e = exe THEN RegisterThere(e, f) ELSE {[task |-> task, error |-> TRUE]}

(* delete_helper_task: a query that fails counts as no task.               *)
Delete ==
  {[task |-> NoTask, error |-> FALSE], [task |-> task, error |-> FALSE]} \cup
  (IF task # NoTask THEN {[task |-> task, error |-> TRUE]} ELSE {})

Sync(on, f, e) == IF on THEN Register(e, f) ELSE Delete

(* task_runs: the schedule is not compared.                                *)
Current(e) == task # NoTask /\ task.highest /\ (task.exe = e \/ "name" \in Slips)

(* reconcile: the task is repaired and, but for an executable others can   *)
(* change, never removed. It is asked of an executable that is there.      *)
Reconcile(settings, e) ==
  IF ~settings.on THEN {[task |-> task, error |-> FALSE, done |-> FALSE]}
  ELSE IF e \notin adminOnly THEN {[task |-> d.task, error |-> TRUE, done |-> TRUE] : d \in Delete}
  ELSE {[task |-> r.task, error |-> r.error, done |-> TRUE] :
          r \in RegisterThere(e, settings.frequency)} \cup
       {[task |-> task, error |-> FALSE, done |-> FALSE]}

(* A report stands until the task is registered anew, for settings that    *)
(* are saved.                                                              *)
Reconciled(settings, e) ==
  \E r \in Reconcile(settings, e) :
    /\ ~r.done => ~settings.on \/ Current(e)
    /\ task' = r.task
    /\ warned' = (r.error \/ (warned /\ ~(r.done /\ config = File(settings))))

(* Whether a save worked decides what the file holds.                      *)
Save(settings, saved) == config' = IF saved THEN File(settings) ELSE config

---------------------------------------------------------------------------
(* The window.                                                             *)

(* load_reporting takes a file it cannot read away.                        *)
Loaded == IF config.readable THEN config.settings ELSE Defaults

OpenWindow ==
  /\ ~pane.open
  /\ pane' = [open |-> TRUE, settings |-> Loaded, exe |-> exe]
  /\ config' = IF config.readable THEN config ELSE File(Defaults)
  /\ Reconciled(Loaded, exe)
  /\ UNCHANGED <<exe, adminOnly, off, tally>>

CloseWindow ==
  /\ pane.open
  /\ pane' = Closed
  /\ UNCHANGED <<task, config, exe, adminOnly, warned, off, tally>>

(* apply_config_change for the switch: a background scan that could not be *)
(* set up is off, and the setting says so.                                 *)
Toggle ==
  /\ pane.open /\ Changes
  /\ LET s == [pane.settings EXCEPT !.on = ~@]
     IN  \E saved \in BOOLEAN, r \in Sync(s.on, s.frequency, pane.exe) :
           /\ task' = r.task
           /\ IF s.on /\ r.error
              THEN /\ pane' = [pane EXCEPT !.settings.on = FALSE]
                   /\ \E again \in BOOLEAN :
                        /\ config' = IF again THEN File(pane'.settings)
                                     ELSE IF saved THEN File(s) ELSE config
                        /\ off' = again
                   /\ warned' = TRUE
              ELSE /\ pane' = [pane EXCEPT !.settings = s]
                   /\ Save(s, saved)
                   /\ off' = (~s.on /\ saved)
                   /\ warned' = (r.error \/ ~saved)
  /\ UNCHANGED <<exe, adminOnly>>

(* ... and for the frequency.                                              *)
SetFrequency(f) ==
  /\ pane.open /\ f # pane.settings.frequency /\ Changes
  /\ LET s == [pane.settings EXCEPT !.frequency = f]
     IN  \E saved \in BOOLEAN :
           /\ Save(s, saved)
           /\ pane' = [pane EXCEPT !.settings = s]
           /\ IF s.on THEN \E r \in Register(pane.exe, f) :
                             task' = r.task /\ warned' = (r.error \/ ~saved)
              ELSE task' = task /\ warned' = (warned \/ ~saved)
  /\ UNCHANGED <<exe, adminOnly, off>>

(* Any other setting saves the window's copy of all of them.               *)
OtherSetting ==
  /\ pane.open /\ Changes
  /\ \E saved \in BOOLEAN : Save(pane.settings, saved)
  /\ UNCHANGED <<task, pane, exe, adminOnly, warned, off>>

(* unregister_from_windows                                                 *)
Unregister ==
  /\ pane.open /\ Changes
  /\ pane' = [pane EXCEPT !.settings.on = FALSE]
  /\ \E r \in Delete : task' = r.task
  /\ \E saved \in BOOLEAN : Save(pane'.settings, saved) /\ off' = saved
  /\ UNCHANGED <<exe, adminOnly, warned>>

(* An update renames the executable; the window runs on until it is idle.  *)
Renamed(e) ==
  /\ pane.open /\ pane.exe = exe /\ e # exe /\ Changes
  /\ (e \in adminOnly) = (exe \in adminOnly)
  /\ exe' = e
  /\ Reconciled(pane.settings, e)
  /\ UNCHANGED <<config, pane, adminOnly, off>>

---------------------------------------------------------------------------
(* What happens without the window.                                        *)

(* --uninstall, with --purge the settings too.                             *)
Uninstall ==
  /\ ~pane.open \/ "beside" \in Slips
  /\ Changes
  /\ \E r \in Delete : task' = r.task
  /\ \E saved \in BOOLEAN, s \in {Defaults, [Loaded EXCEPT !.on = FALSE]} :
       /\ config' = IF saved THEN File(s) ELSE IF config.readable THEN config ELSE File(Defaults)
       /\ off' = saved
  /\ UNCHANGED <<pane, exe, adminOnly, warned>>

(* The user moves winmedic.exe, or breaks the settings in an editor.       *)
Moved(e) ==
  /\ ~pane.open /\ e # exe /\ Changes
  /\ exe' = e
  /\ UNCHANGED <<task, config, pane, adminOnly, warned, off>>

EditByHand ==
  /\ ~pane.open /\ Changes
  /\ config' = [config EXCEPT !.readable = FALSE]
  /\ UNCHANGED <<task, pane, exe, adminOnly, warned, off>>

(* Whether a helper scans. Mutant: whatever the setting.                   *)
HelperScansAnyway(e) == e \in adminOnly
HelperScans(e) == Loaded.on /\ e \in adminOnly

(* The task starts what it names, if that is there and Windows lets it; a  *)
(* helper whose executable others can change takes the task out.           *)
TaskFires ==
  /\ task # NoTask /\ task.highest /\ task.exe = exe
  /\ config' = IF config.readable THEN config ELSE File(Defaults)
  /\ \/ /\ HelperScans(exe) /\ tally.scans < 1
        /\ tally' = [tally EXCEPT !.scans = @ + 1]
        /\ UNCHANGED task
     \/ /\ ~HelperScans(exe)
        /\ IF Loaded.on THEN \E r \in Delete : task' = r.task ELSE task' = task
        /\ UNCHANGED tally
  /\ UNCHANGED <<pane, exe, adminOnly, warned, off>>

Next ==
  \/ OpenWindow
  \/ CloseWindow
  \/ Toggle
  \/ \E f \in Frequencies : SetFrequency(f)
  \/ OtherSetting
  \/ Unregister
  \/ \E e \in Exes : Renamed(e)
  \/ Uninstall
  \/ \E e \in Exes : Moved(e)
  \/ EditByHand
  \/ TaskFires

Spec == Init /\ [][Next]_vars

---------------------------------------------------------------------------
(* Once the user has turned the background scan off and was not told that  *)
(* this failed, nothing scans until it is turned on again ("must not go on *)
(* scanning behind the user's back", main.rs), whatever became of the      *)
(* task. While a window shows the scan as on and has reported no problem   *)
(* with it, the task starts the executable that is there, as often as the  *)
(* window says and with the rights it needs.                               *)
TaskFollowsSetting ==
  /\ [](pane.open /\ pane.settings.on /\ pane.exe = exe /\ ~warned =>
          task = Task(exe, pane.settings.frequency))
  /\ [][tally'.scans # tally.scans => ~off /\ exe \in adminOnly]_vars
=============================================================================
