------------------------------ MODULE Upkeep ------------------------------
(***************************************************************************)
(* What runs by itself: scheduled tasks (modules/scheduled_tasks.rs) and   *)
(* Windows Update (modules/windows_updates.rs, but for how its repairs     *)
(* stop and start services, which is in ServiceRepairs).                   *)
(***************************************************************************)
EXTENDS Fixes

Parts == {"tasks", "updates", "updateservice", "reboot"}

---------------------------------------------------------------------------
(* A task of Windows, one of Office and another, each with its program and *)
(* what its last run returned. A program is named by a variable that is    *)
(* not set here, or lies elsewhere: on another than a fixed drive or in    *)
(* PATH. 1056 of sc.exe is a success. Which tasks the findings are about   *)
(* is known as long as the module lives.                                   *)

TaskOwners == {"windows", "office", "other"}
TaskStates ==
  [program : {"there", "missing", "unset", "elsewhere"}, failed : BOOLEAN, enabled : BOOLEAN]
ATask == [program |-> "there", failed |-> FALSE, enabled |-> TRUE]

(* What two of them do says nothing of each other: one is not in order.    *)
Tasks ==
  {s \in [TaskOwners -> TaskStates] :
     Cardinality({t \in TaskOwners : s[t] # ATask}) <= 1}

(* expand_env_vars leaves an unset variable standing: no absolute path.    *)
Absolute(program) == program \notin {"unset", "elsewhere"}
MissingTarget(program) == Absolute(program) /\ program # "there"

Orphaned(s, t) == s[t].enabled /\ MissingTarget(s[t].program)
Failing(s, t) == s[t].enabled /\ s[t].failed /\ ~MissingTarget(s[t].program)

TaskFindings(s, answered) ==
  IF "inventory" \notin answered THEN {}
  ELSE {<<"orphaned", t>> : t \in {u \in TaskOwners : Orphaned(s, u)}}
       \cup {<<"failing", t>> : t \in {u \in TaskOwners : Failing(s, u)}}

(* A finding an older WinMedic saved may still ask for a task of Windows.  *)
LeftToItsOwner(f) == f[2] = "windows" \/ f = <<"failing", "office">>

(* Asked again when the module is a new one. A task that refuses stays as  *)
(* it is; one whose state is not reported afterwards counts as disabled.   *)
DisableTask(f) ==
  \/ At("begin") /\ (Go("known") \/ Return("unchanged"))
  \/ At("known") /\ LeftToItsOwner(f) /\ Return("unchanged")
  \/ /\ At("known") /\ ~LeftToItsOwner(f)
     /\ LET s == With(f[2], [setting[f[2]] EXCEPT !.enabled = FALSE])
        IN  \/ \E t \in {s, setting} : End(t, saved, "failed")
            \/ End(s, saved, "done")
            \/ \E t \in {s, setting} : End(t, saved, "unproved")

---------------------------------------------------------------------------
(* Windows Update's events, oldest first: updates installed, and updates   *)
(* that failed, the one for a reason WinMedic names and the other not.     *)

Cause == [known |-> "advice", unknown |-> "reset"]
Updates == [log : [1..4 -> {"nothing", "installed", "known", "unknown"}],
            folders : {"old"}]

(* failing_updates: at least twice since the last install.                 *)
SinceInstall(log) ==
  {i \in DOMAIN log : \A j \in DOMAIN log : j >= i => log[j] # "installed"}

FailingUpdates(log) ==
  {u \in DOMAIN Cause : Cardinality({i \in SinceInstall(log) : log[i] = u}) >= 2}

UpdateFindings(s, answered) ==
  IF "events" \in answered THEN {Cause[u] : u \in FailingUpdates(s.log)} ELSE {}

(* The reset renames two folders while the services are stopped; when the  *)
(* second one refuses, the first is named back, if that works.             *)
ResetComponents ==
  \/ ~config.auto_restart_services /\ Return("unchanged")
  \/ /\ config.auto_restart_services
     /\ \/ At("begin") /\ (Go("rename") \/ Return("unchanged"))
        \/ At("rename") /\ Step(With("folders", "half"), saved, "second", {})
        \/ At("rename") /\ Return("failed")
        \/ At("second") /\ Step(With("folders", "new"), saved, "start", {})
        \/ At("second") /\ (\E f \in {"old", "half"} : End(With("folders", f), saved, "failed"))
        \/ At("start") /\ (Return("done") \/ Return("failed"))

(* The next month's update is installed.                                   *)
NextUpdate(s) == [s EXCEPT !.log = [i \in 1..4 |-> IF i < 4 THEN s.log[i + 1] ELSE "installed"]]

---------------------------------------------------------------------------
(* One of the three services Windows Update needs.                         *)

UpdateService == [start : {"disabled", "manual", "auto"}, running : BOOLEAN]

ServiceDisabled(s, answered) == Finding("service", answered # {} /\ s.start = "disabled")

EnableUpdateService ==
  \/ At("begin") /\ Command(With("start", "manual"), "read")
  \/ At("read") /\ NoAnswer
  \/ At("read") /\ setting.start = "disabled" /\ Return("failed")
  \/ At("read") /\ setting.start # "disabled"
     /\ IF config.auto_restart_services THEN Go("net") ELSE Return("done")
  \/ At("net") /\ Ignored(With("running", setting.running \/ setting.start # "disabled"), "state")
  \/ At("state") /\ Return("done")

---------------------------------------------------------------------------
(* The restart Windows waits for: the CBS key, gone, empty or with work in *)
(* it, the flag of Windows Update, and renames an installer has queued.    *)

Reboot == [cbs : {"gone", "empty", "work"}, wu : BOOLEAN, renames : BOOLEAN]

PendingReboot(s, answered) == Finding("reboot", s.cbs = "work" \/ s.wu)

(* A start takes up the work; the key and odd renames may stay for good.   *)
Booted(s) == [s EXCEPT !.cbs = IF @ = "gone" THEN "gone" ELSE "empty", !.wu = FALSE]

---------------------------------------------------------------------------
Begin(p) ==
  CASE p = "tasks" -> Tasks
    [] p = "updates" -> Updates
    [] p = "updateservice" -> UpdateService
    [] p = "reboot" -> Reboot

(* A reset is proved by the next update that installs.                     *)
About(p) ==
  CASE p = "tasks" -> [AnyPart EXCEPT !.queries = {"inventory"}]
    [] p = "updates" -> [AnyPart EXCEPT
         !.queries = {"events"}, !.advice = {"advice"}, !.restart = {"reset"}]
    [] p = "updateservice" -> [AnyPart EXCEPT !.queries = {"sc"}]
    [] p = "reboot" -> [AnyPart EXCEPT !.advice = {"reboot"}, !.restart = {"reboot"}]

Findings(p, s, answered) ==
  CASE p = "tasks" -> TaskFindings(s, answered)
    [] p = "updates" -> UpdateFindings(s, answered)
    [] p = "updateservice" -> ServiceDisabled(s, answered)
    [] p = "reboot" -> PendingReboot(s, answered)

Restarted(p, s) ==
  CASE p = "updates" -> NextUpdate(s)
    [] p = "reboot" -> Booted(s)
    [] OTHER -> s

(* The program of a task is put back or removed, or the task switched off; *)
(* the start type of the service is put right.                             *)
Elsewhere(p, s) ==
  CASE p = "tasks" ->
         UNION {{[s EXCEPT ![f[2]].program = g] : g \in {"there", "missing"}}
                \cup {[s EXCEPT ![f[2]].enabled = FALSE]} : f \in reported}
    [] p = "updateservice" -> {[s EXCEPT !.start = "auto"]}
    [] OTHER -> {}

(* A task is named by its finding; a reset leaves the log alone.           *)
Touches(p, f) ==
  CASE p = "tasks" -> IF LeftToItsOwner(f) THEN {} ELSE {f[2]}
    [] p = "updates" -> {"folders"}
    [] p = "updateservice" -> {"start", "running"}

Fix(f) ==
  CASE part = "tasks" -> DisableTask(f)
    [] part = "updates" -> ResetComponents
    [] part = "updateservice" -> EnableUpdateService
    [] part = "reboot" -> FALSE
===========================================================================
