----------------------------- MODULE Operations -----------------------------
(***************************************************************************)
(* What WinMedic does besides scans and repairs: the run without a window, *)
(* the scheduled task of the helper, the request for a restore point, the  *)
(* search for what keeps a service from starting, the commands all of them *)
(* run, and the installation of an update. They share no state, so a       *)
(* behaviour is about one of them, and the others stay as they begin.      *)
(***************************************************************************)
EXTENDS Integers, Sequences

CONSTANTS
  Subjects,                                            \* which of the six
  Problems,                                            \* Headless
  Exes, Frequencies, Slips, MaxChanges,                \* HelperTask
  Requesters, MaxPoints, MaxRequests,                  \* RestorePoints
  Services, Driver, MaxDepth, MaxDependencies,         \* ServiceChains
  Queries, Heavy, Plain, Slots, Gaps,                  \* Commands
  Windows, Lapses, Attempts, MaxInstalls, MaxStarts    \* SelfUpdate

VARIABLES
  subject,
  args, profile, machine, archived, run, list, printed, lastScan, touched,
  task, config, pane, exe, adminOnly, warned, off, tally,
  points, highest, limit, limitWas, strayed, protection, script, requests,
  depends, state, unanswered, asked, pending, chains,
  call, command, queue, holds, earlier, alive,
  disk, renames, at, image, holder, goal, start, counts

H == INSTANCE Headless
T == INSTANCE HelperTask
R == INSTANCE RestorePoints
S == INSTANCE ServiceChains
C == INSTANCE Commands
U == INSTANCE SelfUpdate

ASSUME OperationsAssumption ==
  /\ T!HelperTaskAssumption /\ R!RestorePointsAssumption /\ S!ServiceChainsAssumption
  /\ C!CommandsAssumption /\ U!SelfUpdateAssumption

headlessVars == <<args, profile, machine, archived, run, list, printed, lastScan, touched>>
taskVars == <<task, config, pane, exe, adminOnly, warned, off, tally>>
pointVars == <<points, highest, limit, limitWas, strayed, protection, script, requests>>
chainVars == <<depends, state, unanswered, asked, pending, chains>>
commandVars == <<call, command, queue, holds, earlier, alive>>
updateVars == <<disk, renames, at, image, holder, goal, start, counts>>
vars == <<subject, headlessVars, taskVars, pointVars, chainVars, commandVars, updateVars>>

(* How the modules begin that a behaviour is not about.                    *)
NoRun ==
  /\ args = [mode |-> "scan", json |-> FALSE, helper |-> FALSE, vss |-> FALSE, on |-> TRUE]
  /\ profile = [p \in Problems |-> CHOOSE f \in H!Profiles : TRUE]
  /\ machine = {} /\ archived = {}
NoHelper ==
  /\ exe = (CHOOSE e \in Exes : TRUE) /\ adminOnly = {}
  /\ config = T!File(T!Defaults) /\ task = T!NoTask
NoRequest ==
  /\ points = {} /\ limit = R!Unset
  /\ protection = [on |-> FALSE, canBeOn |-> FALSE]
NoSearch ==
  /\ depends = [s \in Services |-> {}] /\ state = [s \in Services |-> "failed"]
  /\ unanswered = {} /\ asked = S!Everything

Init ==
  /\ subject \in Subjects
  /\ IF subject = "run" THEN TRUE ELSE NoRun
  /\ IF subject = "task" THEN TRUE ELSE NoHelper
  /\ IF subject = "restore point" THEN TRUE ELSE NoRequest
  /\ IF subject = "chains" THEN TRUE ELSE NoSearch
  /\ IF subject = "update" THEN TRUE ELSE renames = FALSE
  /\ H!Init /\ T!Init /\ R!Init /\ S!Init /\ C!Init /\ U!Init

Next ==
  \/ subject = "run" /\ H!Next
     /\ UNCHANGED <<subject, taskVars, pointVars, chainVars, commandVars, updateVars>>
  \/ subject = "task" /\ T!Next
     /\ UNCHANGED <<subject, headlessVars, pointVars, chainVars, commandVars, updateVars>>
  \/ subject = "restore point" /\ R!Next
     /\ UNCHANGED <<subject, headlessVars, taskVars, chainVars, commandVars, updateVars>>
  \/ subject = "chains" /\ S!Next
     /\ UNCHANGED <<subject, headlessVars, taskVars, pointVars, commandVars, updateVars>>
  \/ subject = "commands" /\ C!Next
     /\ UNCHANGED <<subject, headlessVars, taskVars, pointVars, chainVars, updateVars>>
  \/ subject = "update" /\ U!Next
     /\ UNCHANGED <<subject, headlessVars, taskVars, pointVars, chainVars, commandVars>>

(* The search, the calls and the sweep of a start go on; see the modules.  *)
Fairness == WF_chainVars(subject = "chains" /\ S!Next) /\ C!Fairness /\ U!Fairness

Spec == Init /\ [][Next]_vars /\ Fairness

---------------------------------------------------------------------------
(* Headless: what the exit code, the document and the saved scan of a run  *)
(* tell a script holds of the machine.                                     *)
RunIsToldTruly == H!RunIsToldTruly

(* HelperTask: the task is as the window shows it, and nothing scans once  *)
(* the user has turned the background scan off.                            *)
TaskFollowsSetting == T!TaskFollowsSetting

(* RestorePoints: what counts as protection is a new restore point, and    *)
(* the limit on them is put back, with the exceptions named there.         *)
ProtectedMeansNew == R!ProtectedMeansNew

(* ServiceChains: every service that failed because of a device is told,   *)
(* once, and along services that do not run.                               *)
EveryCauseIsTold == subject = "chains" => S!EveryCauseIsTold

(* Commands: no command runs on that WinMedic gave up or that has to end   *)
(* with it.                                                                *)
NothingLeftBehind == [][C!NothingLeftBehind']_commandVars

(* SelfUpdate: whenever an update fails, and whatever other starts sweep,  *)
(* there is a WinMedic, verified or the one that was there before, and the *)
(* failed installation leaves nothing behind.                              *)
UpdateIsSafe == [][U!NeverWithoutWinMedic']_updateVars /\ U!FailsCleanly

(* Every call of a command comes back, whatever the command does, and what *)
(* an update replaced is deleted by a start of the new version (the calls  *)
(* of Commands, the sweep of SelfUpdate).                                  *)
WhatIsBegunEnds == C!CallsEnd /\ U!RetiredGoes
=============================================================================
