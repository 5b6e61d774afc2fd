--------------------------- MODULE SessionProofs ---------------------------
(***************************************************************************)
(* Theorems about Session, for any findings and any bounds: what a dialog  *)
(* asked for while nothing ran is done while nothing runs, one update is   *)
(* installed at a time, and it is started while nothing is at work.        *)
(***************************************************************************)
EXTENDS Session, TLAPS

Checked == {"download", "page"}
InstallEnd == {"installed", "failed"}
RestoreEnd == {"restored"}

(* Of one sort of task at most one is between its start and the moment the *)
(* window takes in its end: n are at work, m holds the ends on their way.  *)
OneOpen(n, open, ends, m) ==
  /\ n \in 0..1 /\ (n = 1 => open)
  /\ \A i \in 1..Len(m) : m[i] \in ends => open /\ n = 0
  /\ \A i, j \in 1..Len(m) : m[i] \in ends /\ m[j] \in ends => i = j

(* The answer to the check for an update has not come yet.                 *)
Unanswered == notice = "none" /\ ~updating /\ ~restartInto

Tasks ==
  /\ OneOpen(restores, restoring, RestoreEnd, mail)
  /\ OneOpen(installs, updating, InstallEnd, mail)
  /\ OneOpen(0, Unanswered, Checked, mail)

(* What a dialog that is open needed when it was asked for still holds.    *)
Asked ==
  /\ dialog \in {"rollback", "restart"} => busy = "no"
  /\ dialog = "rollback" => ~restoring /\ count.restores < MaxRestores
  /\ dialog = "download" => notice = "download" /\ ~updating

(* An update that waits to be started was the last to be installed.        *)
Installed == restartInto => ~updating /\ notice = "none"

IInv == TypeOK /\ Tasks /\ Asked /\ Installed

-----------------------------------------------------------------------------
(* The channel: an event is sent, taken in, or a task is started.          *)
LEMMA OtherSent ==
  ASSUME NEW n, NEW open, NEW ends, NEW m \in Seq(Mail), NEW e \in Mail \ ends,
         OneOpen(n, open, ends, m)
  PROVE  OneOpen(n, open, ends, Append(m, e))
BY DEF OneOpen

LEMMA EndSent ==
  ASSUME NEW n, NEW open, NEW ends, NEW m \in Seq(Mail), NEW e \in Mail,
         n > 0, OneOpen(n, open, ends, m)
  PROVE  n - 1 = 0 /\ OneOpen(n - 1, open, ends, Append(m, e))
BY DEF OneOpen

LEMMA TailOfMail ==
  ASSUME NEW m \in Seq(Mail), m # <<>>
  PROVE  /\ Tail(m) \in Seq(Mail) /\ Len(Tail(m)) = Len(m) - 1
         /\ Len(m) \in Nat \ {0} /\ Head(m) = m[1] /\ Head(m) \in Mail
         /\ \A i \in 1..Len(m) - 1 : Tail(m)[i] = m[i + 1]
OBVIOUS

LEMMA OtherTakenIn ==
  ASSUME NEW n, NEW open, NEW ends, NEW m \in Seq(Mail), m # <<>>,
         OneOpen(n, open, ends, m)
  PROVE  OneOpen(n, open, ends, Tail(m))
<1>1. \A i \in 1..Len(Tail(m)) : i + 1 \in 1..Len(m) /\ Tail(m)[i] = m[i + 1]
  BY TailOfMail
<1> QED BY <1>1 DEF OneOpen

(* When the end that was awaited is taken in, nothing of its sort is left. *)
LEMMA EndTakenIn ==
  ASSUME NEW n, NEW open, NEW ends, NEW m \in Seq(Mail), m # <<>>,
         Head(m) \in ends, OneOpen(n, open, ends, m)
  PROVE  open /\ n = 0 /\ \A o : OneOpen(n, o, ends, Tail(m))
<1>1. 1 \in 1..Len(m) /\ m[1] \in ends
  BY TailOfMail
<1>2. open /\ n = 0
  BY <1>1 DEF OneOpen
<1>3. \A i \in 1..Len(Tail(m)) : i + 1 \in 1..Len(m) /\ Tail(m)[i] = m[i + 1] /\ i + 1 # 1
  BY TailOfMail
<1>4. \A i \in 1..Len(Tail(m)) : Tail(m)[i] \notin ends
  BY <1>1, <1>3 DEF OneOpen
<1> QED BY <1>2, <1>4 DEF OneOpen

LEMMA Started ==
  ASSUME NEW n, NEW open, NEW ends, NEW m \in Seq(Mail), ~open, OneOpen(n, open, ends, m)
  PROVE  n = 0 /\ OneOpen(n + 1, TRUE, ends, m) /\ \A o : OneOpen(n, o, ends, m)
BY DEF OneOpen

-----------------------------------------------------------------------------
(* The tasks in the background, by what a step does to them.               *)
LEMMA TasksKept ==
  ASSUME Tasks, UNCHANGED <<restoreVars, updateVars, mail>>
  PROVE  Tasks'
BY DEF Tasks, Unanswered, restoreVars, updateVars

(* The parts of TypeOK.                                                    *)
WindowOK ==
  /\ frame \in {"runs", "background", "restart", "poll", "keys", "closed"}
  /\ dialog \in Dialogs /\ quit \in {"no", "user", "update", "windows"}
RunOK ==
  /\ busy \in {"no", "scan", "repair"} /\ token \in {"none", "set", "cancelled"}
  /\ task \in [doing : {"none", "work", "over"}, vss : BOOLEAN,
               ends : {"none", "completed", "cancelled", "missing"}]
  /\ (busy = "no") = (task = NoTask) /\ (busy = "no") = (token = "none")
  /\ (task.ends = "none") = (task.doing # "over")
TasksOK ==
  /\ restoring \in BOOLEAN /\ restores \in 0..MaxRestores /\ (restores > 0 => restoring)
  /\ updating \in BOOLEAN /\ installs \in Nat /\ (installs > 0 => updating)
  /\ notice \in {"none", "download", "page"}
  /\ mail \in Seq(Mail) /\ restartInto \in BOOLEAN
  /\ started \in {"no", "yes", "refused"}
ListOK ==
  /\ selected \subseteq Findings /\ asked \subseteq Findings /\ due \in BOOLEAN
  /\ settings \in 0..MaxChanges /\ engine \in 0..settings
CountOK ==
  count \in [runs : 0..MaxRuns, restores : 0..MaxRestores, others : 0..MaxOthers]

LEMMA Parts == TypeOK <=> WindowOK /\ RunOK /\ TasksOK /\ ListOK /\ CountOK
BY DEF TypeOK, WindowOK, RunOK, TasksOK, ListOK, CountOK

LEMMA PartsNext ==
  ASSUME WindowOK', RunOK', TasksOK', ListOK', CountOK'
  PROVE  TypeOK'
BY DEF TypeOK, WindowOK, RunOK, TasksOK, ListOK, CountOK

LEMMA PartsKept ==
  ASSUME TypeOK
  PROVE  /\ UNCHANGED runVars => RunOK'
         /\ UNCHANGED <<restoreVars, updateVars, mail>> => TasksOK'
         /\ UNCHANGED <<listVars, asked, settingVars>> => ListOK'
         /\ UNCHANGED count => CountOK'
BY Parts DEF RunOK, TasksOK, ListOK, CountOK, runVars, restoreVars, updateVars, listVars,
             settingVars

(* It holds at the start.                                                  *)
LEMMA InitInv == Init => IInv
<1> SUFFICES ASSUME Init PROVE IInv
  OBVIOUS
<1>1. /\ mail \in Seq(Mail) /\ Len(mail) \in Nat
      /\ \A i \in 1..Len(mail) : i = 1 /\ mail[i] \in Checked
  <2>1. CASE mail = <<>>
    BY <2>1
  <2>2. ASSUME NEW e \in Checked, mail = <<e>>
        PROVE  <1>1!:
    BY <2>2 DEF Mail, Checked
  <2> QED BY <2>1, <2>2 DEF Checked, Init
<1>2. TypeOK
  <2>1. WindowOK /\ ListOK /\ CountOK
    BY BoundsAssumption DEF Init, WindowOK, Dialogs, ListOK, CountOK
  <2>2. RunOK
    BY DEF Init, RunOK, NoTask
  <2>3. /\ restoring = FALSE /\ restores = 0 /\ updating = FALSE /\ installs = 0
        /\ notice = "none" /\ restartInto = FALSE /\ started = "no"
    BY DEF Init
  <2>4. mail \in Seq(Mail) /\ 0 \in 0..MaxRestores /\ 0 \in Nat /\ ~(0 > 0)
    BY <1>1, BoundsAssumption
  <2>5. TasksOK
    BY <2>3, <2>4, Zenon DEF TasksOK
  <2> QED BY <2>1, <2>2, <2>5, Parts
<1>3. Tasks
  BY <1>1 DEF Init, Tasks, OneOpen, Unanswered, Checked, InstallEnd, RestoreEnd
<1> QED BY <1>2, <1>3 DEF Init, IInv, Asked, Installed

(* The ends of the tasks.                                                  *)
LEMMA TaskEndsInv ==
  ASSUME IInv, TaskEnds
  PROVE  IInv'
<1> USE DEF IInv, TaskEnds
<1>1. RunOK'
  <2>1. PICK e \in {"completed", "cancelled", "missing"} :
          task' = [task EXCEPT !.doing = "over", !.ends = e]
    OBVIOUS
  <2>2. /\ task' \in [doing : {"none", "work", "over"}, vss : BOOLEAN,
                      ends : {"none", "completed", "cancelled", "missing"}]
        /\ task'.doing = "over" /\ task'.ends # "none"
    BY <2>1, Parts DEF RunOK
  <2>3. NoTask.doing = "none"
    BY DEF NoTask
  <2> QED BY <2>2, <2>3, Parts DEF RunOK
<1>2. TypeOK'
  BY <1>1, Parts, PartsNext, PartsKept DEF WindowOK
<1>3. Tasks'
  BY TasksKept
<1> QED BY <1>2, <1>3 DEF Asked, Installed, restoreVars, updateVars

LEMMA RestoreEndsInv ==
  ASSUME IInv, RestoreEnds
  PROVE  IInv'
<1> USE DEF IInv, RestoreEnds
<1>1. mail \in Seq(Mail) /\ "restored" \in Mail /\ restores \in Nat
  BY Parts, BoundsAssumption DEF TasksOK, Mail
<1>2. restores' = 0 /\ OneOpen(restores', restoring', RestoreEnd, mail')
  BY <1>1, EndSent DEF Tasks
<1>3. OneOpen(installs', updating', InstallEnd, mail')
  BY <1>1, OtherSent DEF Tasks, InstallEnd, updateVars
<1>4. OneOpen(0, Unanswered', Checked, mail')
  BY <1>1, OtherSent DEF Tasks, Checked, Unanswered, updateVars
<1>5. TasksOK'
  BY <1>1, <1>2, Parts, BoundsAssumption DEF TasksOK, updateVars
<1>6. TypeOK'
  BY <1>5, Parts, PartsNext, PartsKept DEF WindowOK
<1> QED BY <1>2, <1>3, <1>4, <1>6 DEF Tasks, Asked, Installed, runVars, updateVars

LEMMA InstallEndsInv ==
  ASSUME IInv, InstallEnds
  PROVE  IInv'
<1> USE DEF IInv, InstallEnds
<1>1. PICK e \in {"installed", "failed"} : mail' = Append(mail, e)
  OBVIOUS
<1>2. mail \in Seq(Mail) /\ e \in Mail /\ installs \in Nat
  BY <1>1, Parts DEF TasksOK, Mail
<1>3. installs' = 0 /\ OneOpen(installs', updating', InstallEnd, mail')
  BY <1>1, <1>2, EndSent DEF Tasks
<1>4. OneOpen(restores', restoring', RestoreEnd, mail')
  BY <1>1, <1>2, OtherSent DEF Tasks, RestoreEnd, restoreVars
<1>5. OneOpen(0, Unanswered', Checked, mail')
  BY <1>1, <1>2, OtherSent DEF Tasks, Checked, Unanswered
<1>6. TasksOK'
  BY <1>1, <1>2, <1>3, Parts DEF TasksOK, restoreVars
<1>7. TypeOK'
  BY <1>6, Parts, PartsNext, PartsKept DEF WindowOK
<1> QED BY <1>3, <1>4, <1>5, <1>7 DEF Tasks, Asked, Installed, runVars, restoreVars

(* The window takes in what became of a run.                               *)
LEMMA NothingOverInv ==
  ASSUME IInv, NothingOver
  PROVE  IInv'
<1> USE DEF IInv, NothingOver
<1>1. TypeOK'
  BY Parts, PartsNext, PartsKept DEF WindowOK
<1>2. Tasks'
  BY TasksKept
<1> QED BY <1>1, <1>2 DEF Asked, Installed, runVars, restoreVars, updateVars

LEMMA RunIsOverInv ==
  ASSUME IInv, ScanIsOver \/ RepairsAreOver \/ RestorePointMissing
  PROVE  IInv'
<1> USE DEF IInv, ScanIsOver, RepairsAreOver, RestorePointMissing, RunIsOver
<1>1. WindowOK'
  BY Parts DEF WindowOK, Dialogs
<1>2. RunOK'
  <2>1. busy' = "no" /\ token' = "none" /\ task' = NoTask
    OBVIOUS
  <2> QED BY <2>1 DEF RunOK, NoTask
<1>3. ListOK'
  BY Parts DEF ListOK, listVars, settingVars
<1>4. TypeOK'
  BY <1>1, <1>2, <1>3, Parts, PartsNext, PartsKept
<1>5. Tasks'
  BY TasksKept
<1>6. /\ UNCHANGED <<restoring, updating, notice, restartInto, count>>
      /\ busy' = "no" /\ dialog' \in {dialog, "norestore"}
  BY DEF restoreVars, updateVars
<1>7. Asked' /\ Installed'
  BY <1>6 DEF Asked, Installed
<1> QED BY <1>4, <1>5, <1>7

(* The window takes in what the background tasks sent.                     *)
LEMMA ReceiveKeepsType ==
  ASSUME TypeOK, Receive,
         restoring' \in BOOLEAN /\ updating' \in BOOLEAN /\ restartInto' \in BOOLEAN,
         notice' \in {"none", "download", "page"},
         restores > 0 => restoring', installs > 0 => updating'
  PROVE  TypeOK'
<1> USE DEF Receive
<1>1. TasksOK'
  BY Parts, TailOfMail DEF TasksOK
<1> QED BY <1>1, Parts, PartsNext, PartsKept DEF WindowOK

LEMMA UpdateCheckedInv ==
  ASSUME IInv, UpdateChecked
  PROVE  IInv'
<1> USE DEF IInv, UpdateChecked, Receive
<1>1. mail \in Seq(Mail) /\ mail # <<>> /\ Head(mail) \in Checked
  BY Parts DEF TasksOK, Checked
<1>2. Unanswered /\ OneOpen(0, Unanswered', Checked, mail')
  BY <1>1, EndTakenIn DEF Tasks
<1>3. OneOpen(restores', restoring', RestoreEnd, mail')
  BY <1>1, OtherTakenIn DEF Tasks
<1>4. OneOpen(installs', updating', InstallEnd, mail')
  BY <1>1, OtherTakenIn DEF Tasks
<1>5. TypeOK'
  BY ReceiveKeepsType, Parts DEF TasksOK
<1> QED BY <1>2, <1>3, <1>4, <1>5 DEF Tasks, Asked, Installed, Unanswered, runVars

LEMMA UpdateInstallFinishedInv ==
  ASSUME IInv, UpdateInstallFinished
  PROVE  IInv'
<1> USE DEF IInv, UpdateInstallFinished, Receive
<1>1. mail \in Seq(Mail) /\ mail # <<>> /\ Head(mail) \in InstallEnd
  BY Parts DEF TasksOK, InstallEnd
<1>2. updating /\ installs = 0 /\ OneOpen(installs', updating', InstallEnd, mail')
  BY <1>1, EndTakenIn DEF Tasks
<1>3. OneOpen(restores', restoring', RestoreEnd, mail')
  BY <1>1, OtherTakenIn DEF Tasks
<1>4. OneOpen(0, Unanswered, Checked, mail') /\ ~Unanswered /\ mail' \in Seq(Mail)
  BY <1>1, <1>2, OtherTakenIn, TailOfMail DEF Tasks, Unanswered
<1>5. OneOpen(0, Unanswered', Checked, mail')
  BY <1>4 DEF OneOpen
<1>6. TypeOK'
  <2>1. restoring \in BOOLEAN /\ (restores > 0 => restoring)
    BY Parts DEF TasksOK
  <2>2. updating' \in BOOLEAN /\ restartInto' \in BOOLEAN
    BY Parts DEF TasksOK
  <2> QED BY <1>2, <2>1, <2>2, ReceiveKeepsType
<1> QED BY <1>2, <1>3, <1>5, <1>6 DEF Tasks, Asked, Installed, runVars

LEMMA RollbackFinishedInv ==
  ASSUME IInv, RollbackFinished
  PROVE  IInv'
<1> USE DEF IInv, RollbackFinished, Receive
<1>1. mail \in Seq(Mail) /\ mail # <<>> /\ Head(mail) \in RestoreEnd
  BY Parts DEF TasksOK, RestoreEnd
<1>2. restores = 0 /\ OneOpen(restores', restoring', RestoreEnd, mail')
  BY <1>1, EndTakenIn DEF Tasks
<1>3. OneOpen(installs', updating', InstallEnd, mail')
  BY <1>1, OtherTakenIn DEF Tasks
<1>4. OneOpen(0, Unanswered', Checked, mail')
  BY <1>1, OtherTakenIn DEF Tasks, Unanswered
<1>5. TypeOK'
  <2>1. restoring' \in BOOLEAN
    BY Zenon
  <2>2. ~(restores > 0)
    BY <1>2
  <2> QED BY <2>1, <2>2, ReceiveKeepsType, Parts DEF TasksOK
<1> QED BY <1>2, <1>3, <1>4, <1>5 DEF Tasks, Asked, Installed, runVars

LEMMA BetweenFramesInv ==
  ASSUME IInv, AllReceived \/ Poll \/ EndFrame
  PROVE  IInv'
<1> USE DEF IInv, AllReceived, Poll, EndFrame
<1>1. WindowOK'
  BY Parts DEF WindowOK
<1>2. ListOK'
  BY Parts, PartsKept DEF ListOK, listVars, settingVars
<1>3. CountOK' /\ count'.restores = count.restores
  BY Parts, BoundsAssumption DEF CountOK
<1>4. TypeOK'
  BY <1>1, <1>2, <1>3, Parts, PartsNext, PartsKept
<1>5. Tasks'
  BY TasksKept
<1> QED BY <1>3, <1>4, <1>5 DEF Asked, Installed, runVars, restoreVars, updateVars

LEMMA RestartIntoUpdateInv ==
  ASSUME IInv, RestartIntoUpdate
  PROVE  IInv'
<1> USE DEF IInv, RestartIntoUpdate
<1>1. WindowOK' /\ TasksOK'
  BY Parts DEF WindowOK, TasksOK, restoreVars
<1>2. TypeOK'
  BY <1>1, Parts, PartsNext, PartsKept
<1>3. OneOpen(0, Unanswered', Checked, mail')
  <2>1. CASE Unanswered
    BY <2>1 DEF Tasks, Unanswered
  <2>2. CASE ~Unanswered
    BY <2>2 DEF Tasks, OneOpen
  <2> QED BY <2>1, <2>2
<1> QED BY <1>2, <1>3 DEF Tasks, Asked, Installed, runVars, restoreVars

-----------------------------------------------------------------------------
(* The keys and the answers.                                               *)
LEMMA StartTaskKeepsType ==
  ASSUME TypeOK, NEW kind \in {"scan", "repair"}, NEW vss \in BOOLEAN, StartTask(kind, vss)
  PROVE  RunOK' /\ CountOK' /\ count'.restores = count.restores
<1>1. RunOK'
  BY DEF StartTask, RunOK, NoTask
<1>2. CountOK' /\ count'.restores = count.restores
  BY Parts, BoundsAssumption DEF StartTask, CountOK
<1> QED BY <1>1, <1>2

LEMMA StartsInv ==
  ASSUME IInv, StartScan \/ StartRepairs
  PROVE  IInv'
<1> USE DEF IInv, StartScan, StartRepairs, Free
<1>1. RunOK' /\ CountOK'
  BY StartTaskKeepsType
<1>2. WindowOK' /\ ListOK'
  BY Parts DEF WindowOK, ListOK, listVars, settingVars
<1>3. TypeOK'
  BY <1>1, <1>2, Parts, PartsNext, PartsKept
<1>4. Tasks'
  BY TasksKept
<1>5. dialog' = "none" /\ UNCHANGED <<updating, notice, restartInto>>
  BY DEF updateVars
<1> QED BY <1>3, <1>4, <1>5 DEF Asked, Installed

LEMMA FreeKeysInv ==
  ASSUME IInv, CancelCurrentOperation \/ ToggleIssues \/ ApplyConfigChange \/ Quit
  PROVE  IInv'
<1> USE DEF IInv, CancelCurrentOperation, ToggleIssues, ApplyConfigChange, Quit, Free
<1>1. WindowOK'
  BY Parts DEF WindowOK
<1>2. RunOK' /\ busy' = busy
  BY Parts DEF RunOK, NoTask, runVars
<1>3. ListOK'
  BY Parts, BoundsAssumption DEF ListOK, listVars, settingVars
<1>4. TypeOK'
  BY <1>1, <1>2, <1>3, Parts, PartsNext, PartsKept
<1>5. Tasks'
  BY TasksKept
<1> QED BY <1>2, <1>4, <1>5 DEF Asked, Installed, restoreVars, updateVars

LEMMA AskInv ==
  ASSUME IInv, RequestRollback \/ ShowUpdateNotice \/ ShowRebootNotice \/ RequestUnregister
  PROVE  IInv'
<1> USE DEF IInv, RequestRollback, ShowUpdateNotice, ShowRebootNotice, RequestUnregister,
            Free, Ask
<1>1. WindowOK'
  BY Parts DEF WindowOK, TasksOK, Dialogs
<1>2. TypeOK'
  BY <1>1, Parts, PartsNext, PartsKept
<1>3. Tasks'
  BY TasksKept
<1>4. UNCHANGED <<busy, restoring, updating, notice, restartInto, count>>
  BY DEF runVars, restoreVars, updateVars
<1>5. /\ dialog' \in {"rollback", "restart"} => busy = "no"
      /\ dialog' = "rollback" => ~restoring /\ count.restores < MaxRestores
      /\ dialog' = "download" => notice = "download" /\ ~updating
  BY Parts DEF TasksOK
<1>6. Asked' /\ Installed'
  BY <1>4, <1>5 DEF Asked, Installed
<1> QED BY <1>2, <1>3, <1>6

LEMMA SimpleAnswerInv ==
  ASSUME IInv, DismissConfirm \/ ConfirmRestart \/ ConfirmUnregister \/ ConfirmNoRestorePoint
  PROVE  IInv'
<1> USE DEF IInv, DismissConfirm, ConfirmRestart, ConfirmUnregister, ConfirmNoRestorePoint,
            Answer
<1>1. WindowOK'
  BY Parts DEF WindowOK, Dialogs
<1>2. RunOK' /\ CountOK'
  BY Parts, PartsKept, StartTaskKeepsType
<1>3. ListOK'
  BY Parts DEF ListOK, listVars, settingVars
<1>4. TypeOK'
  BY <1>1, <1>2, <1>3, Parts, PartsNext, PartsKept
<1>5. Tasks'
  BY TasksKept
<1>6. dialog' = "none" /\ UNCHANGED <<updating, notice, restartInto>>
  BY DEF updateVars
<1> QED BY <1>4, <1>5, <1>6 DEF Asked, Installed

LEMMA ConfirmRollbackInv ==
  ASSUME IInv, ConfirmRollback
  PROVE  IInv'
<1> USE DEF IInv, ConfirmRollback, Answer
<1>1. ~restoring /\ count.restores < MaxRestores /\ mail \in Seq(Mail)
  BY Parts DEF Asked, TasksOK
<1>2. restores = 0 /\ OneOpen(restores', restoring', RestoreEnd, mail')
  <2>1. OneOpen(restores, restoring, RestoreEnd, mail)
    BY DEF Tasks
  <2> QED BY <1>1, <2>1 DEF OneOpen
<1>3. WindowOK' /\ CountOK'
  BY <1>1, Parts, BoundsAssumption DEF WindowOK, CountOK, Dialogs
<1>4. TasksOK'
  BY <1>1, <1>2, Parts, BoundsAssumption DEF TasksOK, CountOK, updateVars
<1>5. TypeOK'
  BY <1>3, <1>4, Parts, PartsNext, PartsKept
<1> QED BY <1>2, <1>5 DEF Tasks, Unanswered, Asked, Installed, updateVars

LEMMA ConfirmUpdateInv ==
  ASSUME IInv, ConfirmDownload \/ ConfirmPage
  PROVE  IInv'
<1> USE DEF IInv, ConfirmDownload, ConfirmPage, Answer
<1>1. mail \in Seq(Mail) /\ mail' = mail
  BY Parts DEF TasksOK
<1>2. /\ OneOpen(installs', updating', InstallEnd, mail')
      /\ updating' \in BOOLEAN /\ installs' \in Nat /\ (installs' > 0 => updating')
  <2>1. CASE ~updating /\ updating' = TRUE /\ installs' = installs + 1
    <3>1. OneOpen(installs, updating, InstallEnd, mail)
      BY DEF Tasks
    <3> QED BY <1>1, <2>1, <3>1 DEF OneOpen
  <2>2. CASE UNCHANGED <<updating, installs>>
    <3>1. updating' = updating /\ installs' = installs
      BY <2>2
    <3> QED BY <1>1, <3>1, Parts DEF Tasks, TasksOK
  <2> QED BY <2>1, <2>2 DEF Asked
<1>3. OneOpen(0, Unanswered', Checked, mail')
  <2>1. OneOpen(0, Unanswered, Checked, mail)
    BY DEF Tasks
  <2>2. CASE ~Unanswered
    BY <1>1, <2>1, <2>2 DEF OneOpen
  <2>3. CASE Unanswered
    <3>1. dialog = "page" /\ Unanswered'
      BY <2>3 DEF Unanswered, Asked
    <3> QED BY <1>1, <2>1, <2>3, <3>1 DEF OneOpen
  <2> QED BY <2>2, <2>3
<1>4. WindowOK'
  BY Parts DEF WindowOK, Dialogs
<1>5. TasksOK'
  <2>1. UNCHANGED <<restoring, restores, restartInto, started>>
    BY DEF restoreVars
  <2>2. notice' \in {notice, "none"}
    OBVIOUS
  <2> QED BY <1>1, <1>2, <2>1, <2>2, Parts DEF TasksOK
<1>6. TypeOK'
  BY <1>4, <1>5, Parts, PartsNext, PartsKept
<1>7. Asked' /\ Installed'
  BY DEF Asked, Installed
<1> QED BY <1>1, <1>2, <1>3, <1>6, <1>7 DEF Tasks, restoreVars

(* Altogether.                                                             *)
LEMMA StutterInv == IInv /\ UNCHANGED vars => IInv'
<1> SUFFICES ASSUME IInv, UNCHANGED vars PROVE IInv'
  OBVIOUS
<1> USE DEF vars, IInv
<1>1. TypeOK'
  BY Parts, PartsNext, PartsKept
     DEF WindowOK, runVars, restoreVars, updateVars, listVars, settingVars
<1>2. Tasks'
  BY TasksKept DEF restoreVars, updateVars
<1> QED BY <1>1, <1>2 DEF Asked, Installed

LEMMA NextInv == IInv /\ [Next]_vars => IInv'
BY TaskEndsInv, RestoreEndsInv, InstallEndsInv, NothingOverInv, RunIsOverInv, UpdateCheckedInv,
   UpdateInstallFinishedInv, RollbackFinishedInv, BetweenFramesInv, RestartIntoUpdateInv,
   StartsInv, FreeKeysInv, AskInv, SimpleAnswerInv, ConfirmRollbackInv, ConfirmUpdateInv,
   StutterInv
   DEF Next, Logic, Keys

-----------------------------------------------------------------------------
(* The inductive invariant holds in every reachable state.                 *)
THEOREM Invariant == Spec => []IInv
BY InitInv, NextInv, PTL DEF Spec

(* The parts of the window keep the values their handlers expect, and the  *)
(* window knows of every task at work (src/app/state.rs, the fields of     *)
(* App).                                                                   *)
THEOREM TypeCorrect == Spec => []TypeOK
<1>1. IInv => TypeOK
  BY DEF IInv
<1> QED BY <1>1, Invariant, PTL

(* Two installations never write the same staging file                     *)
(* (show_update_notice).                                                   *)
THEOREM InstalledOneAtATime == Spec => []OneInstall
<1>1. IInv => OneInstall
  BY DEF IInv, Tasks, OneOpen, OneInstall
<1> QED BY <1>1, Invariant, PTL

(* What the window takes for idle is idle, and only one action each         *)
(* restores, restarts Windows and starts the update.                       *)
LEMMA IdleHasNoTask ==
  ASSUME TypeOK, busy = "no"
  PROVE  task.doing = "none"
BY Parts DEF RunOK, NoTask

LEMMA OnlyRollbackRestores ==
  ASSUME IInv, Next, ~ConfirmRollback
  PROVE  ~(restores' > restores)
<1>1. restores \in Nat
  BY Parts, BoundsAssumption DEF IInv, TasksOK
<1>2. restores' \in {restores, restores - 1}
  BY DEF Next, Logic, Keys, TaskEnds, RestoreEnds, InstallEnds, NothingOver, ScanIsOver,
         RepairsAreOver, RestorePointMissing, RunIsOver, UpdateChecked, UpdateInstallFinished,
         RollbackFinished, Receive, AllReceived, RestartIntoUpdate, Poll, EndFrame, StartScan,
         StartRepairs, CancelCurrentOperation, ToggleIssues, RequestRollback,
         ShowUpdateNotice, ShowRebootNotice, RequestUnregister, Ask, ApplyConfigChange, Quit,
         DismissConfirm, ConfirmDownload, ConfirmPage, ConfirmRestart, ConfirmUnregister,
         ConfirmNoRestorePoint, restoreVars
<1> QED BY <1>1, <1>2

LEMMA OnlyConfirmRestarts ==
  ASSUME Next, ~ConfirmRestart
  PROVE  quit' \in {quit, "user", "update"}
BY DEF Next, Logic, Keys, TaskEnds, RestoreEnds, InstallEnds, NothingOver, ScanIsOver,
       RepairsAreOver, RestorePointMissing, RunIsOver, UpdateChecked, UpdateInstallFinished,
       RollbackFinished, Receive, AllReceived, RestartIntoUpdate, Poll, EndFrame, StartScan,
       StartRepairs, CancelCurrentOperation, ToggleIssues, RequestRollback,
       ShowUpdateNotice, ShowRebootNotice, RequestUnregister, Ask, ApplyConfigChange, Quit,
       DismissConfirm, ConfirmRollback, ConfirmDownload, ConfirmPage, ConfirmUnregister,
       ConfirmNoRestorePoint

LEMMA OnlyRestartStarts ==
  ASSUME Next, ~RestartIntoUpdate
  PROVE  started' = started
BY DEF Next, Logic, Keys, TaskEnds, RestoreEnds, InstallEnds, NothingOver, ScanIsOver,
       RepairsAreOver, RestorePointMissing, RunIsOver, UpdateChecked, UpdateInstallFinished,
       RollbackFinished, Receive, AllReceived, Poll, EndFrame, StartScan,
       StartRepairs, CancelCurrentOperation, ToggleIssues, RequestRollback,
       ShowUpdateNotice, ShowRebootNotice, RequestUnregister, Ask, ApplyConfigChange, Quit,
       DismissConfirm, ConfirmRollback, ConfirmDownload, ConfirmPage, ConfirmRestart,
       ConfirmUnregister, ConfirmNoRestorePoint, updateVars

(* Windows is restarted and a registry backup restored only while no run   *)
(* has a task and no other restore is at work, though the question was     *)
(* asked frames before the answer (show_reboot_notice, request_rollback,   *)
(* confirm_pending_action).                                                *)
THEOREM AnswersComeWhenIdle == Spec => AnsweredWhenIdle
<1>1. ASSUME IInv, Next, quit' = "windows", quit # "windows"
      PROVE  task.doing = "none"
  <2>1. ConfirmRestart
    BY <1>1, OnlyConfirmRestarts
  <2>2. dialog = "restart"
    BY <2>1 DEF ConfirmRestart, Answer
  <2> QED BY <1>1, <2>2, IdleHasNoTask DEF IInv, Asked
<1>2. ASSUME IInv, Next, restores' > restores
      PROVE  task.doing = "none" /\ restores = 0
  <2>1. ConfirmRollback
    BY <1>2, OnlyRollbackRestores
  <2>2. dialog = "rollback"
    BY <2>1 DEF ConfirmRollback, Answer
  <2>3. task.doing = "none"
    BY <1>2, <2>2, IdleHasNoTask DEF IInv, Asked
  <2>4. ~restoring /\ restores \in Nat /\ (restores > 0 => restoring)
    BY <1>2, <2>2, Parts, BoundsAssumption DEF IInv, Asked, TasksOK
  <2>5. restores = 0
    BY <2>4
  <2> QED BY <2>3, <2>5
<1>3. ASSUME IInv, UNCHANGED vars
      PROVE  quit' = quit /\ ~(restores' > restores)
  BY <1>3, Parts, BoundsAssumption DEF vars, IInv, TasksOK
<1>4. IInv /\ [Next]_vars =>
        /\ quit' = "windows" /\ quit # "windows" => task.doing = "none"
        /\ restores' > restores => task.doing = "none" /\ restores = 0
  BY <1>1, <1>2, <1>3
<1> QED BY <1>4, Invariant, PTL DEF Spec, AnsweredWhenIdle

(* WinMedic starts an installed update only while nothing is at work in    *)
(* the window it closes for it (restart_into_update_when_idle).            *)
THEOREM UpdateStartsWhenIdle == Spec => StartedWhenIdle
<1>1. ASSUME IInv, Next, started' = "yes", started # "yes"
      PROVE  task.doing = "none" /\ restores = 0 /\ installs = 0
  <2>1. RestartIntoUpdate
    BY <1>1, OnlyRestartStarts
  <2>2. MayRestart
    BY <1>1, <2>1 DEF RestartIntoUpdate
  <2>3. task.doing = "none"
    BY <1>1, <2>2, IdleHasNoTask DEF IInv, MayRestart
  <2>4. ~restoring /\ ~updating
    BY <1>1, <2>2 DEF IInv, MayRestart, Installed
  <2>5. /\ restores \in Nat /\ (restores > 0 => restoring)
        /\ installs \in Nat /\ (installs > 0 => updating)
    BY <1>1, Parts, BoundsAssumption DEF IInv, TasksOK
  <2> QED BY <2>3, <2>4, <2>5
<1>2. ASSUME UNCHANGED vars
      PROVE  started' = started
  BY <1>2 DEF vars
<1>3. IInv /\ [Next]_vars =>
        (started' = "yes" /\ started # "yes"
           => task.doing = "none" /\ restores = 0 /\ installs = 0)
  BY <1>1, <1>2
<1> QED BY <1>3, Invariant, PTL DEF Spec, StartedWhenIdle


(* Nothing at work is cut short: Windows is restarted, the registry        *)
(* restored and an update started only while nothing is at work            *)
(* (confirm_pending_action, restart_into_update_when_idle).                *)
THEOREM DoneOnlyWhenIdle == Spec => OnlyWhenIdle
BY AnswersComeWhenIdle, UpdateStartsWhenIdle DEF OnlyWhenIdle
=============================================================================
