----------------------------- MODULE ScanRun -----------------------------
(***************************************************************************)
(* One diagnostic scan: DiagnosticEngine::run_scan (engine/runner.rs), the *)
(* checks it runs in tasks of their own, the task that forwards their      *)
(* progress, the two bounded channels in between, and the window that      *)
(* drains the events (app/events.rs) and may cancel the scan.              *)
(*                                                                         *)
(* A check's findings are abstracted to the check they belong to; what a   *)
(* finding is and what becomes of it is in Findings and Decisions.         *)
(***************************************************************************)
EXTENDS Naturals, Sequences, FiniteSets

CONSTANTS
  Modules,              \* the registered checks
  Full,                 \* percentages are 0..Full, Full standing for 100
  ProgCap,              \* capacity of the progress channel (100 in the code)
  EventCap,             \* capacity of the event channel (100 in the code)
  NoProgress, NoEvent   \* nothing held by the forwarder / by the engine

ASSUME ModulesAssumption == IsFiniteSet(Modules) /\ Modules # {}
ASSUME FullAssumption == Full \in Nat \ {0}
ASSUME CapAssumption == ProgCap \in Nat \ {0} /\ EventCap \in Nat \ {0}

VARIABLES
  engine,               \* where run_scan is
  task,                 \* the JoinSet: each check's task
  sent,                 \* progress messages a check has sent, each one percent step
  progQ,                \* the progress channel, checks to forwarder
  held,                 \* the message the forwarder is passing on
  events,               \* the event channel, engine and forwarder to window
  cancelled,            \* the cancellation token
  reporting,            \* the result of the last join, about to be sent
  completed,            \* completed_modules
  collected,            \* all_issues, by check
  row,                  \* module_progress_list: each check's row in the window
  shown,                \* App::issues, by check
  window,               \* "running" while App::is_scanning, then how it ended
  told                  \* how many checks the "Scan cancelled after" line counts

engineVars == <<engine, reporting, completed, collected>>
windowVars == <<row, shown, window, told>>
vars == <<engine, task, sent, progQ, held, events, cancelled, reporting,
          completed, collected, row, shown, window, told>>

EngineStates == {"enter", "spawn", "select", "report", "shutdown",
                 "drainCancelled", "drainDone", "returned"}
TaskStates == {"absent", "running", "ok", "failed", "joined", "aborting", "dropped"}
RowStates == {"waiting", "started", "finished", "failed", "cancelled"}

ModuleProgress == [module : Modules, percent : 0..Full]

(* Mutant: the percentage counts from one. *)
ProgressFromOne(p) ==
  [kind |-> "ModuleProgressUpdate", module |-> p.module, percent |-> p.percent + 1]

Started(m)     == [kind |-> "ModuleStarted", module |-> m]
Progress(p)    == [kind |-> "ModuleProgressUpdate", module |-> p.module, percent |-> p.percent]
Finished(m)    == [kind |-> "ModuleFinished", module |-> m]
Failed(m)      == [kind |-> "ModuleFailed", module |-> m]
Cancelled(n)   == [kind |-> "ScanCancelled", completed_modules |-> n]
Completed(n)   == [kind |-> "ScanCompleted", total |-> n]

ResultEvent == [kind : {"ModuleFinished", "ModuleFailed"}, module : Modules]
TerminalEvent == [kind : {"ScanCancelled"}, completed_modules : Nat]
                   \cup [kind : {"ScanCompleted"}, total : Nat]
ScanEvent == [kind : {"ModuleStarted"}, module : Modules]
               \cup [kind : {"ModuleProgressUpdate"}, module : Modules, percent : 0..Full]
               \cup ResultEvent \cup TerminalEvent

IsTerminal(e) == e.kind \in {"ScanCancelled", "ScanCompleted"}

ASSUME NoneAssumption == NoProgress \notin ModuleProgress /\ NoEvent \notin ResultEvent

TypeOK ==
  /\ engine \in EngineStates
  /\ task \in [Modules -> TaskStates]
  /\ sent \in [Modules -> 0..Full]
  /\ progQ \in Seq(ModuleProgress)
  /\ held \in ModuleProgress \cup {NoProgress}
  /\ events \in Seq(ScanEvent)
  /\ cancelled \in BOOLEAN
  /\ reporting \in ResultEvent \cup {NoEvent}
  /\ completed \in Nat
  /\ collected \in SUBSET Modules
  /\ row \in [Modules -> [state : RowStates, percent : 0..Full]]
  /\ shown \in SUBSET Modules
  /\ window \in {"running", "completed", "cancelled"}
  /\ told \in Nat

Init ==
  /\ engine = "enter"
  /\ task = [m \in Modules |-> "absent"]
  /\ sent = [m \in Modules |-> 0]
  /\ progQ = <<>>
  /\ held = NoProgress
  /\ events = <<>>
  /\ cancelled = FALSE
  /\ reporting = NoEvent
  /\ completed = 0
  /\ collected = {}
  /\ row = [m \in Modules |-> [state |-> "waiting", percent |-> 0]]
  /\ shown = {}
  /\ window = "running"
  /\ told = 0

---------------------------------------------------------------------------
(* The event channel. A send waits while it is full; once the window has   *)
(* dropped its receiver, sends fail at once and the error is ignored.      *)

(* Mutant: try_send, which drops what does not fit. *)
TrySend(e) == IF window = "running" /\ Len(events) < EventCap
                THEN events' = Append(events, e)
                ELSE UNCHANGED events

Send(e) == IF window = "running"
             THEN Len(events) < EventCap /\ events' = Append(events, e)
             ELSE UNCHANGED events

(* Mutant: a task that has ended is not waited for. *)
StillRunning == {m \in Modules : task[m] = "running"}

(* The tasks the JoinSet still holds. *)
Unjoined == {m \in Modules : task[m] \in {"running", "ok", "failed"}}

(* A check's task lives, and holds its end of the progress channel. *)
Live(m) == task[m] \in {"running", "aborting"}

(* The forwarder has nothing more to come: every sender is gone (run_scan  *)
(* drops its own before it selects) and what they sent has been passed on. *)
(* Mutant: run_scan does not wait for the forwarder.                       *)
ForwarderNotAwaited == TRUE

ForwarderEnded == /\ \A m \in Modules : ~Live(m)
                  /\ progQ = <<>>
                  /\ held = NoProgress

---------------------------------------------------------------------------
(* The engine. *)

EnterCancelled ==
  /\ engine = "enter" /\ cancelled
  /\ Send(Cancelled(0))
  /\ engine' = "returned"
  /\ UNCHANGED <<task, sent, progQ, held, cancelled, reporting, completed, collected>>
  /\ UNCHANGED windowVars

Enter ==
  /\ engine = "enter" /\ ~cancelled
  /\ engine' = "spawn"
  /\ UNCHANGED <<task, sent, progQ, held, events, cancelled, reporting, completed, collected>>
  /\ UNCHANGED windowVars

(* The token is not looked at while the checks are started. *)
Spawn(m) ==
  /\ engine = "spawn"
  /\ task[m] = "absent"
  /\ Send(Started(m))
  /\ task' = [task EXCEPT ![m] = "running"]
  /\ engine' = IF \E n \in Modules \ {m} : task[n] = "absent" THEN "spawn" ELSE "select"
  /\ UNCHANGED <<sent, progQ, held, cancelled, reporting, completed, collected>>
  /\ UNCHANGED windowVars

(* join_next, polled after the token: a check that returned or panicked.   *)
Join(m) ==
  /\ engine = "select" /\ ~cancelled
  /\ task[m] \in {"ok", "failed"}
  /\ task' = [task EXCEPT ![m] = "joined"]
  /\ completed' = completed + 1
  /\ reporting' = IF task[m] = "ok" THEN Finished(m) ELSE Failed(m)
  /\ engine' = "report"
  /\ UNCHANGED <<sent, progQ, held, events, cancelled, collected>>
  /\ UNCHANGED windowVars

Report ==
  /\ engine = "report"
  /\ Send(reporting)
  /\ collected' = IF reporting.kind = "ModuleFinished"
                    THEN collected \cup {reporting.module} ELSE collected
  /\ reporting' = NoEvent
  /\ engine' = "select"
  /\ UNCHANGED <<task, sent, progQ, held, cancelled, completed>>
  /\ UNCHANGED windowVars

(* The token is polled first. JoinSet::shutdown aborts every task: one     *)
(* that has ended loses its result, one that runs ends at its next await.  *)
(* Mutant: the tasks are detached instead of aborted. *)
DetachAll ==
  /\ engine = "select" /\ cancelled
  /\ Unjoined # {}
  /\ engine' = "shutdown"
  /\ UNCHANGED <<task, sent, progQ, held, events, cancelled, reporting, completed, collected>>
  /\ UNCHANGED windowVars

Shutdown ==
  /\ engine = "select" /\ cancelled
  /\ Unjoined # {}
  /\ task' = [m \in Modules |-> CASE task[m] = "running" -> "aborting"
                                  [] task[m] \in {"ok", "failed"} -> "dropped"
                                  [] OTHER -> task[m]]
  /\ engine' = "shutdown"
  /\ UNCHANGED <<sent, progQ, held, events, cancelled, reporting, completed, collected>>
  /\ UNCHANGED windowVars

ShutdownReturns ==
  /\ engine = "shutdown"
  /\ \A m \in Modules : task[m] # "aborting"
  /\ engine' = "drainCancelled"
  /\ UNCHANGED <<task, sent, progQ, held, events, cancelled, reporting, completed, collected>>
  /\ UNCHANGED windowVars

FinishCancelledScan ==
  /\ engine = "drainCancelled"
  /\ ForwarderEnded
  /\ Send(Cancelled(completed))
  /\ engine' = "returned"
  /\ UNCHANGED <<task, sent, progQ, held, cancelled, reporting, completed, collected>>
  /\ UNCHANGED windowVars

(* The set is empty, whether or not the token was cancelled meanwhile. *)
AllJoined ==
  /\ engine = "select"
  /\ Unjoined = {}
  /\ engine' = "drainDone"
  /\ UNCHANGED <<task, sent, progQ, held, events, cancelled, reporting, completed, collected>>
  /\ UNCHANGED windowVars

FinishScan ==
  /\ engine = "drainDone"
  /\ ForwarderEnded
  /\ Send(Completed(Cardinality(collected)))
  /\ engine' = "returned"
  /\ UNCHANGED <<task, sent, progQ, held, cancelled, reporting, completed, collected>>
  /\ UNCHANGED windowVars

---------------------------------------------------------------------------
(* A check's task: it names its steps and percentages, and ends with its   *)
(* findings or with an error (a panic is reported like one). A check the   *)
(* engine aborts may still get so far before its next await.               *)

CheckReports(m) ==
  /\ Live(m)
  /\ sent[m] < Full
  /\ Len(progQ) < ProgCap
  /\ sent' = [sent EXCEPT ![m] = @ + 1]
  /\ progQ' = Append(progQ, [module |-> m, percent |-> sent[m] + 1])
  /\ UNCHANGED <<task, held, events, cancelled>>
  /\ UNCHANGED engineVars /\ UNCHANGED windowVars

CheckEnds(m) ==
  /\ \/ /\ task[m] = "running"
        /\ \E result \in {"ok", "failed"} : task' = [task EXCEPT ![m] = result]
     \/ /\ task[m] = "aborting"
        /\ task' = [task EXCEPT ![m] = "dropped"]
  /\ UNCHANGED <<sent, progQ, held, events, cancelled>>
  /\ UNCHANGED engineVars /\ UNCHANGED windowVars

(* The forwarding task: one message at a time from channel to channel. *)

ForwarderTakes ==
  /\ held = NoProgress /\ progQ # <<>>
  /\ held' = Head(progQ)
  /\ progQ' = Tail(progQ)
  /\ UNCHANGED <<task, sent, events, cancelled>>
  /\ UNCHANGED engineVars /\ UNCHANGED windowVars

ForwarderSends ==
  /\ held # NoProgress
  /\ Send(Progress(held))
  /\ held' = NoProgress
  /\ UNCHANGED <<task, sent, progQ, cancelled>>
  /\ UNCHANGED engineVars /\ UNCHANGED windowVars

---------------------------------------------------------------------------
(* The window: process_scan_events, one event of the frame's batch at a    *)
(* time, and cancel_current_operation.                                     *)

IsDone(m) == row[m].state \in {"finished", "failed", "cancelled"}

Receives(kind) == window = "running" /\ events # <<>> /\ Head(events).kind = kind

OnModuleStarted ==
  /\ Receives("ModuleStarted")
  /\ row' = [row EXCEPT ![Head(events).module].state = "started"]
  /\ events' = Tail(events)
  /\ UNCHANGED <<task, sent, progQ, held, cancelled, shown, window, told>>
  /\ UNCHANGED engineVars

(* The bar is set whether or not the row is done. *)
OnModuleProgress ==
  /\ Receives("ModuleProgressUpdate")
  /\ row' = [row EXCEPT ![Head(events).module].percent = Head(events).percent]
  /\ events' = Tail(events)
  /\ UNCHANGED <<task, sent, progQ, held, cancelled, shown, window, told>>
  /\ UNCHANGED engineVars

OnModuleFinished ==
  /\ Receives("ModuleFinished")
  /\ row' = [row EXCEPT ![Head(events).module] = [state |-> "finished", percent |-> Full]]
  /\ shown' = shown \cup {Head(events).module}
  /\ events' = Tail(events)
  /\ UNCHANGED <<task, sent, progQ, held, cancelled, window, told>>
  /\ UNCHANGED engineVars

OnModuleFailed ==
  /\ Receives("ModuleFailed")
  /\ row' = [row EXCEPT ![Head(events).module] = [state |-> "failed", percent |-> Full]]
  /\ events' = Tail(events)
  /\ UNCHANGED <<task, sent, progQ, held, cancelled, shown, window, told>>
  /\ UNCHANGED engineVars

(* The receiver goes with the scan's end, and with it what it still held. *)
OnScanCancelled ==
  /\ Receives("ScanCancelled")
  /\ window' = "cancelled"
  /\ told' = Head(events).completed_modules
  /\ row' = [m \in Modules |-> IF IsDone(m) THEN row[m]
                                 ELSE [row[m] EXCEPT !.state = "cancelled"]]
  /\ events' = <<>>
  /\ UNCHANGED <<task, sent, progQ, held, cancelled, shown>>
  /\ UNCHANGED engineVars

OnScanCompleted ==
  /\ Receives("ScanCompleted")
  /\ window' = "completed"
  /\ events' = <<>>
  /\ UNCHANGED <<task, sent, progQ, held, cancelled, row, shown, told>>
  /\ UNCHANGED engineVars

UserCancels ==
  /\ window = "running" /\ ~cancelled
  /\ cancelled' = TRUE
  /\ UNCHANGED <<task, sent, progQ, held, events>>
  /\ UNCHANGED engineVars /\ UNCHANGED windowVars

(* Nothing is left to do: the window waits for the next scan. *)
ScanOver ==
  /\ window # "running" /\ engine = "returned"
  /\ UNCHANGED vars

---------------------------------------------------------------------------
Engine == \/ EnterCancelled \/ Enter \/ Report
          \/ Shutdown \/ ShutdownReturns \/ FinishCancelledScan
          \/ AllJoined \/ FinishScan
          \/ \E m \in Modules : Spawn(m) \/ Join(m)

Forwarder == ForwarderTakes \/ ForwarderSends

Window == \/ OnModuleStarted \/ OnModuleProgress \/ OnModuleFinished
          \/ OnModuleFailed \/ OnScanCancelled \/ OnScanCompleted

Next == \/ Engine \/ Forwarder \/ Window
        \/ \E m \in Modules : CheckReports(m) \/ CheckEnds(m)
        \/ UserCancels \/ ScanOver

Spec == Init /\ [][Next]_vars

(* tokio polls what is ready and the window draws frames while it runs.    *)
(* An aborted task is dropped at its next await, which its timeouts bound. *)
Scheduling == /\ WF_vars(Engine) /\ WF_vars(Forwarder) /\ WF_vars(Window)
              /\ \A m \in Modules : WF_vars(task[m] = "aborting" /\ CheckEnds(m))

LiveSpec == Spec /\ Scheduling

(* Checks end by themselves: each command they run has a timeout.          *)
ChecksEnd == \A m \in Modules : WF_vars(CheckEnds(m))

---------------------------------------------------------------------------
(* No event follows the one that ends the scan, and none is left on its    *)
(* way: run_scan waits for the forwarder before it sends it. The window    *)
(* drops its receiver with that event, so what came later would be lost.   *)
EndIsTheEnd ==
  /\ \A i \in 1..Len(events) :
       IsTerminal(events[i]) => i = Len(events) /\ engine = "returned" /\ ForwarderEnded
  /\ window # "running" => /\ engine = "returned" /\ ForwarderEnded
                           /\ events = <<>> /\ reporting = NoEvent

(* When the scan has ended, the window shows the findings of the very      *)
(* checks whose findings run_scan returns - which is what the command line *)
(* reports - cancelled or not.                                             *)
WindowShowsWhatWasReturned == window # "running" => shown = collected

(* The abstract scan: a check's outcome is what its row says, one the      *)
(* cancellation cut off has none.                                          *)
Contract == INSTANCE ScanContract WITH
  outcome <- [m \in Modules |-> CASE row[m].state = "finished" -> "found"
                                  [] row[m].state = "failed" -> "failed"
                                  [] OTHER -> "pending"],
  verdict <- window

(* run_scan and the window together keep the contract: no check reports    *)
(* twice, "completed" means every check reported, "cancelled" that one did *)
(* not, and the number in the status line is the number of rows done.      *)
ImplementsContract == Contract!Spec

(* A cancelled scan ends, even when a check would never end by itself.     *)
CancelEndsTheScan == cancelled ~> window # "running"

(* With checks that end, every scan ends, however full the channels get.   *)
ScanEnds == ChecksEnd => <>(window # "running")

(* Every scan ends one way or the other (runner.rs run_scan).              *)
EveryScanEnds == ScanEnds /\ CancelEndsTheScan

(* "A module that gave up has stopped working and must stop looking busy"  *)
(* (the test a_failed_module_is_marked_finished): a row whose check has    *)
(* reported stands at the end of its bar.                                  *)
DoneRowsAreFull ==
  \A m \in Modules : row[m].state \in {"finished", "failed"} => row[m].percent = Full
===========================================================================
