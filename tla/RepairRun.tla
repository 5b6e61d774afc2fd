---------------------------- MODULE RepairRun ----------------------------
(***************************************************************************)
(* One repair run: DiagnosticEngine::run_repairs (engine/runner.rs), the   *)
(* task each repair runs in, the way a command's output takes to the       *)
(* repair log (utils/cmd.rs run_cmd_streaming, modules/mod.rs              *)
(* console_lines, the forwarder of run_repairs), and the window that       *)
(* started the run and drains its events (app/run_control.rs,              *)
(* app/events.rs process_repair_events).                                   *)
(***************************************************************************)
EXTENDS Findings, Sequences

CONSTANTS
  Issues,               \* the ids of the findings in the window
  NeedsRestart,         \* those whose repair needs a restart to finish
  Orphans,              \* those whose module this build does not have
  MaxLines,             \* lines of output one command writes
  LineCap,              \* capacity of the line channel (100 in the code)
  FixCap,               \* capacity of a repair's progress channel (50)
  EventCap,             \* capacity of the event channel (100)
  NoIssue

ASSUME IssuesAssumption == /\ IsFiniteSet(Issues) /\ Issues # {}
                           /\ NeedsRestart \subseteq Issues
                           /\ Orphans \subseteq Issues
                           /\ NoIssue \notin Issues
ASSUME CapAssumption == /\ MaxLines \in Nat
                        /\ LineCap \in Nat \ {0}
                        /\ FixCap \in Nat \ {0}
                        /\ EventCap \in Nat \ {0}

VARIABLES
  options,              \* dry_run, create_vss and whether a restore point
                        \* service is there (live); fixed for the run
  engine,               \* where run_repairs is
  work,                 \* its own copy of the findings
  pending,              \* how many it set out to repair
  visited,              \* the ones it has started on (processed)
  current,              \* the one it works on
  outcome,              \* what the select returned for it
  fixed, failed,        \* fixed_count and failed_count
  restore,              \* the restore point asked for
  repair,               \* the task of the current repair
  command,              \* the command it streams: "left" when it has ended
                        \* but a process it started holds its output pipe
  written,              \* lines the command has written
  lineQ, bridge,        \* the line channel, and the line console_lines holds
  fixQ, forwarder,      \* the progress channel, and the one the forwarder holds
  events,               \* the event channel
  cancelled,            \* the cancellation token
  attempted,            \* repairs called on the machine
  issues,               \* App::issues
  dry_run,              \* App::dry_run
  window,               \* "running" while App::is_fixing, then how it ended
  step,                 \* the finding whose repair the window shows as running
  startedSteps,         \* the findings it has shown as running
  tally                 \* the counts it tells the user at the end

runVars    == <<options, pending>>
loopVars   == <<work, visited, current, outcome, fixed, failed, restore>>
outputVars == <<command, written, lineQ, bridge, fixQ, forwarder>>
windowVars == <<issues, dry_run, window, step, startedSteps, tally>>
vars == <<options, engine, work, pending, visited, current, outcome, fixed, failed,
          restore, repair, command, written, lineQ, bridge, fixQ, forwarder, events,
          cancelled, attempted, issues, dry_run, window, step, startedSteps, tally>>

EngineStates == {"enter", "restorePoint", "vssDone", "missing", "loop", "simulate",
                 "noModule", "select", "abort", "drain", "finished", "interrupted",
                 "cancelReport", "returned"}
RepairStates == {"none", "running", "aborting", "dropped"} \cup RepairResults

Tally == [fixed : Nat, failed : Nat, remaining : Nat]

(* Mutant: a repair that found nothing to remove is reported as any other. *)
FixFinishedAsChanged(i, r) ==
  [kind |-> "FixFinished", issue |-> i, result |-> IF r = "nothing" THEN "changed" ELSE r]

DryRunStarted     == [kind |-> "DryRunStarted"]
VssStarted        == [kind |-> "VssStarted"]
VssCompleted(ok)  == [kind |-> "VssCompleted", success |-> ok]
RestorePointMissing == [kind |-> "RestorePointMissing"]
FixStarted(i)     == [kind |-> "FixStarted", issue |-> i]
FixOutput(i)      == [kind |-> "FixOutput", issue |-> i]
FixFinished(i, r) == [kind |-> "FixFinished", issue |-> i, result |-> r]
RepairsCancelled(t) == [kind |-> "RepairsCancelled", tally |-> t]
AllRepairsCompleted(t) == [kind |-> "AllRepairsCompleted", tally |-> t]

TerminalEvent == [kind : {"RestorePointMissing"}]
                   \cup [kind : {"RepairsCancelled", "AllRepairsCompleted"}, tally : Tally]
RepairEvent == [kind : {"DryRunStarted", "VssStarted"}]
                 \cup [kind : {"VssCompleted"}, success : BOOLEAN]
                 \cup [kind : {"FixStarted", "FixOutput"}, issue : Issues]
                 \cup [kind : {"FixFinished"}, issue : Issues, result : RepairResults]
                 \cup TerminalEvent

IsTerminal(e) ==
  e.kind \in {"RestorePointMissing", "RepairsCancelled", "AllRepairsCompleted"}

TypeOK ==
  /\ options \in [dry_run : BOOLEAN, create_vss : BOOLEAN, live : BOOLEAN]
  /\ engine \in EngineStates
  /\ work \in [Issues -> Finding]
  /\ pending \in Nat
  /\ visited \in SUBSET Issues
  /\ current \in Issues \cup {NoIssue}
  /\ outcome \in RepairResults \cup {"none", "cancelled"}
  /\ fixed \in Nat /\ failed \in Nat
  /\ restore \in {"none", "created", "notRequested", "failed"}
  /\ repair \in RepairStates
  /\ command \in {"idle", "running", "left"}
  /\ written \in 0..MaxLines
  /\ lineQ \in 0..LineCap /\ bridge \in BOOLEAN
  /\ fixQ \in 0..FixCap /\ forwarder \in BOOLEAN
  /\ events \in Seq(RepairEvent)
  /\ cancelled \in BOOLEAN
  /\ attempted \in SUBSET Issues
  /\ issues \in [Issues -> Finding]
  /\ dry_run \in BOOLEAN
  /\ window \in {"running", "completed", "cancelled", "missing"}
  /\ step \in Issues \cup {NoIssue}
  /\ startedSteps \in SUBSET Issues
  /\ tally \in Tally

Selected(findings) == {i \in Issues : WillRepair(findings[i])}

(* start_repairs_with has just handed the engine a copy of the findings:   *)
(* some ticked, at least one of them to be repaired.                       *)
Init ==
  /\ options \in [dry_run : BOOLEAN, create_vss : BOOLEAN, live : BOOLEAN]
  /\ \E ticked \in (SUBSET Issues) \ {{}} :
       issues = [i \in Issues |-> Fresh("warning", i \in ticked, i \in NeedsRestart, FALSE)]
  /\ work = issues
  /\ engine = "enter"
  /\ pending = Cardinality(Selected(issues))
  /\ visited = {} /\ current = NoIssue /\ outcome = "none"
  /\ fixed = 0 /\ failed = 0
  /\ restore = "none"
  /\ repair = "none"
  /\ command = "idle" /\ written = 0
  /\ lineQ = 0 /\ bridge = FALSE /\ fixQ = 0 /\ forwarder = FALSE
  /\ events = <<>>
  /\ cancelled = FALSE
  /\ attempted = {}
  /\ dry_run = options.dry_run
  /\ window = "running"
  /\ step = NoIssue /\ startedSteps = {}
  /\ tally = [fixed |-> 0, failed |-> 0, remaining |-> 0]

---------------------------------------------------------------------------
(* The event channel: a send waits while it is full, and fails, which is   *)
(* ignored, once the window has dropped the receiver.                      *)

Send(e) == IF window = "running"
             THEN Len(events) < EventCap /\ events' = Append(events, e)
             ELSE UNCHANGED events

(* Lines can still come: the repair, which holds a sender of the progress  *)
(* channel and of the line channel, or the reader of the command's pipe,   *)
(* which holds one of the line channel - and with it the bridging task,    *)
(* and that one's sender of the progress channel - is still there.         *)
(* Mutant: the forwarder is not awaited.                                   *)
ForwarderNotAwaited == TRUE

SendersGone == /\ repair \notin {"running", "aborting"}
               /\ command = "idle"
               /\ lineQ = 0 /\ ~bridge

ForwarderEnded == SendersGone /\ fixQ = 0 /\ ~forwarder

(* Mutant: the tick is not asked. *)
TodoTickedOrNot == Issues \ visited

Todo == Selected(work) \ visited

Counts(remaining) == [fixed |-> fixed, failed |-> failed, remaining |-> remaining]

(* pending.saturating_sub(processed) *)
Remaining == LET processed == Cardinality(visited)
             IN  IF pending < processed THEN 0 ELSE pending - processed

---------------------------------------------------------------------------
(* run_repairs up to the first repair. *)

Enter ==
  /\ engine = "enter"
  /\ CASE options.dry_run -> Send(DryRunStarted) /\ engine' = "loop"
       [] ~options.dry_run /\ options.create_vss ->
            Send(VssStarted) /\ engine' = "restorePoint"
       [] OTHER -> UNCHANGED events /\ engine' = "loop"
  /\ UNCHANGED <<repair, cancelled, attempted>>
  /\ UNCHANGED runVars /\ UNCHANGED loopVars
  /\ UNCHANGED outputVars /\ UNCHANGED windowVars

(* restore_point.create: not raced against the token. *)
RestorePointReturns ==
  /\ engine = "restorePoint"
  /\ restore' \in IF options.live THEN {"created", "failed"} ELSE {"notRequested"}
  /\ engine' = "vssDone"
  /\ UNCHANGED <<repair, events, cancelled, attempted>>
  /\ UNCHANGED <<work, visited, current, outcome, fixed, failed>>
  /\ UNCHANGED runVars /\ UNCHANGED outputVars /\ UNCHANGED windowVars

ReportRestorePoint ==
  /\ engine = "vssDone"
  /\ Send(VssCompleted(restore = "created"))
  /\ IF restore = "failed"
       THEN /\ work' = [i \in Issues |-> IF WillRepair(work[i])
                                           THEN [work[i] EXCEPT !.fix_error = TRUE]
                                           ELSE work[i]]
            /\ engine' = "missing"
       ELSE UNCHANGED work /\ engine' = "loop"
  /\ UNCHANGED <<repair, cancelled, attempted>>
  /\ UNCHANGED <<visited, current, outcome, fixed, failed, restore>>
  /\ UNCHANGED runVars /\ UNCHANGED outputVars /\ UNCHANGED windowVars

GiveUp ==
  /\ engine = "missing"
  /\ Send(RestorePointMissing)
  /\ engine' = "returned"
  /\ UNCHANGED <<repair, cancelled, attempted>>
  /\ UNCHANGED runVars /\ UNCHANGED loopVars
  /\ UNCHANGED outputVars /\ UNCHANGED windowVars

---------------------------------------------------------------------------
(* The loop over the findings. *)

(* The next finding that will be repaired, the token being asked first. A  *)
(* live repair runs in a task of its own, with a forwarder for its output. *)
NextFix(i) ==
  /\ engine = "loop" /\ ~cancelled
  /\ i \in Todo
  /\ Send(FixStarted(i))
  /\ visited' = visited \cup {i}
  /\ current' = i
  /\ outcome' = "none"
  /\ written' = 0
  /\ IF options.dry_run \/ i \in Orphans
       THEN /\ engine' = IF options.dry_run THEN "simulate" ELSE "noModule"
            /\ UNCHANGED <<repair, attempted>>
       ELSE /\ repair' = "running"
            /\ attempted' = attempted \cup {i}
            /\ engine' = "select"
  /\ UNCHANGED <<cancelled, work, fixed, failed, restore>>
  /\ UNCHANGED <<command, lineQ, bridge, fixQ, forwarder>>
  /\ UNCHANGED runVars /\ UNCHANGED windowVars

StopBetween ==
  /\ engine = "loop" /\ cancelled
  /\ Todo # {}
  /\ Send(RepairsCancelled(Counts(Remaining)))
  /\ engine' = "returned"
  /\ UNCHANGED <<repair, cancelled, attempted>>
  /\ UNCHANGED runVars /\ UNCHANGED loopVars
  /\ UNCHANGED outputVars /\ UNCHANGED windowVars

AllDone ==
  /\ engine = "loop"
  /\ Todo = {}
  /\ Send(AllRepairsCompleted(Counts(0)))
  /\ engine' = "returned"
  /\ UNCHANGED <<repair, cancelled, attempted>>
  /\ UNCHANGED runVars /\ UNCHANGED loopVars
  /\ UNCHANGED outputVars /\ UNCHANGED windowVars

(* simulate_fix reports success and leaves the finding as it is.           *)
SimulateFix ==
  /\ engine = "simulate"
  /\ Send(FixFinished(current, "changed"))
  /\ fixed' = fixed + 1
  /\ engine' = "loop"
  /\ UNCHANGED <<repair, cancelled, attempted, work, visited, current, outcome, failed, restore>>
  /\ UNCHANGED runVars /\ UNCHANGED outputVars /\ UNCHANGED windowVars

ModuleNotFound ==
  /\ engine = "noModule"
  /\ Send(FixFinished(current, "error"))
  /\ failed' = failed + 1
  /\ engine' = "loop"
  /\ UNCHANGED <<repair, cancelled, attempted, work, visited, current, outcome, fixed, restore>>
  /\ UNCHANGED runVars /\ UNCHANGED outputVars /\ UNCHANGED windowVars

(* Mutant: the repair is awaited without the token. *)
SelectWithoutToken == FALSE

(* The biased select: the token first, then the repair's task.             *)
SelectCancelled ==
  /\ engine = "select" /\ cancelled
  /\ outcome' = "cancelled"
  /\ repair' = IF repair = "running" THEN "aborting" ELSE "dropped"
  /\ engine' = "abort"
  /\ UNCHANGED <<events, cancelled, attempted>>
  /\ UNCHANGED <<work, visited, current, fixed, failed, restore>>
  /\ UNCHANGED runVars /\ UNCHANGED outputVars /\ UNCHANGED windowVars

SelectRepair ==
  /\ engine = "select" /\ ~cancelled
  /\ repair \in RepairResults
  /\ outcome' = repair
  /\ engine' = "drain"
  /\ UNCHANGED <<repair, events, cancelled, attempted>>
  /\ UNCHANGED <<work, visited, current, fixed, failed, restore>>
  /\ UNCHANGED runVars /\ UNCHANGED outputVars /\ UNCHANGED windowVars

(* repair.abort(), then the wait for the task to be gone. *)
AbortReturns ==
  /\ engine = "abort"
  /\ repair # "aborting"
  /\ engine' = "drain"
  /\ UNCHANGED <<repair, events, cancelled, attempted>>
  /\ UNCHANGED runVars /\ UNCHANGED loopVars
  /\ UNCHANGED outputVars /\ UNCHANGED windowVars

(* The forwarder is waited for: with the token, or without. *)
Drained ==
  /\ engine = "drain"
  /\ ForwarderEnded
  /\ repair' = "none"
  /\ IF outcome = "cancelled"
       THEN /\ work' = [work EXCEPT ![current].fix_error = TRUE]
            /\ engine' = "interrupted"
            /\ UNCHANGED <<fixed, failed>>
       ELSE /\ work' = [work EXCEPT ![current] = RecordRepair(@, outcome)]
            /\ fixed' = IF outcome # "error" THEN fixed + 1 ELSE fixed
            /\ failed' = IF outcome = "error" THEN failed + 1 ELSE failed
            /\ engine' = "finished"
  /\ UNCHANGED <<events, cancelled, attempted, visited, current, outcome, restore>>
  /\ UNCHANGED runVars /\ UNCHANGED outputVars /\ UNCHANGED windowVars

FinishFix ==
  /\ engine \in {"finished", "interrupted"}
  /\ Send(FixFinished(current, IF outcome = "cancelled" THEN "error" ELSE outcome))
  /\ engine' = IF engine = "finished" THEN "loop" ELSE "cancelReport"
  /\ UNCHANGED <<repair, cancelled, attempted>>
  /\ UNCHANGED runVars /\ UNCHANGED loopVars
  /\ UNCHANGED outputVars /\ UNCHANGED windowVars

ReportCancelled ==
  /\ engine = "cancelReport"
  /\ Send(RepairsCancelled(Counts(Remaining)))
  /\ engine' = "returned"
  /\ UNCHANGED <<repair, cancelled, attempted>>
  /\ UNCHANGED runVars /\ UNCHANGED loopVars
  /\ UNCHANGED outputVars /\ UNCHANGED windowVars

---------------------------------------------------------------------------
(* The repair's task and the command it streams. At most one of the        *)
(* commands of a repair is modelled, as the streamed ones (DISM, SFC) are. *)

RepairStartsCommand ==
  /\ repair = "running" /\ command = "idle" /\ written = 0
  /\ command' = "running"
  /\ UNCHANGED <<engine, repair, written, lineQ, bridge, fixQ, forwarder>>
  /\ UNCHANGED <<events, cancelled, attempted>>
  /\ UNCHANGED runVars /\ UNCHANGED loopVars /\ UNCHANGED windowVars

(* The reader hands a line to the line channel, waiting while it is full.  *)
CommandWrites ==
  /\ command # "idle"
  /\ written < MaxLines /\ lineQ < LineCap
  /\ written' = written + 1
  /\ lineQ' = lineQ + 1
  /\ UNCHANGED <<engine, repair, command, bridge, fixQ, forwarder>>
  /\ UNCHANGED <<events, cancelled, attempted>>
  /\ UNCHANGED runVars /\ UNCHANGED loopVars /\ UNCHANGED windowVars

(* The command ends by itself and its job lets go of what it left running, *)
(* which may hold the pipe; or its time is up and it is killed.            *)
CommandExits ==
  /\ command = "running"
  /\ command' \in IF repair = "running" THEN {"idle", "left"} ELSE {"idle"}
  /\ UNCHANGED <<engine, repair, written, lineQ, bridge, fixQ, forwarder>>
  /\ UNCHANGED <<events, cancelled, attempted>>
  /\ UNCHANGED runVars /\ UNCHANGED loopVars /\ UNCHANGED windowVars

LeftoverExits ==
  /\ command = "left"
  /\ command' = "idle"
  /\ UNCHANGED <<engine, repair, written, lineQ, bridge, fixQ, forwarder>>
  /\ UNCHANGED <<events, cancelled, attempted>>
  /\ UNCHANGED runVars /\ UNCHANGED loopVars /\ UNCHANGED windowVars

(* It returns once the command has ended (drain_readers waits only so long *)
(* for the readers); a panic drops the command, which its job then ends.   *)
RepairReturns ==
  /\ repair = "running"
  /\ \/ command # "running" /\ repair' \in RepairResults /\ UNCHANGED command
     \/ command = "running" /\ repair' = "error" /\ command' = "idle"
  /\ UNCHANGED <<engine, written, lineQ, bridge, fixQ, forwarder>>
  /\ UNCHANGED <<events, cancelled, attempted>>
  /\ UNCHANGED runVars /\ UNCHANGED loopVars /\ UNCHANGED windowVars

(* Aborted, the repair is dropped at its next await, and the command that  *)
(* still runs with it. What a finished command left behind is not.         *)
RepairDropped ==
  /\ repair = "aborting"
  /\ repair' = "dropped"
  /\ command' = IF command = "running" THEN "idle" ELSE command
  /\ UNCHANGED <<engine, written, lineQ, bridge, fixQ, forwarder>>
  /\ UNCHANGED <<events, cancelled, attempted>>
  /\ UNCHANGED runVars /\ UNCHANGED loopVars /\ UNCHANGED windowVars

BridgeTakes ==
  /\ ~bridge /\ lineQ > 0
  /\ bridge' = TRUE
  /\ lineQ' = lineQ - 1
  /\ UNCHANGED <<engine, repair, command, written, fixQ, forwarder>>
  /\ UNCHANGED <<events, cancelled, attempted>>
  /\ UNCHANGED runVars /\ UNCHANGED loopVars /\ UNCHANGED windowVars

BridgeSends ==
  /\ bridge /\ fixQ < FixCap
  /\ bridge' = FALSE
  /\ fixQ' = fixQ + 1
  /\ UNCHANGED <<engine, repair, command, written, lineQ, forwarder>>
  /\ UNCHANGED <<events, cancelled, attempted>>
  /\ UNCHANGED runVars /\ UNCHANGED loopVars /\ UNCHANGED windowVars

ForwarderTakes ==
  /\ ~forwarder /\ fixQ > 0
  /\ forwarder' = TRUE
  /\ fixQ' = fixQ - 1
  /\ UNCHANGED <<engine, repair, command, written, lineQ, bridge>>
  /\ UNCHANGED <<events, cancelled, attempted>>
  /\ UNCHANGED runVars /\ UNCHANGED loopVars /\ UNCHANGED windowVars

ForwarderSends ==
  /\ forwarder
  /\ Send(FixOutput(current))
  /\ forwarder' = FALSE
  /\ UNCHANGED <<engine, repair, command, written, lineQ, bridge, fixQ>>
  /\ UNCHANGED <<cancelled, attempted>>
  /\ UNCHANGED runVars /\ UNCHANGED loopVars /\ UNCHANGED windowVars

---------------------------------------------------------------------------
(* The window. *)

Receives(kinds) == window = "running" /\ events # <<>> /\ Head(events).kind \in kinds

EngineSide == <<engine, repair, cancelled, attempted>>

OnRestorePointStep ==
  /\ Receives({"DryRunStarted", "VssStarted", "VssCompleted"})
  /\ events' = Tail(events)
  /\ UNCHANGED windowVars
  /\ UNCHANGED EngineSide /\ UNCHANGED runVars /\ UNCHANGED loopVars /\ UNCHANGED outputVars

OnFixStarted ==
  /\ Receives({"FixStarted"})
  /\ step' = Head(events).issue
  /\ startedSteps' = startedSteps \cup {Head(events).issue}
  /\ events' = Tail(events)
  /\ UNCHANGED <<issues, dry_run, window, tally>>
  /\ UNCHANGED EngineSide /\ UNCHANGED runVars /\ UNCHANGED loopVars /\ UNCHANGED outputVars

(* push_fix_output: a line of the log and the percentage of the step shown.*)
OnFixOutput ==
  /\ Receives({"FixOutput"})
  /\ events' = Tail(events)
  /\ UNCHANGED windowVars
  /\ UNCHANGED EngineSide /\ UNCHANGED runVars /\ UNCHANGED loopVars /\ UNCHANGED outputVars

(* A simulation must never flip an issue to "fixed". *)
OnFixFinished ==
  /\ Receives({"FixFinished"})
  /\ LET i == Head(events).issue
         r == Head(events).result
     IN  /\ issues' = IF dry_run THEN issues
                                 ELSE [issues EXCEPT ![i] = RecordRepair(@, r)]
         /\ tally' = [tally EXCEPT !.fixed = IF r = "error" THEN @ ELSE @ + 1,
                                   !.failed = IF r = "error" THEN @ + 1 ELSE @]
  /\ step' = NoIssue
  /\ events' = Tail(events)
  /\ UNCHANGED <<dry_run, window, startedSteps>>
  /\ UNCHANGED EngineSide /\ UNCHANGED runVars /\ UNCHANGED loopVars /\ UNCHANGED outputVars

OnRunEnded ==
  /\ Receives({"RepairsCancelled", "AllRepairsCompleted"})
  /\ window' = IF Head(events).kind = "AllRepairsCompleted" THEN "completed" ELSE "cancelled"
  /\ tally' = Head(events).tally
  /\ step' = NoIssue
  /\ events' = <<>>
  /\ UNCHANGED <<issues, dry_run, startedSteps>>
  /\ UNCHANGED EngineSide /\ UNCHANGED runVars /\ UNCHANGED loopVars /\ UNCHANGED outputVars

OnRestorePointMissing ==
  /\ Receives({"RestorePointMissing"})
  /\ window' = "missing"
  /\ step' = NoIssue
  /\ events' = <<>>
  /\ UNCHANGED <<issues, dry_run, startedSteps, tally>>
  /\ UNCHANGED EngineSide /\ UNCHANGED runVars /\ UNCHANGED loopVars /\ UNCHANGED outputVars

UserCancels ==
  /\ window = "running" /\ ~cancelled
  /\ cancelled' = TRUE
  /\ UNCHANGED <<engine, repair, events, attempted>>
  /\ UNCHANGED runVars /\ UNCHANGED loopVars
  /\ UNCHANGED outputVars /\ UNCHANGED windowVars

(* Mutant: the switch is not locked while a run is in progress. *)
ToggleDryRunAnyTime ==
  /\ dry_run' = ~dry_run
  /\ UNCHANGED <<events, issues, window, step, startedSteps, tally>>
  /\ UNCHANGED EngineSide /\ UNCHANGED runVars /\ UNCHANGED loopVars /\ UNCHANGED outputVars

(* Refused while the window is busy. *)
ToggleDryRun ==
  /\ window # "running"
  /\ dry_run' = ~dry_run
  /\ UNCHANGED <<events, issues, window, step, startedSteps, tally>>
  /\ UNCHANGED EngineSide /\ UNCHANGED runVars /\ UNCHANGED loopVars /\ UNCHANGED outputVars

---------------------------------------------------------------------------
Engine == \/ Enter \/ ReportRestorePoint \/ GiveUp
          \/ (\E i \in Issues : NextFix(i)) \/ StopBetween \/ AllDone
          \/ SimulateFix \/ ModuleNotFound
          \/ SelectCancelled \/ SelectRepair \/ AbortReturns \/ Drained
          \/ FinishFix \/ ReportCancelled

Pipeline == BridgeTakes \/ BridgeSends \/ ForwarderTakes \/ ForwarderSends

Window == \/ OnRestorePointStep \/ OnFixStarted \/ OnFixOutput \/ OnFixFinished
          \/ OnRunEnded \/ OnRestorePointMissing

Next == \/ Engine \/ RestorePointReturns
        \/ RepairStartsCommand \/ CommandWrites \/ CommandExits \/ LeftoverExits
        \/ RepairReturns \/ RepairDropped
        \/ Pipeline \/ Window
        \/ UserCancels \/ ToggleDryRun

Spec == Init /\ [][Next]_vars

(* tokio polls what is ready, the window draws frames while it is busy,    *)
(* the restore point script runs into its timeout if need be, and an       *)
(* aborted repair is dropped at its next await.                            *)
Scheduling == /\ WF_vars(Engine) /\ WF_vars(RestorePointReturns)
              /\ WF_vars(BridgeTakes \/ BridgeSends)
              /\ WF_vars(ForwarderTakes \/ ForwarderSends)
              /\ WF_vars(Window) /\ WF_vars(RepairDropped)

LiveSpec == Spec /\ Scheduling

(* Commands end or run into their timeouts, and repairs with them.         *)
RepairsEnd == WF_vars(CommandExits) /\ WF_vars(RepairReturns)

(* Whatever a command left running ends at some time.                      *)
LeftoversEnd == WF_vars(LeftoverExits)

---------------------------------------------------------------------------
(* No event follows the one that ends the run, and by then nothing the run *)
(* started is still at work: no repair, no command, no line on its way.    *)
EndIsTheEnd ==
  /\ \A n \in 1..Len(events) :
       IsTerminal(events[n]) => n = Len(events) /\ engine = "returned"
  /\ engine = "returned" => repair = "none" /\ ForwarderEnded
  /\ window # "running" => engine = "returned" /\ events = <<>>

(* At the end the window, which follows the events, and the engine, whose  *)
(* list the command line reports, agree on what became of each finding,    *)
(* and only a finding whose repair was called is fixed or waits.           *)
WindowAgreesWithEngine ==
  window # "running" =>
    \A i \in Issues : /\ issues[i].is_fixed = work[i].is_fixed
                      /\ issues[i].is_reboot_pending = work[i].is_reboot_pending
                      /\ issues[i].is_selected = work[i].is_selected
                      /\ issues[i].is_fixed \/ issues[i].is_reboot_pending =>
                           i \in attempted

(* A simulation asks for no restore point, calls no repair and starts no   *)
(* command (runner.rs run_repairs asks options.dry_run before each), and   *)
(* "must never flip an issue to fixed" (events.rs), whatever the user does *)
(* to the switch while the run's events are on their way.                  *)
SimulationChangesNothing ==
  options.dry_run =>
    /\ restore = "none" /\ attempted = {} /\ repair = "none" /\ command = "idle"
    /\ \A i \in Issues : /\ ~issues[i].is_fixed /\ ~issues[i].is_reboot_pending
                         /\ ~issues[i].fix_error
                         /\ issues[i].is_selected = work[i].is_selected

(* What the window tells at the end adds up: a completed run worked on     *)
(* every finding, and of a cancelled one "never attempted" are exactly     *)
(* those it never showed as running; a repair that was interrupted is in   *)
(* none of the three numbers, and there is at most one.                    *)
TallyAddsUp ==
  LET started == Cardinality(startedSteps)
  IN  /\ window = "completed" => /\ tally.fixed + tally.failed = pending
                                 /\ started = pending
      /\ window = "cancelled" => /\ tally.remaining = pending - started
                                 /\ started - (tally.fixed + tally.failed) \in {0, 1}

(* A line of output reaches the window while its own repair is shown: its  *)
(* percentage is that of the step it is drawn under.                       *)
OutputInsideItsStep == Receives({"FixOutput"}) => step = Head(events).issue

(* Through two channels and three tasks every message is of its kind, in   *)
(* its place and before the end (runner.rs run_repairs, events.rs).        *)
EventsInOrder == TypeOK /\ EndIsTheEnd /\ OutputInsideItsStep

(* What the window tells of a finding and of the run is what the engine    *)
(* did (events.rs FixFinished, AllRepairsCompleted).                       *)
WindowTellsTheOutcome == WindowAgreesWithEngine /\ TallyAddsUp

(* The promise to the machine. A repair is active while its task or the    *)
(* command it started lives.                                               *)
Contract == INSTANCE RepairContract WITH
  allowed <- Selected(issues) \cup visited,
  mayStart <- /\ ~options.dry_run
              /\ options.create_vss => restore \in {"created", "notRequested"},
  active <- IF repair \in {"running", "aborting"} \/ command = "running"
              THEN {current} ELSE {},
  ended <- engine = "returned"

ImplementsContract == Contract!Spec

(* Every run ends, however full its channels get, if what a command leaves *)
(* running ends.                                                           *)
RunEnds == RepairsEnd /\ LeftoversEnd => <>(window # "running")

(* So does a cancelled one, if its repair would never return by itself.    *)
CancelEndsTheRun == LeftoversEnd => (cancelled ~> window # "running")

(* However it ends (runner.rs run_repairs, the select on the token).       *)
EveryRunEnds == RunEnds /\ CancelEndsTheRun

(* "Waiting for the readers without a limit then waited for that process,  *)
(* however long it ran" (cmd.rs, of PIPE_DRAIN_LIMIT, which ends that wait *)
(* for the command): a process a command left running does not hold up the *)
(* run.                                                                    *)
LeftoverDoesNotHoldTheRun == RepairsEnd => <>(window # "running")
===========================================================================
