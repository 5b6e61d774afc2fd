-------------------------- MODULE RepairRunProofs --------------------------
(***************************************************************************)
(* Theorems about RepairRun, for any finite set of findings and any        *)
(* capacity of the channels.                                               *)
(***************************************************************************)
EXTENDS RepairRun, SequenceTheorems, FiniteSetTheorems, TLAPS

(* A repair is under way, or a finding is being dealt with otherwise.      *)
Working == {"select", "abort", "drain"}
Stepping == {"simulate", "noModule"} \cup Working
Preparing == {"enter", "restorePoint", "vssDone", "missing"}
Unsent == {"finished", "interrupted"}

(* What stands before the first repair: a simulation asks for no restore   *)
(* point and calls none, a run that asked for one waited for it.           *)
Protected ==
  /\ options.dry_run => /\ engine \in {"enter", "loop", "simulate", "returned"}
                        /\ attempted = {} /\ restore = "none"
  /\ engine = "simulate" => options.dry_run
  /\ engine \in {"restorePoint", "vssDone", "missing"} => options.create_vss
  /\ engine \in {"enter", "restorePoint"} => restore = "none"
  /\ engine = "vssDone" => restore # "none"
  /\ engine \in Preparing => visited = {}
  /\ ~options.dry_run /\ options.create_vss /\ engine \notin Preparing \cup {"returned"} =>
       restore \in {"created", "notRequested"}
  /\ attempted \subseteq visited

(* Where the engine is tells what can still be at work behind it.          *)
Machine ==
  /\ engine = "select" => repair \in {"running"} \cup RepairResults
  /\ engine = "abort" => repair \in {"aborting", "dropped"} /\ outcome = "cancelled"
  /\ engine = "drain" => \/ outcome = "cancelled" /\ repair = "dropped"
                         \/ outcome \in RepairResults /\ repair = outcome
  /\ engine \notin Working => repair = "none" /\ ForwarderEnded
  /\ command = "running" => repair \in {"running", "aborting"}
  /\ engine = "finished" => outcome \in RepairResults
  /\ engine = "interrupted" => outcome = "cancelled"
  /\ engine \in Stepping \cup Unsent => current \in visited
  /\ engine \in Working \cup Unsent => current \in attempted

(* Terminal events stand at the end of the channel, behind a returned      *)
(* engine; the window ends on one.                                         *)
Terminals ==
  /\ \A n \in 1..Len(events) :
       IsTerminal(events[n]) => n = Len(events) /\ engine = "returned"
  /\ window # "running" => engine = "returned" /\ events = <<>>

OfStep(e) == e.kind \in {"FixStarted", "FixOutput"}

(* A line of output follows the start of its own repair or another of its  *)
(* lines, in the channel as across the window's end of it.                 *)
Lines ==
  window = "running" =>
    /\ \A n \in 1..Len(events) :
         events[n].kind = "FixOutput" =>
           \/ n = 1 /\ step = events[n].issue
           \/ n # 1 /\ OfStep(events[n - 1]) /\ events[n - 1].issue = events[n].issue
    /\ engine \in Working =>
         \/ events = <<>> /\ step = current
         \/ /\ events # <<>> /\ OfStep(events[Len(events)])
            /\ events[Len(events)].issue = current

(* Two records of a finding that agree on what a repair did to it.         *)
Same(f, g) == /\ f.is_fixed = g.is_fixed /\ f.is_reboot_pending = g.is_reboot_pending
              /\ f.is_selected = g.is_selected /\ f.requires_reboot = g.requires_reboot
              /\ f.advice_only = g.advice_only

ResultOnItsWay(i) ==
  \E n \in 1..Len(events) : events[n].kind = "FixFinished" /\ events[n].issue = i
StartOnItsWay(i) ==
  \E n \in 1..Len(events) : events[n].kind = "FixStarted" /\ events[n].issue = i
Sent == IF outcome = "cancelled" THEN "error" ELSE outcome
After(f, r) == IF options.dry_run THEN f ELSE RecordRepair(f, r)

(* The engine's own list: only a repair that was called fixes anything.    *)
Works ==
  /\ \A i \in Issues : work[i].is_fixed \/ work[i].is_reboot_pending => i \in attempted
  /\ engine \in Stepping => WillRepair(work[current])

(* In a simulation nobody's list changes.                                  *)
Simulated ==
  options.dry_run => issues = work /\ \A i \in Issues : ~work[i].fix_error

(* The two lists differ by the results on their way, one for a finding.    *)
Results ==
  window = "running" =>
    /\ dry_run = options.dry_run
    /\ \A n \in 1..Len(events) :
         events[n].kind = "FixFinished" =>
           /\ events[n].issue \in visited
           /\ engine \in Stepping \cup Unsent => events[n].issue # current
           /\ Same(After(issues[events[n].issue], events[n].result), work[events[n].issue])
           /\ \A m \in 1..Len(events) :
                events[m].kind = "FixFinished" /\ events[m].issue = events[n].issue => m = n
    /\ engine \in Unsent => Same(After(issues[current], Sent), work[current])
    /\ \A i \in Issues :
         ~ResultOnItsWay(i) /\ ~(engine \in Unsent /\ i = current) => Same(issues[i], work[i])

(* The numbers: what was set out to be repaired, what is done with, what   *)
(* the window has seen started.                                            *)
Counted ==
  /\ pending = Cardinality(Selected(work) \cup visited)
  /\ engine # "returned" =>
       Cardinality(visited) =
         fixed + failed + (IF engine \in Stepping \cup {"interrupted", "cancelReport"}
                             THEN 1 ELSE 0)
  /\ window = "running" => \A i \in Issues : i \in visited <=> i \in startedSteps \/ StartOnItsWay(i)

Ends ==
  \A n \in 1..Len(events) :
    LET t == events[n].tally
    IN  /\ events[n].kind = "AllRepairsCompleted" =>
             t.fixed + t.failed = pending /\ Cardinality(visited) = pending
        /\ events[n].kind = "RepairsCancelled" =>
             /\ t.remaining = pending - Cardinality(visited)
             /\ Cardinality(visited) - (t.fixed + t.failed) \in {0, 1}

IInv == /\ TypeOK /\ Protected /\ Machine /\ Terminals /\ Lines /\ Works /\ Simulated
        /\ Results /\ Counted /\ Ends /\ WindowAgreesWithEngine /\ TallyAddsUp

---------------------------------------------------------------------------
(* Lemmas about findings, sequences and the events.                        *)

LEMMA RecordRepairType ==
  ASSUME NEW f \in Finding, NEW r \in RepairResults
  PROVE  RecordRepair(f, r) \in Finding
BY DEF Finding, RepairResults, RecordRepair

(* What a repair's result does to a finding depends on what Same compares. *)
LEMMA SameAfterRepair ==
  ASSUME NEW f \in Finding, NEW g \in Finding, NEW r \in RepairResults, Same(f, g)
  PROVE  Same(RecordRepair(f, r), RecordRepair(g, r))
BY DEF Finding, RepairResults, RecordRepair, Same

(* A failed repair leaves what was to be repaired to be repaired.          *)
LEMMA SameAfterError ==
  ASSUME NEW f \in Finding, NEW g \in Finding, Same(f, g), WillRepair(g)
  PROVE  Same(RecordRepair(f, "error"), g)
BY DEF Finding, RecordRepair, Same, WillRepair, IsRepairable

LEMMA InterruptedType ==
  ASSUME NEW f \in Finding
  PROVE  [f EXCEPT !.fix_error = TRUE] \in Finding
BY DEF Finding

LEMMA SameSelects ==
  ASSUME NEW f \in Finding, NEW g \in Finding, Same(f, g)
  PROVE  WillRepair(f) <=> WillRepair(g)
BY DEF Finding, Same, WillRepair, IsRepairable

(* A sequence that grows at its end keeps what it held.                    *)
LEMMA AppendKeeps ==
  ASSUME NEW S, NEW s \in Seq(S), NEW e \in S
  PROVE  /\ Append(s, e) \in Seq(S)
         /\ Len(Append(s, e)) = Len(s) + 1
         /\ \A i \in 1..Len(s) : Append(s, e)[i] = s[i]
         /\ Append(s, e)[Len(s) + 1] = e
OBVIOUS

(* A sequence that loses its head keeps the rest, one place earlier.       *)
LEMMA TailKeeps ==
  ASSUME NEW S, NEW s \in Seq(S), s # <<>>
  PROVE  /\ Head(s) \in S
         /\ Head(s) = s[1]
         /\ Tail(s) \in Seq(S)
         /\ Len(Tail(s)) = Len(s) - 1
         /\ Len(s) \in Nat \ {0}
         /\ \A i \in 1..Len(s) - 1 : Tail(s)[i] = s[i + 1]
OBVIOUS

(* What run_repairs and the forwarder send are events.                     *)
LEMMA EventTypes ==
  /\ DryRunStarted \in RepairEvent /\ VssStarted \in RepairEvent
  /\ RestorePointMissing \in RepairEvent
  /\ \A ok \in BOOLEAN : VssCompleted(ok) \in RepairEvent
  /\ \A i \in Issues : FixStarted(i) \in RepairEvent /\ FixOutput(i) \in RepairEvent
  /\ \A i \in Issues, r \in RepairResults : FixFinished(i, r) \in RepairEvent
  /\ \A t \in Tally : RepairsCancelled(t) \in RepairEvent /\ AllRepairsCompleted(t) \in RepairEvent
BY DEF DryRunStarted, VssStarted, RestorePointMissing, VssCompleted, FixStarted, FixOutput,
       FixFinished, RepairsCancelled, AllRepairsCompleted, RepairEvent, TerminalEvent

(* What the window reads off an event is what its kind carries.            *)
LEMMA EventFields ==
  ASSUME NEW e \in RepairEvent
  PROVE  /\ e.kind \in {"FixStarted", "FixOutput", "FixFinished"} => e.issue \in Issues
         /\ e.kind = "FixFinished" => e.result \in RepairResults
         /\ e.kind \in {"RepairsCancelled", "AllRepairsCompleted"} => e.tally \in Tally
BY DEF RepairEvent, TerminalEvent

LEMMA TallyCounts ==
  ASSUME NEW t \in Tally, NEW f \in Nat, NEW g \in Nat
  PROVE  [t EXCEPT !.fixed = f, !.failed = g] \in Tally
BY DEF Tally

LEMMA CountsType ==
  ASSUME TypeOK, NEW n \in Nat
  PROVE  Counts(n) \in Tally
BY DEF TypeOK, Counts, Tally

LEMMA VisitedCount ==
  ASSUME TypeOK
  PROVE  IsFiniteSet(visited) /\ Cardinality(visited) \in Nat /\ Remaining \in Nat
<1>1. IsFiniteSet(visited) /\ Cardinality(visited) \in Nat
  BY IssuesAssumption, FS_Subset, FS_CardinalityType DEF TypeOK
<1> QED BY <1>1 DEF Remaining, TypeOK

---------------------------------------------------------------------------
(* The steps behind the engine's back: a command and its output on the way *)
(* to the forwarder. They touch nothing else.                              *)
Behind == \/ RepairStartsCommand \/ CommandWrites \/ CommandExits \/ LeftoverExits
          \/ RepairReturns \/ RepairDropped \/ BridgeTakes \/ BridgeSends \/ ForwarderTakes

LEMMA BehindTouches ==
  ASSUME Behind
  PROVE  /\ UNCHANGED <<engine, events, cancelled, attempted>>
         /\ UNCHANGED <<options, pending>> /\ UNCHANGED loopVars /\ UNCHANGED windowVars
BY DEF Behind, RepairStartsCommand, CommandWrites, CommandExits, LeftoverExits, RepairReturns,
       RepairDropped, BridgeTakes, BridgeSends, ForwarderTakes, runVars

LEMMA NextCases ==
  ASSUME [Next]_vars
  PROVE  \/ Engine \/ RestorePointReturns \/ Behind \/ ForwarderSends \/ Window
         \/ UserCancels \/ ToggleDryRun \/ UNCHANGED vars
BY DEF Next, Pipeline, Behind

(* A send appends to the channel or, with the receiver gone, does nothing. *)
LEMMA SendKeepsType ==
  ASSUME events \in Seq(RepairEvent), NEW e \in RepairEvent, Send(e)
  PROVE  events' \in Seq(RepairEvent)
BY DEF Send

LEMMA EngineStepKeepsType ==
  ASSUME TypeOK, Machine, Engine
  PROVE  TypeOK'
<1> USE EventTypes DEF TypeOK, EngineStates, RepairStates, RepairResults
<1> USE DEF runVars, loopVars, outputVars, windowVars
<1>1. CASE Enter
  <2>1. events' \in Seq(RepairEvent)
    BY <1>1, SendKeepsType DEF Enter
  <2> QED BY <1>1, <2>1 DEF Enter
<1>2. CASE ReportRestorePoint
  <2>1. events' \in Seq(RepairEvent)
    BY <1>2, SendKeepsType DEF ReportRestorePoint
  <2>2. work' \in [Issues -> Finding]
    BY <1>2, InterruptedType DEF ReportRestorePoint
  <2> QED BY <1>2, <2>1, <2>2 DEF ReportRestorePoint
<1>3. CASE GiveUp
  BY <1>3, SendKeepsType DEF GiveUp
<1>4. ASSUME NEW i \in Issues, NextFix(i)
      PROVE  TypeOK'
  <2>1. events' \in Seq(RepairEvent)
    BY <1>4, SendKeepsType DEF NextFix
  <2> QED BY <1>4, <2>1, CapAssumption DEF NextFix
<1>5. CASE StopBetween
  <2>1. RepairsCancelled(Counts(Remaining)) \in RepairEvent
    BY VisitedCount, CountsType
  <2> QED BY <1>5, <2>1, SendKeepsType DEF StopBetween
<1>6. CASE AllDone
  <2>1. AllRepairsCompleted(Counts(0)) \in RepairEvent
    BY CountsType
  <2> QED BY <1>6, <2>1, SendKeepsType DEF AllDone
<1>7. CASE SimulateFix
  <2>1. current \in Issues
    BY <1>7 DEF SimulateFix, Machine, Stepping
  <2>2. events' \in Seq(RepairEvent)
    BY <1>7, <2>1, SendKeepsType DEF SimulateFix
  <2> QED BY <1>7, <2>2 DEF SimulateFix
<1>8. CASE ModuleNotFound
  <2>1. current \in Issues
    BY <1>8 DEF ModuleNotFound, Machine, Stepping
  <2>2. events' \in Seq(RepairEvent)
    BY <1>8, <2>1, SendKeepsType DEF ModuleNotFound
  <2> QED BY <1>8, <2>2 DEF ModuleNotFound
<1>9. CASE SelectCancelled
  BY <1>9 DEF SelectCancelled
<1>10. CASE SelectRepair
  BY <1>10 DEF SelectRepair
<1>11. CASE AbortReturns
  BY <1>11 DEF AbortReturns
<1>12. CASE Drained
  <2>1. current \in Issues
    BY <1>12 DEF Drained, Machine, Stepping, Working
  <2>2. outcome \in RepairResults \cup {"cancelled"}
    BY <1>12 DEF Drained, Machine
  <2>3. work' \in [Issues -> Finding]
    <3>1. CASE outcome = "cancelled"
      BY <1>12, <2>1, <3>1, InterruptedType DEF Drained
    <3>2. CASE outcome # "cancelled"
      <4>1. RecordRepair(work[current], outcome) \in Finding
        BY <2>1, <2>2, <3>2, RecordRepairType
      <4> QED BY <1>12, <2>1, <3>2, <4>1 DEF Drained
    <3> QED BY <3>1, <3>2
  <2> QED BY <1>12, <2>3 DEF Drained
<1>13. CASE FinishFix
  <2>1. current \in Issues /\ outcome \in RepairResults \cup {"cancelled"}
    BY <1>13 DEF FinishFix, Machine, Unsent
  <2>2. events' \in Seq(RepairEvent)
    BY <1>13, <2>1, SendKeepsType DEF FinishFix
  <2> QED BY <1>13, <2>2 DEF FinishFix
<1>14. CASE ReportCancelled
  <2>1. RepairsCancelled(Counts(Remaining)) \in RepairEvent
    BY VisitedCount, CountsType
  <2> QED BY <1>14, <2>1, SendKeepsType DEF ReportCancelled
<1> QED BY <1>1, <1>2, <1>3, <1>4, <1>5, <1>6, <1>7, <1>8, <1>9, <1>10, <1>11, <1>12, <1>13,
           <1>14 DEF Engine

LEMMA BehindStepKeepsType ==
  ASSUME TypeOK, Behind
  PROVE  TypeOK'
<1> USE CapAssumption DEF TypeOK, RepairStates, RepairResults
<1> USE DEF runVars, loopVars, outputVars, windowVars
<1>1. CASE RepairStartsCommand \/ CommandExits \/ LeftoverExits \/ RepairReturns \/ RepairDropped
  BY <1>1 DEF RepairStartsCommand, CommandExits, LeftoverExits, RepairReturns, RepairDropped
<1>2. CASE CommandWrites
  BY <1>2 DEF CommandWrites
<1>3. CASE BridgeTakes
  BY <1>3 DEF BridgeTakes
<1>4. CASE BridgeSends
  <2>1. fixQ' \in 0..FixCap
    <3>1. fixQ \in Nat /\ fixQ < FixCap /\ fixQ' = fixQ + 1 /\ FixCap \in Nat
      BY <1>4 DEF BridgeSends
    <3> QED BY ONLY <3>1
  <2>3. bridge' \in BOOLEAN
    BY <1>4 DEF BridgeSends
  <2>2. UNCHANGED <<options, engine, work, pending, visited, current, outcome,
                   fixed, failed, restore, repair, command, written, lineQ,
                   forwarder, events, cancelled, attempted, issues, dry_run,
                   window, step, startedSteps, tally>>
    BY <1>4 DEF BridgeSends
  <2> QED BY <2>1, <2>2, <2>3
<1>5. CASE ForwarderTakes
  BY <1>5 DEF ForwarderTakes
<1> QED BY <1>1, <1>2, <1>3, <1>4, <1>5 DEF Behind

LEMMA WindowStepKeepsType ==
  ASSUME TypeOK, Window
  PROVE  TypeOK'
<1> DEFINE e == Head(events)
<1>1. /\ e \in RepairEvent /\ Tail(events) \in Seq(RepairEvent) /\ <<>> \in Seq(RepairEvent)
  BY TailKeeps DEF TypeOK, Window, Receives, OnRestorePointStep, OnFixStarted, OnFixOutput,
     OnFixFinished, OnRunEnded, OnRestorePointMissing
<1> USE <1>1 DEF TypeOK, Receives, EngineSide, runVars, loopVars, outputVars, windowVars
<1>2. CASE OnRestorePointStep \/ OnFixOutput
  <2>1. events' \in Seq(RepairEvent)
    BY <1>2 DEF OnRestorePointStep, OnFixOutput
  <2>2. UNCHANGED <<options, engine, work, pending, visited, current, outcome,
                   fixed, failed, restore, repair, command, written, lineQ,
                   bridge, fixQ, forwarder, cancelled, attempted, issues,
                   dry_run, window, step, startedSteps, tally>>
    BY <1>2 DEF OnRestorePointStep, OnFixOutput
  <2> QED BY <2>1, <2>2
<1>3. CASE OnFixStarted
  <2>1. e.issue \in Issues
    BY <1>3, EventFields DEF OnFixStarted
  <2> QED BY <1>3, <2>1 DEF OnFixStarted
<1>4. CASE OnFixFinished
  <2>1. e.issue \in Issues /\ e.result \in RepairResults
    BY <1>4, EventFields DEF OnFixFinished
  <2>2. issues' \in [Issues -> Finding]
    <3>1. RecordRepair(issues[e.issue], e.result) \in Finding
      BY <2>1, RecordRepairType
    <3> QED BY <1>4, <2>1, <3>1 DEF OnFixFinished
  <2>3. tally' \in Tally
    <3>1. tally \in Tally /\ tally.fixed \in Nat /\ tally.failed \in Nat
      BY DEF Tally
    <3>2. CASE e.result = "error"
      <4>1. tally' = [tally EXCEPT !.fixed = tally.fixed, !.failed = tally.failed + 1]
        BY <1>4, <3>2 DEF OnFixFinished
      <4>2. tally.failed + 1 \in Nat /\ tally.fixed + 1 \in Nat
        BY ONLY <3>1
      <4> QED BY ONLY <3>1, <4>1, <4>2, TallyCounts
    <3>3. CASE e.result # "error"
      <4>1. tally' = [tally EXCEPT !.fixed = tally.fixed + 1, !.failed = tally.failed]
        BY <1>4, <3>3 DEF OnFixFinished
      <4>2. tally.failed + 1 \in Nat /\ tally.fixed + 1 \in Nat
        BY ONLY <3>1
      <4> QED BY ONLY <3>1, <4>1, <4>2, TallyCounts
    <3> QED BY <3>2, <3>3
  <2>4. step' \in Issues \cup {NoIssue} /\ events' \in Seq(RepairEvent)
    BY <1>4 DEF OnFixFinished
  <2>5. UNCHANGED <<options, engine, work, pending, visited, current, outcome,
                   fixed, failed, restore, repair, command, written, lineQ,
                   bridge, fixQ, forwarder, cancelled, attempted, dry_run,
                   window, startedSteps>>
    BY <1>4 DEF OnFixFinished
  <2> QED BY <2>2, <2>3, <2>4, <2>5
<1>5. CASE OnRunEnded
  <2>1. e.tally \in Tally
    BY <1>5, EventFields DEF OnRunEnded
  <2> QED BY <1>5, <2>1 DEF OnRunEnded
<1>6. CASE OnRestorePointMissing
  BY <1>6 DEF OnRestorePointMissing
<1> QED BY <1>2, <1>3, <1>4, <1>5, <1>6 DEF Window

LEMMA TypeStep ==
  ASSUME TypeOK, Machine, [Next]_vars
  PROVE  TypeOK'
<1>1. CASE RestorePointReturns
  BY <1>1 DEF RestorePointReturns, TypeOK, EngineStates, runVars, outputVars, windowVars
<1>2. CASE ForwarderSends
  <2>1. current \in Issues
    BY <1>2 DEF ForwarderSends, Machine, ForwarderEnded, Stepping, TypeOK
  <2>2. events' \in Seq(RepairEvent)
    BY <1>2, <2>1, SendKeepsType, EventTypes DEF ForwarderSends, TypeOK
  <2>3. forwarder' \in BOOLEAN
    BY <1>2 DEF ForwarderSends
  <2>4. UNCHANGED <<options, engine, work, pending, visited, current, outcome,
                   fixed, failed, restore, repair, command, written, lineQ,
                   bridge, fixQ, cancelled, attempted, issues, dry_run, window,
                   step, startedSteps, tally>>
    BY <1>2 DEF ForwarderSends, runVars, loopVars, outputVars, windowVars
  <2> QED BY <2>2, <2>3, <2>4 DEF TypeOK
<1>3. CASE UserCancels
  <2>1. cancelled' \in BOOLEAN
    BY <1>3 DEF UserCancels
  <2>2. UNCHANGED <<options, engine, work, pending, visited, current, outcome,
                   fixed, failed, restore, repair, command, written, lineQ,
                   bridge, fixQ, forwarder, events, attempted, issues, dry_run,
                   window, step, startedSteps, tally>>
    BY <1>3 DEF UserCancels, runVars, loopVars, outputVars, windowVars
  <2> QED BY <2>1, <2>2 DEF TypeOK
<1>4. CASE ToggleDryRun
  <2>1. dry_run' \in BOOLEAN
    BY <1>4 DEF ToggleDryRun
  <2>2. UNCHANGED <<options, engine, work, pending, visited, current, outcome,
                   fixed, failed, restore, repair, command, written, lineQ,
                   bridge, fixQ, forwarder, events, cancelled, attempted,
                   issues, window, step, startedSteps, tally>>
    BY <1>4 DEF ToggleDryRun, EngineSide, runVars, loopVars, outputVars
  <2> QED BY <2>1, <2>2 DEF TypeOK
<1>5. CASE UNCHANGED vars
  BY <1>5 DEF vars, TypeOK
<1> QED BY <1>1, <1>2, <1>3, <1>4, <1>5, NextCases, EngineStepKeepsType, BehindStepKeepsType,
           WindowStepKeepsType

---------------------------------------------------------------------------
(* What every step of the window, of the user and of the output leaves to  *)
(* the engine alone.                                                       *)
LEMMA AsideTouches ==
  ASSUME \/ Behind \/ ForwarderSends \/ Window \/ UserCancels \/ ToggleDryRun \/ UNCHANGED vars
  PROVE  UNCHANGED <<options, pending, engine, attempted, work, visited, current, outcome,
                     fixed, failed, restore>>
<1>1. CASE Behind
  BY <1>1, BehindTouches DEF loopVars
<1>2. CASE ForwarderSends \/ UserCancels \/ ToggleDryRun \/ UNCHANGED vars
  BY <1>2 DEF ForwarderSends, UserCancels, ToggleDryRun, vars, runVars, loopVars, EngineSide
<1>3. CASE Window
  BY <1>3 DEF Window, OnRestorePointStep, OnFixStarted, OnFixOutput, OnFixFinished, OnRunEnded,
              OnRestorePointMissing, runVars, loopVars, EngineSide
<1> QED BY <1>1, <1>2, <1>3

LEMMA ProtectedStep ==
  ASSUME TypeOK, Protected, [Next]_vars
  PROVE  Protected'
<1> USE DEF Protected, Preparing, runVars, loopVars
<1>1. CASE \/ Behind \/ ForwarderSends \/ Window \/ UserCancels \/ ToggleDryRun \/ UNCHANGED vars
  BY <1>1, AsideTouches
<1>2. CASE RestorePointReturns
  BY <1>2 DEF RestorePointReturns
<1>3. CASE Enter
  BY <1>3 DEF Enter, TypeOK
<1>4. CASE ReportRestorePoint
  BY <1>4 DEF ReportRestorePoint, TypeOK
<1>5. ASSUME NEW i \in Issues, NextFix(i)
      PROVE  Protected'
  BY <1>5 DEF NextFix, TypeOK
<1>6. CASE GiveUp \/ StopBetween \/ AllDone \/ ReportCancelled
  BY <1>6 DEF GiveUp, StopBetween, AllDone, ReportCancelled
<1>7. CASE SimulateFix \/ ModuleNotFound
  BY <1>7 DEF SimulateFix, ModuleNotFound
<1>8. CASE SelectCancelled \/ SelectRepair \/ AbortReturns
  BY <1>8 DEF SelectCancelled, SelectRepair, AbortReturns
<1>9. CASE Drained
  BY <1>9 DEF Drained
<1>10. CASE FinishFix
  BY <1>10 DEF FinishFix
<1> QED BY <1>1, <1>2, <1>3, <1>4, <1>5, <1>6, <1>7, <1>8, <1>9, <1>10, NextCases DEF Engine

LEMMA MachineStep ==
  ASSUME TypeOK, Machine, Protected, [Next]_vars
  PROVE  Machine'
<1> USE DEF Machine, Working, Stepping, Unsent, RepairResults, runVars, loopVars, outputVars
<1> USE DEF ForwarderEnded, SendersGone
<1>1. CASE Behind
  <2>1. UNCHANGED <<engine, outcome, current, visited, attempted>>
    BY <1>1, AsideTouches
  <2>2. CASE RepairStartsCommand \/ CommandExits \/ LeftoverExits
    BY <2>1, <2>2 DEF RepairStartsCommand, CommandExits, LeftoverExits
  <2>3. CASE CommandWrites \/ BridgeTakes \/ BridgeSends \/ ForwarderTakes
    BY <2>1, <2>3 DEF CommandWrites, BridgeTakes, BridgeSends, ForwarderTakes, TypeOK
  <2>4. CASE RepairReturns
    BY <2>1, <2>4 DEF RepairReturns
  <2>5. CASE RepairDropped
    BY <2>1, <2>5 DEF RepairDropped
  <2> QED BY <1>1, <2>2, <2>3, <2>4, <2>5 DEF Behind
<1>2. CASE ForwarderSends
  BY <1>2 DEF ForwarderSends
<1>3. CASE Window \/ UserCancels \/ ToggleDryRun \/ UNCHANGED vars
  <2>1. /\ UNCHANGED <<engine, outcome, current, visited, attempted>>
        /\ UNCHANGED repair /\ UNCHANGED outputVars
    BY <1>3 DEF Window, OnRestorePointStep, OnFixStarted, OnFixOutput, OnFixFinished,
                OnRunEnded, OnRestorePointMissing, EngineSide, UserCancels, ToggleDryRun, vars
  <2> QED BY <2>1
<1>4. CASE RestorePointReturns
  BY <1>4 DEF RestorePointReturns
<1>5. CASE Enter
  BY <1>5 DEF Enter, TypeOK
<1>6. CASE ReportRestorePoint
  BY <1>6 DEF ReportRestorePoint, TypeOK
<1>7. ASSUME NEW i \in Issues, NextFix(i)
      PROVE  Machine'
  BY <1>7 DEF NextFix
<1>8. CASE GiveUp \/ StopBetween \/ AllDone \/ ReportCancelled
  BY <1>8 DEF GiveUp, StopBetween, AllDone, ReportCancelled
<1>9. CASE SimulateFix \/ ModuleNotFound
  BY <1>9 DEF SimulateFix, ModuleNotFound
<1>10. CASE SelectCancelled
  BY <1>10 DEF SelectCancelled
<1>11. CASE SelectRepair
  BY <1>11 DEF SelectRepair
<1>12. CASE AbortReturns
  BY <1>12 DEF AbortReturns
<1>13. CASE Drained
  BY <1>13 DEF Drained
<1>14. CASE FinishFix
  BY <1>14 DEF FinishFix
<1> QED BY <1>1, <1>2, <1>3, <1>4, <1>5, <1>6, <1>7, <1>8, <1>9, <1>10, <1>11, <1>12, <1>13,
           <1>14, NextCases DEF Engine

---------------------------------------------------------------------------
(* The channel.                                                            *)

(* What a send adds to the channel, and nothing else.                      *)
LEMMA Appended ==
  ASSUME TypeOK, window = "running", NEW e \in RepairEvent, Send(e)
  PROVE  /\ Len(events) \in Nat /\ Len(events') = Len(events) + 1 /\ events' # <<>>
         /\ \A i \in 1..Len(events) : events'[i] = events[i]
         /\ events'[Len(events) + 1] = e
         /\ \A i \in 1..Len(events') : i \in 1..Len(events) \/ i = Len(events) + 1
         /\ \A k \in Issues :
              /\ ResultOnItsWay(k)' <=> ResultOnItsWay(k) \/ (e.kind = "FixFinished" /\ e.issue = k)
              /\ StartOnItsWay(k)' <=> StartOnItsWay(k) \/ (e.kind = "FixStarted" /\ e.issue = k)
<1> DEFINE n == Len(events)
<1>1. /\ n \in Nat /\ Len(events') = n + 1 /\ events' # <<>>
      /\ \A i \in 1..n : events'[i] = events[i]
      /\ events'[n + 1] = e
  <2>1. events \in Seq(RepairEvent) /\ events' = Append(events, e)
    BY DEF TypeOK, Send
  <2> QED BY <2>1, AppendKeeps
<1> HIDE DEF n
<1>2. /\ \A i \in 1..n + 1 : i \in 1..n \/ i = n + 1
      /\ \A i \in 1..n : i \in 1..n + 1
      /\ n + 1 \in 1..n + 1
  BY <1>1
<1>3. ASSUME NEW k \in Issues
      PROVE  /\ ResultOnItsWay(k)' <=>
                  ResultOnItsWay(k) \/ (e.kind = "FixFinished" /\ e.issue = k)
             /\ StartOnItsWay(k)' <=>
                  StartOnItsWay(k) \/ (e.kind = "FixStarted" /\ e.issue = k)
  <2>1. ResultOnItsWay(k) <=>
          \E i \in 1..n : events[i].kind = "FixFinished" /\ events[i].issue = k
    BY DEF ResultOnItsWay, n
  <2>2. ResultOnItsWay(k)' <=>
          \E i \in 1..n + 1 : events'[i].kind = "FixFinished" /\ events'[i].issue = k
    BY <1>1 DEF ResultOnItsWay
  <2>3. StartOnItsWay(k) <=>
          \E i \in 1..n : events[i].kind = "FixStarted" /\ events[i].issue = k
    BY DEF StartOnItsWay, n
  <2>4. StartOnItsWay(k)' <=>
          \E i \in 1..n + 1 : events'[i].kind = "FixStarted" /\ events'[i].issue = k
    BY <1>1 DEF StartOnItsWay
  <2> QED BY <1>1, <1>2, <2>1, <2>2, <2>3, <2>4
<1> QED BY <1>1, <1>2, <1>3 DEF n

(* What the window takes from the channel, and nothing else.               *)
LEMMA Taken ==
  ASSUME TypeOK, events # <<>>, events' = Tail(events)
  PROVE  /\ Len(events) \in Nat \ {0} /\ Len(events') = Len(events) - 1
         /\ events' = <<>> <=> Len(events) = 1
         /\ Head(events) = events[1] /\ Head(events) \in RepairEvent
         /\ \A i \in 1..Len(events') : events'[i] = events[i + 1] /\ i + 1 \in 1..Len(events)
         /\ \A k \in Issues :
              /\ ResultOnItsWay(k) <=>
                   ResultOnItsWay(k)' \/ (/\ Head(events).kind = "FixFinished"
                                         /\ Head(events).issue = k)
              /\ StartOnItsWay(k) <=>
                   StartOnItsWay(k)' \/ (/\ Head(events).kind = "FixStarted"
                                        /\ Head(events).issue = k)
<1> DEFINE n == Len(events)
           h == Head(events)
<1>1. /\ n \in Nat \ {0} /\ Len(events') = n - 1 /\ (events' = <<>> <=> n = 1)
      /\ h = events[1] /\ h \in RepairEvent
      /\ \A i \in 1..n - 1 : events'[i] = events[i + 1]
  <2>1. events' \in Seq(RepairEvent)
    BY TailKeeps DEF TypeOK
  <2>2. events' = <<>> <=> Len(events') = 0
    BY <2>1, EmptySeq
  <2>3. /\ n \in Nat \ {0} /\ Len(events') = n - 1
        /\ h = events[1] /\ h \in RepairEvent
        /\ \A i \in 1..n - 1 : events'[i] = events[i + 1]
    BY TailKeeps DEF TypeOK
  <2> QED BY <2>2, <2>3
<1> HIDE DEF n, h
<1>2. /\ \A i \in 1..n - 1 : i + 1 \in 1..n
      /\ \A i \in 1..n : i = 1 \/ (i - 1 \in 1..n - 1 /\ events'[i - 1] = events[i])
      /\ 1 \in 1..n
  BY <1>1
<1>3. ASSUME NEW k \in Issues
      PROVE  /\ ResultOnItsWay(k) <=>
                  ResultOnItsWay(k)' \/ (h.kind = "FixFinished" /\ h.issue = k)
             /\ StartOnItsWay(k) <=>
                  StartOnItsWay(k)' \/ (h.kind = "FixStarted" /\ h.issue = k)
  <2>1. ResultOnItsWay(k) <=>
          \E i \in 1..n : events[i].kind = "FixFinished" /\ events[i].issue = k
    BY DEF ResultOnItsWay, n
  <2>2. ResultOnItsWay(k)' <=>
          \E i \in 1..n - 1 : events'[i].kind = "FixFinished" /\ events'[i].issue = k
    BY <1>1 DEF ResultOnItsWay
  <2>3. StartOnItsWay(k) <=>
          \E i \in 1..n : events[i].kind = "FixStarted" /\ events[i].issue = k
    BY DEF StartOnItsWay, n
  <2>4. StartOnItsWay(k)' <=>
          \E i \in 1..n - 1 : events'[i].kind = "FixStarted" /\ events'[i].issue = k
    BY <1>1 DEF StartOnItsWay
  <2>5. \A i \in 1..n - 1 : events'[i] = events[i + 1] /\ i + 1 \in 1..n
    BY <1>1, <1>2
  <2>6. (ResultOnItsWay(k)' => ResultOnItsWay(k)) /\ (StartOnItsWay(k)' => StartOnItsWay(k))
    BY <2>1, <2>2, <2>3, <2>4, <2>5
  <2>7. ResultOnItsWay(k) => ResultOnItsWay(k)' \/ (h.kind = "FixFinished" /\ h.issue = k)
    BY <1>1, <1>2, <2>1, <2>2
  <2>8. StartOnItsWay(k) => StartOnItsWay(k)' \/ (h.kind = "FixStarted" /\ h.issue = k)
    BY <1>1, <1>2, <2>3, <2>4
  <2>9. /\ h.kind = "FixFinished" /\ h.issue = k => ResultOnItsWay(k)
        /\ h.kind = "FixStarted" /\ h.issue = k => StartOnItsWay(k)
    BY <1>1, <1>2, <2>1, <2>3
  <2> QED BY <2>6, <2>7, <2>8, <2>9
<1> QED BY <1>1, <1>2, <1>3 DEF n, h

(* What the engine sends, by its state. A terminal event goes with its     *)
(* return.                                                                 *)
LEMMA EngineSends ==
  ASSUME TypeOK, Machine, Engine
  PROVE  \/ UNCHANGED events /\ engine' # "returned"
         \/ \E e \in RepairEvent :
              /\ Send(e)
              /\ IsTerminal(e) => engine' = "returned"
              /\ ~IsTerminal(e) => engine' # "returned"
              /\ e.kind # "FixOutput"
              /\ engine' \in Working => e.kind = "FixStarted" /\ e.issue = current'
<1> USE EventTypes DEF TypeOK, IsTerminal, Working
<1>1. CASE Enter
  BY <1>1 DEF Enter, DryRunStarted, VssStarted
<1>2. CASE ReportRestorePoint
  BY <1>2 DEF ReportRestorePoint, VssCompleted
<1>3. CASE GiveUp
  BY <1>3 DEF GiveUp, RestorePointMissing
<1>4. ASSUME NEW i \in Issues, NextFix(i)
      PROVE  \E e \in RepairEvent :
               /\ Send(e) /\ ~IsTerminal(e) /\ engine' # "returned"
               /\ e.kind # "FixOutput"
               /\ engine' \in Working => e.kind = "FixStarted" /\ e.issue = current'
  BY <1>4 DEF NextFix, FixStarted
<1>5. CASE StopBetween
  <2>1. RepairsCancelled(Counts(Remaining)) \in RepairEvent
    BY VisitedCount, CountsType
  <2> QED BY <1>5, <2>1 DEF StopBetween, RepairsCancelled
<1>6. CASE AllDone
  <2>1. AllRepairsCompleted(Counts(0)) \in RepairEvent
    BY CountsType
  <2> QED BY <1>6, <2>1 DEF AllDone, AllRepairsCompleted
<1>7. CASE SimulateFix
  <2>1. FixFinished(current, "changed") \in RepairEvent
    BY <1>7 DEF SimulateFix, Machine, Stepping, RepairResults
  <2> QED BY <1>7, <2>1 DEF SimulateFix, FixFinished
<1>8. CASE ModuleNotFound
  <2>1. FixFinished(current, "error") \in RepairEvent
    BY <1>8 DEF ModuleNotFound, Machine, Stepping, RepairResults
  <2> QED BY <1>8, <2>1 DEF ModuleNotFound, FixFinished
<1>9. CASE SelectCancelled \/ SelectRepair \/ AbortReturns \/ Drained
  BY <1>9 DEF SelectCancelled, SelectRepair, AbortReturns, Drained
<1>10. CASE FinishFix
  <2>1. FixFinished(current, Sent) \in RepairEvent
    BY <1>10 DEF FinishFix, Machine, Unsent, RepairResults, Sent
  <2> QED BY <1>10, <2>1 DEF FinishFix, FixFinished, Sent
<1>11. CASE ReportCancelled
  <2>1. RepairsCancelled(Counts(Remaining)) \in RepairEvent
    BY VisitedCount, CountsType
  <2> QED BY <1>11, <2>1 DEF ReportCancelled, RepairsCancelled
<1> QED BY <1>1, <1>2, <1>3, <1>4, <1>5, <1>6, <1>7, <1>8, <1>9, <1>10, <1>11 DEF Engine

LEMMA EngineKeepsWindow ==
  ASSUME Engine \/ RestorePointReturns \/ Behind \/ ForwarderSends
  PROVE  UNCHANGED windowVars
BY BehindTouches
   DEF Engine, Enter, ReportRestorePoint, GiveUp, NextFix, StopBetween, AllDone, SimulateFix,
       ModuleNotFound, SelectCancelled, SelectRepair, AbortReturns, Drained, FinishFix,
       ReportCancelled, RestorePointReturns, ForwarderSends

(* Only a working engine steps.                                            *)
LEMMA EngineNotReturned ==
  ASSUME Engine \/ RestorePointReturns
  PROVE  engine # "returned"
BY DEF Engine, Enter, ReportRestorePoint, GiveUp, NextFix, StopBetween, AllDone, SimulateFix,
       ModuleNotFound, SelectCancelled, SelectRepair, AbortReturns, Drained, FinishFix,
       ReportCancelled, RestorePointReturns

(* A line is passed on while its repair is at work.                        *)
LEMMA OutputOfCurrent ==
  ASSUME TypeOK, Machine, Terminals, ForwarderSends
  PROVE  /\ engine \in Working /\ current \in Issues /\ window = "running"
         /\ FixOutput(current) \in RepairEvent /\ Send(FixOutput(current))
         /\ UNCHANGED <<engine, current>>
<1>1. engine \in Working /\ UNCHANGED engine
  BY DEF ForwarderSends, Machine, ForwarderEnded
<1>2. current \in Issues
  BY <1>1 DEF Machine, Stepping, TypeOK
<1>3. window = "running"
  BY <1>1 DEF Terminals, Working
<1> QED BY <1>1, <1>2, <1>3, EventTypes DEF ForwarderSends, loopVars

---------------------------------------------------------------------------
LEMMA SendKeepsTerminals ==
  ASSUME TypeOK, Terminals, NEW e \in RepairEvent, Send(e), UNCHANGED window,
         engine # "returned",
         IsTerminal(e) => engine' = "returned"
  PROVE  Terminals'
<1>1. window = "running"
  BY DEF Terminals
<1>2. \A i \in 1..Len(events) : ~IsTerminal(events[i])
  BY DEF Terminals
<1> QED BY <1>1, <1>2, Appended DEF Terminals, IsTerminal

LEMMA TakeKeepsTerminals ==
  ASSUME TypeOK, Terminals, events # <<>>, events' = Tail(events), UNCHANGED <<window, engine>>,
         window = "running"
  PROVE  Terminals'
<1> DEFINE n == Len(events)
<1>1. n \in Nat \ {0} /\ Len(events') = n - 1
  BY Taken
<1>2. \A i \in 1..n - 1 : events'[i] = events[i + 1]
  BY <1>1, Taken
<1>3. \A i \in 1..n : IsTerminal(events[i]) => i = n /\ engine = "returned"
  BY DEF Terminals
<1> HIDE DEF n
<1>4. \A i \in 1..n - 1 : IsTerminal(events'[i]) => i = n - 1 /\ engine = "returned"
  BY <1>1, <1>2, <1>3 DEF IsTerminal
<1> QED BY <1>1, <1>4 DEF Terminals

LEMMA TerminalsStep ==
  ASSUME TypeOK, Machine, Terminals, [Next]_vars
  PROVE  Terminals'
<1>1. CASE Engine
  <2>1. UNCHANGED window /\ engine # "returned"
    BY <1>1, EngineKeepsWindow, EngineNotReturned DEF windowVars
  <2>2. CASE UNCHANGED events
    BY <2>1, <2>2 DEF Terminals
  <2>3. CASE \E e \in RepairEvent : Send(e) /\ (IsTerminal(e) => engine' = "returned")
    BY <2>1, <2>3, SendKeepsTerminals
  <2> QED BY <1>1, <2>2, <2>3, EngineSends
<1>2. CASE RestorePointReturns
  BY <1>2 DEF RestorePointReturns, Terminals, windowVars
<1>3. CASE Behind
  BY <1>3, BehindTouches DEF Terminals, windowVars
<1>4. CASE ForwarderSends
  <2>1. ~IsTerminal(FixOutput(current)) /\ engine # "returned"
    BY <1>4, OutputOfCurrent DEF IsTerminal, FixOutput, Working
  <2> QED BY <1>4, <2>1, OutputOfCurrent, SendKeepsTerminals, EngineKeepsWindow DEF windowVars
<1>5. CASE OnRestorePointStep \/ OnFixStarted \/ OnFixOutput \/ OnFixFinished
  BY <1>5, TakeKeepsTerminals
     DEF OnRestorePointStep, OnFixStarted, OnFixOutput, OnFixFinished, Receives, EngineSide,
         windowVars
<1>6. CASE OnRunEnded \/ OnRestorePointMissing
  <2>1. IsTerminal(events[1]) /\ 1 \in 1..Len(events)
    BY <1>6, TailKeeps DEF OnRunEnded, OnRestorePointMissing, Receives, IsTerminal, TypeOK
  <2>2. engine = "returned"
    BY <2>1 DEF Terminals
  <2> QED BY <1>6, <2>2 DEF OnRunEnded, OnRestorePointMissing, Terminals, EngineSide
<1>7. CASE UserCancels \/ ToggleDryRun \/ UNCHANGED vars
  BY <1>7 DEF UserCancels, ToggleDryRun, vars, Terminals, windowVars, EngineSide
<1> QED BY <1>1, <1>2, <1>3, <1>4, <1>5, <1>6, <1>7, NextCases DEF Window

---------------------------------------------------------------------------
(* The lines of output and the step they are drawn under.                  *)

LEMMA SendKeepsLines ==
  ASSUME TypeOK, Lines, window = "running", UNCHANGED <<window, step>>,
         NEW e \in RepairEvent, Send(e),
         e.kind = "FixOutput" => engine \in Working /\ e.issue = current,
         engine' \in Working => OfStep(e) /\ e.issue = current'
  PROVE  Lines'
<1> DEFINE n == Len(events)
<1>1. /\ n \in Nat /\ Len(events') = n + 1 /\ events' # <<>>
      /\ \A i \in 1..n : events'[i] = events[i]
      /\ events'[n + 1] = e
      /\ \A i \in 1..Len(events') : i \in 1..n \/ i = n + 1
  BY Appended
<1>2. events = <<>> => n = 0
  OBVIOUS
<1>3. events # <<>> => n # 0
  BY EmptySeq DEF TypeOK
<1>4. ASSUME NEW i \in 1..n, events'[i].kind = "FixOutput"
      PROVE  \/ i = 1 /\ step' = events'[i].issue
             \/ i # 1 /\ OfStep(events'[i - 1]) /\ events'[i - 1].issue = events'[i].issue
  <2>1. \/ i = 1 /\ step = events[i].issue
        \/ i # 1 /\ OfStep(events[i - 1]) /\ events[i - 1].issue = events[i].issue
    BY <1>1, <1>4 DEF Lines
  <2>2. i # 1 => i - 1 \in 1..n
    BY <1>1
  <2> QED BY <1>1, <2>1, <2>2
<1>5. ASSUME e.kind = "FixOutput"
      PROVE  \/ n + 1 = 1 /\ step' = e.issue
             \/ n + 1 # 1 /\ OfStep(events'[n]) /\ events'[n].issue = e.issue
  <2>1. \/ events = <<>> /\ step = current
        \/ events # <<>> /\ OfStep(events[n]) /\ events[n].issue = current
    BY <1>5 DEF Lines
  <2>2. n # 0 => n \in 1..n
    BY <1>1
  <2> QED BY <1>1, <1>2, <1>3, <1>5, <2>1, <2>2
<1>6. \A i \in 1..n + 1 :
        events'[i].kind = "FixOutput" =>
          \/ i = 1 /\ step' = events'[i].issue
          \/ i # 1 /\ OfStep(events'[i - 1]) /\ events'[i - 1].issue = events'[i].issue
  <2>1. n + 1 - 1 = n
    BY <1>1
  <2> QED BY <1>1, <1>4, <1>5, <2>1
<1> HIDE DEF n
<1> QED BY <1>1, <1>6 DEF Lines, OfStep

LEMMA AsideKeepsLines ==
  ASSUME Lines, UNCHANGED <<events, window, step>>,
         engine' \in Working => engine \in Working /\ current' = current
  PROVE  Lines'
BY DEF Lines, OfStep

LEMMA TakeKeepsLines ==
  ASSUME TypeOK, Lines, window = "running", events # <<>>, events' = Tail(events),
         UNCHANGED <<engine, current>>,
         OfStep(Head(events)) => step' = Head(events).issue
  PROVE  Lines'
<1> DEFINE n == Len(events)
           h == Head(events)
<1>1. /\ n \in Nat \ {0} /\ Len(events') = n - 1 /\ (events' = <<>> <=> n = 1)
      /\ h = events[1]
  BY Taken
<1>2. \A i \in 1..n - 1 : events'[i] = events[i + 1]
  BY <1>1, Taken
<1>3. /\ \A i \in 1..n :
           events[i].kind = "FixOutput" =>
             \/ i = 1 /\ step = events[i].issue
             \/ i # 1 /\ OfStep(events[i - 1]) /\ events[i - 1].issue = events[i].issue
      /\ engine \in Working => OfStep(events[n]) /\ events[n].issue = current
  BY DEF Lines
<1> HIDE DEF n, h
<1>4. ASSUME NEW i \in 1..n - 1, events'[i].kind = "FixOutput"
      PROVE  \/ i = 1 /\ step' = events'[i].issue
             \/ i # 1 /\ OfStep(events'[i - 1]) /\ events'[i - 1].issue = events'[i].issue
  <2>1. i \in Nat /\ i + 1 \in 1..n /\ i + 1 # 1 /\ i + 1 - 1 = i
    BY <1>1
  <2>2. OfStep(events[i]) /\ events[i].issue = events'[i].issue
    <3>1. events'[i] = events[i + 1] /\ events[i + 1].kind = "FixOutput"
      BY <1>2, <1>4
    <3>2. OfStep(events[i + 1 - 1]) /\ events[i + 1 - 1].issue = events[i + 1].issue
      BY <1>3, <2>1, <3>1
    <3> QED BY <2>1, <3>1, <3>2
  <2>3. CASE i = 1
    BY <1>1, <2>2, <2>3 DEF h
  <2>4. CASE i # 1
    <3>1. i - 1 \in 1..n - 1 /\ i - 1 + 1 = i
      BY <1>1, <2>4
    <3> QED BY <1>2, <2>2, <2>4, <3>1
  <2> QED BY <2>3, <2>4
<1>5. ASSUME engine \in Working
      PROVE  \/ events' = <<>> /\ step' = current
             \/ events' # <<>> /\ OfStep(events'[n - 1]) /\ events'[n - 1].issue = current
  <2>1. CASE n = 1
    BY <1>1, <1>3, <1>5, <2>1 DEF h
  <2>2. CASE n # 1
    <3>1. n - 1 \in 1..n - 1 /\ n - 1 + 1 = n
      BY <1>1, <2>2
    <3> QED BY <1>1, <1>2, <1>3, <1>5, <2>2, <3>1
  <2> QED BY <2>1, <2>2
<1> QED BY <1>1, <1>4, <1>5 DEF Lines, OfStep

LEMMA LinesStep ==
  ASSUME TypeOK, Machine, Terminals, Lines, [Next]_vars
  PROVE  Lines'
<1>1. CASE Engine
  <2>1. UNCHANGED <<window, step>> /\ window = "running"
    BY <1>1, EngineKeepsWindow, EngineNotReturned DEF windowVars, Terminals
  <2>2. CASE /\ UNCHANGED events
    <3>1. engine' \in Working => engine \in Working /\ current' = current
      BY <1>1, <2>1, <2>2, Appended
         DEF Engine, Enter, ReportRestorePoint, GiveUp, NextFix, StopBetween, AllDone,
             SimulateFix, ModuleNotFound, SelectCancelled, SelectRepair, AbortReturns, Drained,
             FinishFix, ReportCancelled, Working, loopVars, Send
    <3> QED BY <2>1, <2>2, <3>1, AsideKeepsLines
  <2>3. CASE \E e \in RepairEvent :
               /\ Send(e) /\ e.kind # "FixOutput"
               /\ engine' \in Working => e.kind = "FixStarted" /\ e.issue = current'
    BY <2>1, <2>3, SendKeepsLines DEF OfStep
  <2> QED BY <1>1, <2>2, <2>3, EngineSends
<1>2. CASE RestorePointReturns
  BY <1>2, AsideKeepsLines DEF RestorePointReturns, windowVars, Working
<1>3. CASE Behind
  BY <1>3, BehindTouches, AsideKeepsLines DEF windowVars, loopVars
<1>4. CASE ForwarderSends
  <2>1. FixOutput(current).kind = "FixOutput" /\ FixOutput(current).issue = current
    BY DEF FixOutput
  <2> QED BY <1>4, <2>1, OutputOfCurrent, SendKeepsLines, EngineKeepsWindow
          DEF windowVars, OfStep
<1>5. CASE OnRestorePointStep \/ OnFixStarted \/ OnFixFinished
  <2>1. /\ window = "running" /\ events # <<>> /\ events' = Tail(events)
        /\ UNCHANGED <<engine, current>>
        /\ OfStep(Head(events)) => step' = Head(events).issue
    BY <1>5 DEF OnRestorePointStep, OnFixStarted, OnFixFinished, Receives, EngineSide, loopVars,
                OfStep
  <2> QED BY <2>1, TakeKeepsLines
<1>6. CASE OnFixOutput
  <2>1. /\ window = "running" /\ events # <<>> /\ events' = Tail(events)
        /\ UNCHANGED <<engine, current, step>> /\ Head(events).kind = "FixOutput"
    BY <1>6 DEF OnFixOutput, Receives, EngineSide, loopVars, windowVars
  <2>2. Head(events) = events[1] /\ 1 \in 1..Len(events)
    BY <2>1, Taken
  <2>3. step = Head(events).issue
    BY <2>1, <2>2 DEF Lines
  <2> QED BY <2>1, <2>3, TakeKeepsLines
<1>7. CASE OnRunEnded \/ OnRestorePointMissing
  BY <1>7 DEF OnRunEnded, OnRestorePointMissing, Lines
<1>8. CASE UserCancels \/ ToggleDryRun \/ UNCHANGED vars
  BY <1>8, AsideKeepsLines
     DEF UserCancels, ToggleDryRun, vars, windowVars, EngineSide, loopVars
<1> QED BY <1>1, <1>2, <1>3, <1>4, <1>5, <1>6, <1>7, <1>8, NextCases DEF Window

---------------------------------------------------------------------------
(* The engine's list and the window's.                                     *)

LEMMA WorksStep ==
  ASSUME TypeOK, Machine, Works, [Next]_vars
  PROVE  Works'
<1> USE DEF Works, Stepping, Working, runVars, loopVars
<1>1. CASE \/ Behind \/ ForwarderSends \/ Window \/ UserCancels \/ ToggleDryRun \/ UNCHANGED vars
  BY <1>1, AsideTouches
<1>2. CASE RestorePointReturns \/ Enter \/ GiveUp \/ StopBetween \/ AllDone \/ ReportCancelled
  BY <1>2 DEF RestorePointReturns, Enter, GiveUp, StopBetween, AllDone, ReportCancelled
<1>3. CASE ReportRestorePoint
  <2>1. \A i \in Issues : /\ work'[i].is_fixed = work[i].is_fixed
                          /\ work'[i].is_reboot_pending = work[i].is_reboot_pending
    BY <1>3 DEF ReportRestorePoint, TypeOK, Finding
  <2> QED BY <1>3, <2>1 DEF ReportRestorePoint
<1>4. ASSUME NEW i \in Issues, NextFix(i)
      PROVE  Works'
  BY <1>4 DEF NextFix, Todo, Selected
<1>5. CASE SimulateFix \/ ModuleNotFound \/ SelectCancelled \/ SelectRepair \/ AbortReturns
           \/ FinishFix
  BY <1>5 DEF SimulateFix, ModuleNotFound, SelectCancelled, SelectRepair, AbortReturns, FinishFix
<1>6. CASE Drained
  <2>1. current \in Issues /\ current \in attempted
    BY <1>6 DEF Drained, Machine, TypeOK
  <2>2. \A i \in Issues : i # current => work'[i] = work[i]
    BY <1>6, <2>1 DEF Drained, TypeOK
  <2> QED BY <1>6, <2>1, <2>2 DEF Drained
<1> QED BY <1>1, <1>2, <1>3, <1>4, <1>5, <1>6, NextCases DEF Engine

(* A simulation's list is written by neither side: the window looks at its *)
(* own switch, which stays where it was until the run is over.             *)
LEMMA SimulatedStep ==
  ASSUME TypeOK, Protected, Simulated, Results, [Next]_vars
  PROVE  Simulated'
<1> SUFFICES ASSUME options'.dry_run
             PROVE  UNCHANGED <<issues, work>> /\ options' = options
  BY DEF Simulated
<1>1. options' = options
  BY NextCases, AsideTouches
     DEF RestorePointReturns, Engine, Enter, ReportRestorePoint, GiveUp, NextFix, StopBetween,
         AllDone, SimulateFix, ModuleNotFound, SelectCancelled, SelectRepair, AbortReturns,
         Drained, FinishFix, ReportCancelled, runVars
<1>2. CASE Engine \/ RestorePointReturns
  <2>1. UNCHANGED issues
    BY <1>2, EngineKeepsWindow DEF windowVars
  <2>2. UNCHANGED work
    BY <1>1, <1>2
       DEF Protected, RestorePointReturns, Engine, Enter, ReportRestorePoint, GiveUp, NextFix,
           StopBetween, AllDone, SimulateFix, ModuleNotFound, SelectCancelled, SelectRepair,
           AbortReturns, Drained, FinishFix, ReportCancelled, loopVars
  <2> QED BY <1>1, <2>1, <2>2
<1>3. CASE \/ Behind \/ ForwarderSends \/ Window \/ UserCancels \/ ToggleDryRun \/ UNCHANGED vars
  <2>1. UNCHANGED work
    BY <1>3, AsideTouches
  <2>2. CASE OnFixFinished
    <3>1. dry_run = options.dry_run /\ options.dry_run
      BY <1>1, <2>2 DEF OnFixFinished, Results, Receives
    <3>2. dry_run
      BY <3>1, Zenon
    <3> QED BY <1>1, <2>1, <2>2, <3>2 DEF OnFixFinished
  <2>3. CASE \/ Behind \/ ForwarderSends \/ UserCancels \/ ToggleDryRun \/ UNCHANGED vars
             \/ OnRestorePointStep \/ OnFixStarted \/ OnFixOutput \/ OnRunEnded
             \/ OnRestorePointMissing
    BY <1>1, <2>1, <2>3, EngineKeepsWindow
       DEF UserCancels, ToggleDryRun, vars, OnRestorePointStep, OnFixStarted, OnFixOutput,
           OnRunEnded, OnRestorePointMissing, windowVars
  <2> QED BY <1>1, <1>3, <2>1, <2>2, <2>3 DEF Window
<1> QED BY <1>2, <1>3, NextCases

Dealing == Stepping \cup Unsent

(* Which findings events are about.                                        *)
LEMMA AboutIssues ==
  ASSUME TypeOK
  PROVE  \A n \in 1..Len(events) :
           /\ events[n] \in RepairEvent
           /\ events[n].kind = "FixFinished" =>
                events[n].issue \in Issues /\ events[n].result \in RepairResults
           /\ events[n].kind = "FixStarted" => events[n].issue \in Issues
<1>1. \A n \in 1..Len(events) : events[n] \in RepairEvent
  BY DEF TypeOK
<1> QED BY <1>1, EventFields

(* A message that is no result changes nothing of the results on their     *)
(* way.                                                                    *)
LEMMA SendKeepsResults ==
  ASSUME TypeOK, Results, NEW e \in RepairEvent, Send(e), window = "running",
         e.kind # "FixFinished",
         UNCHANGED <<window, issues, dry_run, options>>,
         \A i \in Issues : Same(work[i], work'[i]),
         visited \subseteq visited',
         engine \notin Unsent, engine' \notin Unsent,
         engine' \in Dealing => \/ engine \in Dealing /\ current' = current
                                \/ current' \notin visited
  PROVE  Results'
<1> DEFINE n == Len(events)
<1>1. /\ n \in Nat /\ Len(events') = n + 1
      /\ \A i \in 1..n : events'[i] = events[i]
      /\ events'[n + 1] = e
      /\ \A i \in 1..Len(events') : i \in 1..n \/ i = n + 1
      /\ \A k \in Issues : ResultOnItsWay(k)' <=> ResultOnItsWay(k)
  BY Appended
<1>2. \A i \in 1..n : events[i].kind = "FixFinished" => events[i].issue \in Issues
  BY AboutIssues
<1>3. dry_run' = options'.dry_run
  BY DEF Results
<1>4. ASSUME NEW i \in 1..Len(events'), events'[i].kind = "FixFinished"
      PROVE  /\ i \in 1..n /\ events'[i] = events[i] /\ events[i].issue \in Issues
             /\ events[i].issue \in visited'
             /\ engine' \in Dealing => events[i].issue # current'
             /\ Same(After(issues[events[i].issue], events[i].result)', work'[events[i].issue])
             /\ \A m \in 1..n : events[m].kind = "FixFinished"
                                  /\ events[m].issue = events[i].issue => m = i
  <2>1. i \in 1..n /\ events'[i] = events[i] /\ events[i].issue \in Issues
    BY <1>1, <1>2, <1>4
  <2>2. /\ events[i].issue \in visited
        /\ engine \in Dealing => events[i].issue # current
        /\ Same(After(issues[events[i].issue], events[i].result), work[events[i].issue])
        /\ \A m \in 1..n : events[m].kind = "FixFinished"
                             /\ events[m].issue = events[i].issue => m = i
    BY <1>4, <2>1 DEF Results, Dealing
  <2>3. Same(After(issues[events[i].issue], events[i].result)', work'[events[i].issue])
    <3>1. Same(work[events[i].issue], work'[events[i].issue])
      BY <2>1
    <3> QED BY <2>1, <2>2, <3>1 DEF Same, After
  <2> QED BY <2>1, <2>2, <2>3
<1>5. \A i \in Issues : ~ResultOnItsWay(i)' => Same(issues[i], work'[i])
  BY <1>1 DEF Results, Same
<1> HIDE DEF n
<1>6. ASSUME NEW i \in 1..Len(events'), events'[i].kind = "FixFinished"
      PROVE  /\ events'[i].issue \in visited'
             /\ engine' \in Dealing => events'[i].issue # current'
             /\ Same(After(issues[events[i].issue], events[i].result), work[events[i].issue])'
             /\ \A m \in 1..Len(events') :
                  events'[m].kind = "FixFinished" /\ events'[m].issue = events'[i].issue => m = i
  <2>1. \A m \in 1..Len(events') :
          events'[m].kind = "FixFinished" => m \in 1..n /\ events'[m] = events[m]
    BY <1>1
  <2> QED BY <1>4, <1>6, <2>1 DEF After, Same
<1> QED BY <1>3, <1>5, <1>6 DEF Results, Dealing

(* A result that is sent takes the place of the engine's own knowledge.    *)
LEMMA ResultIsSent ==
  ASSUME TypeOK, Results, window = "running", NEW r \in RepairResults,
         current \in visited,
         Send(FixFinished(current, r)),
         UNCHANGED <<window, issues, dry_run, options, work, visited>>,
         Same(After(issues[current], r), work[current]),
         engine \in Dealing, engine' \notin Dealing
  PROVE  Results'
<1> DEFINE n == Len(events)
           e == FixFinished(current, r)
<1>1. /\ current \in Issues /\ e \in RepairEvent
      /\ e.kind = "FixFinished" /\ e.issue = current /\ e.result = r
  BY EventTypes DEF TypeOK, FixFinished
<1>2. /\ n \in Nat /\ Len(events') = n + 1
      /\ \A i \in 1..n : events'[i] = events[i]
      /\ events'[n + 1] = e
      /\ \A i \in 1..Len(events') : i \in 1..n \/ i = n + 1
      /\ \A k \in Issues : ResultOnItsWay(k)' <=> ResultOnItsWay(k) \/ k = current
  BY <1>1, Appended
<1>3. dry_run' = options'.dry_run
  BY DEF Results
<1>4. \A i \in 1..n : events[i].kind = "FixFinished" =>
        /\ events[i].issue \in visited
        /\ events[i].issue # current
        /\ Same(After(issues[events[i].issue], events[i].result), work[events[i].issue])
        /\ \A m \in 1..n :
             events[m].kind = "FixFinished" /\ events[m].issue = events[i].issue => m = i
  BY DEF Results, Dealing
<1>5. \A i \in Issues : ~ResultOnItsWay(i)' => Same(issues[i], work[i])
  BY <1>2 DEF Results
<1> HIDE DEF n, e
<1>6. ASSUME NEW i \in 1..Len(events'), events'[i].kind = "FixFinished"
      PROVE  /\ events'[i].issue \in visited'
             /\ Same(After(issues[events[i].issue], events[i].result), work[events[i].issue])'
             /\ \A m \in 1..Len(events') :
                  events'[m].kind = "FixFinished" /\ events'[m].issue = events'[i].issue => m = i
  <2>1. CASE i \in 1..n
    BY <1>1, <1>2, <1>4, <1>6, <2>1 DEF After, Same
  <2>2. CASE i = n + 1
    <3>1. events'[i].issue = current /\ events'[i].result = r
      BY <1>1, <1>2, <2>2
    <3>2. Same(After(issues[events[i].issue], events[i].result), work[events[i].issue])'
      BY <3>1 DEF After, Same
    <3> QED BY <1>1, <1>2, <1>4, <2>2, <3>1, <3>2
  <2> QED BY <1>2, <2>1, <2>2
<1> QED BY <1>3, <1>5, <1>6 DEF Results, Dealing, Same

LEMMA AsideKeepsResults ==
  ASSUME TypeOK, Results,
         UNCHANGED <<events, window, issues, dry_run, options, work, visited, current>>,
         engine' \in Dealing => engine \in Dealing,
         engine' \in Unsent => UNCHANGED outcome,
         engine' \in Unsent => engine \in Unsent,
         engine \in Unsent => engine' \in Unsent
  PROVE  Results'
<1> SUFFICES ASSUME window = "running" PROVE Results'
  BY DEF Results
<1>1. /\ dry_run' = options'.dry_run
      /\ \A n \in 1..Len(events) :
           events[n].kind = "FixFinished" =>
             /\ events[n].issue \in visited'
             /\ engine' \in Dealing => events[n].issue # current'
             /\ Same(After(issues[events[n].issue], events[n].result), work[events[n].issue])
             /\ \A m \in 1..Len(events) :
                  events[m].kind = "FixFinished" /\ events[m].issue = events[n].issue => m = n
  BY DEF Results, Dealing
<1>2. engine' \in Unsent => Same(After(issues[current], Sent), work[current])
  BY DEF Results
<1>3. \A i \in Issues :
        ~ResultOnItsWay(i) /\ ~(engine' \in Unsent /\ i = current) => Same(issues[i], work[i])
  BY DEF Results
<1> QED BY <1>1, <1>2, <1>3 DEF Results, Dealing, Same, After, ResultOnItsWay, Sent

(* With its channels drained, the repair is recorded in the engine's list; *)
(* the window will record the same.                                        *)
LEMMA DrainedKeepsResults ==
  ASSUME TypeOK, Machine, Protected, Works, Results, window = "running", Drained
  PROVE  Results'
<1>1. /\ engine = "drain" /\ engine' \in Unsent /\ current \in visited /\ current \in Issues
      /\ ~options.dry_run /\ WillRepair(work[current])
      /\ outcome \in RepairResults \cup {"cancelled"}
  BY DEF Drained, Machine, Protected, Works, Working, Stepping, Unsent, TypeOK
<1>2. UNCHANGED <<events, window, issues, dry_run, options, visited, current, outcome>>
  BY DEF Drained, runVars, windowVars
<1>3. \A i \in Issues : i # current => work'[i] = work[i]
  BY <1>1 DEF Drained, TypeOK
<1>4. /\ dry_run = options.dry_run
      /\ \A n \in 1..Len(events) :
           events[n].kind = "FixFinished" =>
             /\ events[n].issue \in visited
             /\ events[n].issue # current
             /\ Same(After(issues[events[n].issue], events[n].result), work[events[n].issue])
             /\ \A m \in 1..Len(events) :
                  events[m].kind = "FixFinished" /\ events[m].issue = events[n].issue => m = n
      /\ \A i \in Issues : ~ResultOnItsWay(i) => Same(issues[i], work[i])
  BY <1>1 DEF Results, Working, Stepping, Unsent
<1>5. ~ResultOnItsWay(current)
  BY <1>4 DEF ResultOnItsWay
<1>6. Same(After(issues[current], Sent), work'[current])
  <2>1. Same(issues[current], work[current])
    BY <1>1, <1>4, <1>5
  <2>2. issues[current] \in Finding /\ work[current] \in Finding
    BY <1>1 DEF TypeOK
  <2>3. CASE outcome = "cancelled"
    <3>1. work' = [work EXCEPT ![current].fix_error = TRUE]
      BY <2>3 DEF Drained
    <3>2. Same(work[current], work'[current])
      BY <1>1, <2>2, <3>1 DEF TypeOK, Same, Finding
    <3>3. Same(RecordRepair(issues[current], "error"), work[current])
      BY <1>1, <2>1, <2>2, SameAfterError
    <3> QED BY <1>1, <2>3, <3>2, <3>3 DEF Same, After, Sent
  <2>4. CASE outcome # "cancelled"
    <3>1. work'[current] = RecordRepair(work[current], outcome)
      BY <1>1, <2>4 DEF Drained, TypeOK
    <3>2. Same(RecordRepair(issues[current], outcome), RecordRepair(work[current], outcome))
      BY <1>1, <2>1, <2>2, <2>4, SameAfterRepair
    <3> QED BY <1>1, <2>4, <3>1, <3>2 DEF After, Sent
  <2> QED BY <2>3, <2>4
<1>7. \A n \in 1..Len(events) : events[n].kind = "FixFinished" => events[n].issue \in Issues
  BY AboutIssues
<1>8. ASSUME NEW n \in 1..Len(events'), events'[n].kind = "FixFinished"
      PROVE  /\ events'[n].issue \in visited' /\ events'[n].issue # current'
             /\ Same(After(issues[events[n].issue], events[n].result), work[events[n].issue])'
             /\ \A m \in 1..Len(events') :
                  events'[m].kind = "FixFinished" /\ events'[m].issue = events'[n].issue => m = n
  BY <1>2, <1>3, <1>4, <1>7, <1>8 DEF Same, After
<1>9. \A i \in Issues :
        ~ResultOnItsWay(i)' /\ i # current' => Same(issues[i], work[i])'
  BY <1>2, <1>3, <1>4 DEF Same, ResultOnItsWay
<1>10. Same(After(issues[current], Sent), work[current])'
  BY <1>2, <1>6 DEF Same, After, Sent
<1> QED BY <1>1, <1>2, <1>4, <1>8, <1>9, <1>10 DEF Results

(* A message that is no result is taken, and nothing is done to a finding. *)
LEMMA TakeKeepsResults ==
  ASSUME TypeOK, Results, window = "running", events # <<>>, events' = Tail(events),
         Head(events).kind # "FixFinished",
         UNCHANGED <<issues, dry_run, options, work, visited, current, outcome, engine>>
  PROVE  Results'
<1> DEFINE n == Len(events)
<1>1. /\ n \in Nat \ {0} /\ Len(events') = n - 1
      /\ \A i \in 1..n - 1 : events'[i] = events[i + 1] /\ i + 1 \in 1..n
      /\ \A k \in Issues : ResultOnItsWay(k) <=> ResultOnItsWay(k)'
  <2>1. Len(events') = n - 1
    BY Taken
  <2> QED BY <2>1, Taken
<1>2. /\ dry_run = options.dry_run
      /\ \A i \in 1..n :
           events[i].kind = "FixFinished" =>
             /\ events[i].issue \in visited
             /\ engine \in Stepping \cup Unsent => events[i].issue # current
             /\ Same(After(issues[events[i].issue], events[i].result), work[events[i].issue])
             /\ \A m \in 1..n :
                  events[m].kind = "FixFinished" /\ events[m].issue = events[i].issue => m = i
      /\ engine \in Unsent => Same(After(issues[current], Sent), work[current])
      /\ \A i \in Issues :
           ~ResultOnItsWay(i) /\ ~(engine \in Unsent /\ i = current) => Same(issues[i], work[i])
  BY DEF Results
<1> HIDE DEF n
<1>3. ASSUME NEW i \in 1..n - 1, events'[i].kind = "FixFinished"
      PROVE  /\ events'[i].issue \in visited
             /\ engine \in Stepping \cup Unsent => events'[i].issue # current
             /\ Same(After(issues[events[i].issue], events[i].result), work[events[i].issue])'
             /\ \A m \in 1..n - 1 :
                  events'[m].kind = "FixFinished" /\ events'[m].issue = events'[i].issue => m = i
  <2>1. events'[i] = events[i + 1] /\ i + 1 \in 1..n /\ events[i + 1].kind = "FixFinished"
    BY <1>1, <1>3
  <2>2. Same(After(issues[events[i].issue], events[i].result), work[events[i].issue])'
    <3>1. PICK k, r : k = events'[i].issue /\ r = events'[i].result
      OBVIOUS
    <3>2. Same(After(issues[k], r), work[k])
      BY <1>2, <2>1, <3>1
    <3>3. Same(After(issues[k], r)', work'[k])
      BY <3>2 DEF Same, After
    <3> QED BY <3>1, <3>3 DEF Same, After
  <2>3. ASSUME NEW m \in 1..n - 1,
               events'[m].kind = "FixFinished", events'[m].issue = events'[i].issue
        PROVE  m = i
    <3>1. events'[m] = events[m + 1] /\ m + 1 \in 1..n
      BY <1>1
    <3>2. m + 1 = i + 1
      BY <1>2, <2>1, <2>3, <3>1
    <3> QED BY <1>1, <3>2
  <2> QED BY <1>2, <2>1, <2>2, <2>3
<1>4. engine \in Unsent => Same(After(issues[current], Sent), work[current])'
  BY <1>2 DEF Same, After, Sent
<1>5. \A i \in Issues :
        ~ResultOnItsWay(i)' /\ ~(engine \in Unsent /\ i = current) => Same(issues[i], work[i])'
  BY <1>1, <1>2 DEF Same
<1> QED BY <1>1, <1>2, <1>3, <1>4, <1>5 DEF Results

(* A result that arrives makes the window's finding what the engine's is.  *)
LEMMA ResultArrives ==
  ASSUME TypeOK, Results, OnFixFinished
  PROVE  Results'
<1> DEFINE n == Len(events)
           h == Head(events)
<1>1. /\ window = "running" /\ events # <<>> /\ events' = Tail(events)
      /\ h.kind = "FixFinished"
      /\ UNCHANGED <<dry_run, options, work, visited, current, outcome, engine, window>>
  BY DEF OnFixFinished, Receives, EngineSide, runVars, loopVars
<1>2. /\ n \in Nat \ {0} /\ Len(events') = n - 1
      /\ h = events[1] /\ h \in RepairEvent
      /\ \A i \in 1..n - 1 : events'[i] = events[i + 1] /\ i + 1 \in 1..n
      /\ \A k \in Issues : ResultOnItsWay(k) <=> ResultOnItsWay(k)' \/ h.issue = k
  <2>1. Len(events') = n - 1
    BY <1>1, Taken
  <2> QED BY <1>1, <2>1, Taken
<1>3. h.issue \in Issues /\ h.result \in RepairResults
  BY <1>1, <1>2, EventFields
<1>4. /\ dry_run = options.dry_run
      /\ \A i \in 1..n :
           events[i].kind = "FixFinished" =>
             /\ events[i].issue \in visited
             /\ engine \in Stepping \cup Unsent => events[i].issue # current
             /\ Same(After(issues[events[i].issue], events[i].result), work[events[i].issue])
             /\ \A m \in 1..n :
                  events[m].kind = "FixFinished" /\ events[m].issue = events[i].issue => m = i
      /\ engine \in Unsent => Same(After(issues[current], Sent), work[current])
      /\ \A i \in Issues :
           ~ResultOnItsWay(i) /\ ~(engine \in Unsent /\ i = current) => Same(issues[i], work[i])
  BY <1>1 DEF Results
<1>5. /\ issues' = IF dry_run THEN issues
                              ELSE [issues EXCEPT ![h.issue] = RecordRepair(@, h.result)]
  BY DEF OnFixFinished
<1>6. (dry_run <=> options.dry_run)
  BY <1>4, Zenon
<1>7. issues'[h.issue] = After(issues[h.issue], h.result)
  BY <1>3, <1>5, <1>6 DEF After, TypeOK
<1>8. \A i \in Issues : i # h.issue => issues'[i] = issues[i]
  BY <1>3, <1>5 DEF TypeOK
<1> HIDE DEF n, h
<1>9. 1 \in 1..n /\ engine \in Stepping \cup Unsent => h.issue # current
  BY <1>1, <1>2, <1>4
<1>10. ASSUME NEW i \in 1..n - 1, events'[i].kind = "FixFinished"
       PROVE  /\ events'[i].issue \in visited
              /\ engine \in Stepping \cup Unsent => events'[i].issue # current
              /\ Same(After(issues[events[i].issue], events[i].result), work[events[i].issue])'
              /\ \A m \in 1..n - 1 :
                   events'[m].kind = "FixFinished" /\ events'[m].issue = events'[i].issue => m = i
  <2>1. events'[i] = events[i + 1] /\ i + 1 \in 1..n /\ events[i + 1].kind = "FixFinished"
    BY <1>2, <1>10
  <2>2. 1 \in 1..n /\ i + 1 # 1
    BY <1>2
  <2>3. events'[i].issue # h.issue
    BY <1>1, <1>2, <1>4, <2>1, <2>2
  <2>4. events'[i].issue \in Issues
    BY <1>4, <2>1 DEF TypeOK
  <2>5. Same(After(issues[events[i].issue], events[i].result), work[events[i].issue])'
    <3>1. PICK k, r : k \in Issues /\ k = events'[i].issue /\ r = events'[i].result
      BY <2>4
    <3>2. Same(After(issues[k], r), work[k])
      BY <1>4, <2>1, <3>1
    <3>3. Same(After(issues[k], r)', work'[k])
      BY <1>1, <1>8, <2>3, <3>1, <3>2 DEF Same, After
    <3> QED BY <3>1, <3>3 DEF Same, After
  <2>6. ASSUME NEW m \in 1..n - 1,
               events'[m].kind = "FixFinished", events'[m].issue = events'[i].issue
        PROVE  m = i
    <3>1. events'[m] = events[m + 1] /\ m + 1 \in 1..n
      BY <1>2
    <3>2. m + 1 = i + 1
      BY <1>4, <2>1, <2>6, <3>1
    <3> QED BY <1>2, <3>2
  <2> QED BY <1>4, <2>1, <2>5, <2>6
<1>11. ASSUME engine \in Unsent
       PROVE  Same(After(issues[current], Sent), work[current])'
  <2>1. 1 \in 1..n
    BY <1>2
  <2>2. current # h.issue /\ current \in Issues \cup {NoIssue}
    BY <1>9, <1>11, <2>1 DEF TypeOK
  <2>3. CASE current \in Issues
    BY <1>1, <1>4, <1>8, <1>11, <2>2, <2>3 DEF Same, After, Sent
  <2>4. CASE current = NoIssue
    <3>1. UNCHANGED issues \/ issues'[current] = issues[current]
      BY <1>3, <1>5, <2>2 DEF TypeOK
    <3> QED BY <1>1, <1>4, <1>11, <3>1 DEF Same, After, Sent
  <2> QED BY <2>2, <2>3, <2>4
<1>12. ASSUME NEW i \in Issues, ~ResultOnItsWay(i)', ~(engine \in Unsent /\ i = current)
       PROVE  Same(issues[i], work[i])'
  <2>1. CASE i = h.issue
    <3>1. 1 \in 1..n
      BY <1>2
    <3> QED BY <1>1, <1>2, <1>4, <1>7, <2>1, <3>1 DEF Same
  <2>2. CASE i # h.issue
    BY <1>1, <1>2, <1>4, <1>8, <1>12, <2>2 DEF Same
  <2> QED BY <2>1, <2>2
<1> QED BY <1>1, <1>2, <1>4, <1>10, <1>11, <1>12 DEF Results

LEMMA WindowEndsOnce ==
  ASSUME [Next]_vars, window # "running"
  PROVE  UNCHANGED window
BY NextCases, EngineKeepsWindow
   DEF Window, OnRestorePointStep, OnFixStarted, OnFixOutput, OnFixFinished, OnRunEnded,
       OnRestorePointMissing, Receives, UserCancels, ToggleDryRun, vars, windowVars

LEMMA NoResultOfCurrent ==
  ASSUME TypeOK, Results, window = "running", engine \in Dealing
  PROVE  ~ResultOnItsWay(current)
BY DEF Results, Dealing, ResultOnItsWay

LEMMA ResultsStep ==
  ASSUME TypeOK, Protected, Machine, Terminals, Works, Results, [Next]_vars
  PROVE  Results'
<1> SUFFICES ASSUME window = "running", window' = "running" PROVE Results'
  BY WindowEndsOnce DEF Results
<1> USE DEF Dealing, Stepping, Working, Unsent, runVars, loopVars, windowVars
<1>0. \A i \in Issues : Same(work[i], work[i])
  BY DEF Same
<1>1. CASE Enter
  <2>1. CASE options.dry_run \/ options.create_vss
    <3>1. PICK e \in RepairEvent : e.kind # "FixFinished" /\ Send(e)
      BY <1>1, <2>1, EventTypes DEF Enter, DryRunStarted, VssStarted, TypeOK
    <3> QED BY <1>0, <1>1, <3>1, SendKeepsResults DEF Enter
  <2>2. CASE ~options.dry_run /\ ~options.create_vss
    BY <1>1, <2>2, AsideKeepsResults DEF Enter
  <2> QED BY <2>1, <2>2
<1>2. CASE ReportRestorePoint
  <2>1. \A i \in Issues : Same(work[i], work'[i])
    BY <1>2 DEF ReportRestorePoint, TypeOK, Finding, Same
  <2>2. /\ VssCompleted(restore = "created") \in RepairEvent
        /\ VssCompleted(restore = "created").kind # "FixFinished"
    BY EventTypes DEF VssCompleted
  <2>3. UNCHANGED <<window, issues, dry_run, options, visited>> /\ engine \notin Unsent
        /\ engine' \notin Dealing
    BY <1>2 DEF ReportRestorePoint
  <2> QED BY <1>2, <2>1, <2>2, <2>3, SendKeepsResults DEF ReportRestorePoint
<1>3. CASE GiveUp \/ StopBetween \/ AllDone \/ ReportCancelled
  <2>1. PICK e \in RepairEvent : e.kind # "FixFinished" /\ Send(e)
    <3>1. /\ RestorePointMissing \in RepairEvent
          /\ RepairsCancelled(Counts(Remaining)) \in RepairEvent
          /\ AllRepairsCompleted(Counts(0)) \in RepairEvent
      BY EventTypes, VisitedCount, CountsType
    <3> QED BY <1>3, <3>1
            DEF GiveUp, StopBetween, AllDone, ReportCancelled, RestorePointMissing,
                RepairsCancelled, AllRepairsCompleted
  <2>2. /\ UNCHANGED <<window, issues, dry_run, options, visited, work>>
        /\ engine \notin Unsent /\ engine' \notin Dealing
    BY <1>3 DEF GiveUp, StopBetween, AllDone, ReportCancelled
  <2> QED BY <1>0, <2>1, <2>2, SendKeepsResults
<1>4. ASSUME NEW i \in Issues, NextFix(i)
      PROVE  Results'
  <2>1. FixStarted(i) \in RepairEvent /\ FixStarted(i).kind # "FixFinished"
    BY EventTypes DEF FixStarted
  <2>2. /\ UNCHANGED <<window, issues, dry_run, options, work>> /\ visited \subseteq visited'
        /\ engine \notin Unsent /\ engine' \notin Unsent
        /\ current' \notin visited /\ Send(FixStarted(i))
    BY <1>4 DEF NextFix, Todo
  <2> QED BY <1>0, <2>1, <2>2, SendKeepsResults
<1>5. CASE SimulateFix
  <2>1. /\ current \in visited /\ current \in Issues /\ options.dry_run
        /\ "changed" \in RepairResults /\ engine \in Dealing /\ engine' \notin Dealing
        /\ engine \notin Unsent
        /\ UNCHANGED <<window, issues, dry_run, options, work, visited>>
        /\ Send(FixFinished(current, "changed"))
    BY <1>5 DEF SimulateFix, Machine, Protected, RepairResults, TypeOK
  <2>2. Same(After(issues[current], "changed"), work[current])
    BY <2>1, NoResultOfCurrent DEF After, Results
  <2> QED BY <2>1, <2>2, ResultIsSent
<1>6. CASE ModuleNotFound
  <2>1. /\ current \in visited /\ current \in Issues /\ ~options.dry_run
        /\ "error" \in RepairResults /\ engine \in Dealing /\ engine' \notin Dealing
        /\ engine \notin Unsent /\ engine \in Stepping
        /\ UNCHANGED <<window, issues, dry_run, options, work, visited>>
        /\ Send(FixFinished(current, "error"))
    BY <1>6 DEF ModuleNotFound, Machine, Protected, RepairResults, TypeOK
  <2>2. Same(issues[current], work[current])
    BY <2>1, NoResultOfCurrent DEF Results
  <2>3. WillRepair(work[current]) /\ issues[current] \in Finding /\ work[current] \in Finding
    BY <2>1 DEF Works, TypeOK
  <2>4. Same(After(issues[current], "error"), work[current])
    BY <2>1, <2>2, <2>3, SameAfterError DEF After
  <2> QED BY <2>1, <2>4, ResultIsSent
<1>7. CASE FinishFix
  <2>1. /\ current \in visited /\ Sent \in RepairResults
        /\ engine \in Dealing /\ engine' \notin Dealing /\ engine \in Unsent
        /\ UNCHANGED <<window, issues, dry_run, options, work, visited>>
        /\ Send(FixFinished(current, Sent))
    BY <1>7 DEF FinishFix, Machine, RepairResults, Sent
  <2>2. Same(After(issues[current], Sent), work[current])
    BY <2>1 DEF Results
  <2> QED BY <2>1, <2>2, ResultIsSent
<1>8. CASE SelectCancelled \/ SelectRepair \/ AbortReturns
  BY <1>8, AsideKeepsResults DEF SelectCancelled, SelectRepair, AbortReturns
<1>9. CASE Drained
  BY <1>9, DrainedKeepsResults
<1>10. CASE RestorePointReturns
  BY <1>10, AsideKeepsResults DEF RestorePointReturns
<1>11. CASE Behind
  BY <1>11, BehindTouches, AsideKeepsResults
<1>12. CASE ForwarderSends
  <2>1. FixOutput(current).kind # "FixFinished"
    BY DEF FixOutput
  <2>2. /\ UNCHANGED <<window, issues, dry_run, options, work, visited, current, engine>>
        /\ engine \notin Unsent
    BY <1>12, OutputOfCurrent DEF ForwarderSends
  <2> QED BY <1>0, <1>12, <2>1, <2>2, OutputOfCurrent, SendKeepsResults
<1>13. CASE OnRestorePointStep \/ OnFixStarted \/ OnFixOutput
  BY <1>13, TakeKeepsResults
     DEF OnRestorePointStep, OnFixStarted, OnFixOutput, Receives, EngineSide
<1>14. CASE OnFixFinished
  BY <1>14, ResultArrives
<1>15. CASE OnRunEnded \/ OnRestorePointMissing
  BY <1>15 DEF OnRunEnded, OnRestorePointMissing
<1>16. CASE UserCancels \/ UNCHANGED vars
  BY <1>16, AsideKeepsResults DEF UserCancels, vars
<1>17. CASE ToggleDryRun
  BY <1>17 DEF ToggleDryRun
<1> QED BY <1>1, <1>2, <1>3, <1>4, <1>5, <1>6, <1>7, <1>8, <1>9, <1>10, <1>11, <1>12, <1>13,
           <1>14, <1>15, <1>16, <1>17, NextCases DEF Engine, Window

---------------------------------------------------------------------------
(* The numbers.                                                            *)

Targets == Selected(work) \cup visited

(* What the run set out to repair stays the same to its end: a finding     *)
(* leaves the selection only by its own repair.                            *)
LEMMA TargetsStay ==
  ASSUME TypeOK, Machine, [Next]_vars
  PROVE  Targets' = Targets /\ UNCHANGED <<pending, options>>
<1> USE DEF Targets, runVars, loopVars
<1>1. CASE \/ Behind \/ ForwarderSends \/ Window \/ UserCancels \/ ToggleDryRun \/ UNCHANGED vars
  BY <1>1, AsideTouches DEF Selected
<1>2. CASE RestorePointReturns \/ Enter \/ GiveUp \/ StopBetween \/ AllDone \/ ReportCancelled
  BY <1>2 DEF RestorePointReturns, Enter, GiveUp, StopBetween, AllDone, ReportCancelled, Selected
<1>3. CASE ReportRestorePoint
  <2>1. \A i \in Issues : Same(work'[i], work[i])
    BY <1>3 DEF ReportRestorePoint, TypeOK, Finding, Same
  <2>2. TypeOK'
    BY TypeStep
  <2>3. \A i \in Issues : WillRepair(work'[i]) <=> WillRepair(work[i])
    BY <2>1, <2>2, SameSelects DEF TypeOK
  <2> QED BY <1>3, <2>3 DEF ReportRestorePoint, Selected
<1>4. ASSUME NEW i \in Issues, NextFix(i)
      PROVE  Targets' = Targets /\ UNCHANGED <<pending, options>>
  BY <1>4 DEF NextFix, Todo, Selected
<1>5. CASE SimulateFix \/ ModuleNotFound \/ SelectCancelled \/ SelectRepair \/ AbortReturns
           \/ FinishFix
  BY <1>5 DEF SimulateFix, ModuleNotFound, SelectCancelled, SelectRepair, AbortReturns, FinishFix,
              Selected
<1>6. CASE Drained
  <2>1. current \in Issues /\ current \in visited
    BY <1>6 DEF Drained, Machine, Stepping, Working, TypeOK
  <2>2. \A i \in Issues : i # current => work'[i] = work[i]
    BY <1>6, <2>1 DEF Drained, TypeOK
  <2> QED BY <1>6, <2>1, <2>2 DEF Drained, Selected
<1> QED BY <1>1, <1>2, <1>3, <1>4, <1>5, <1>6, NextCases DEF Engine

LEMMA DoneStep ==
  ASSUME TypeOK, Machine, Counted, [Next]_vars
  PROVE  engine' # "returned" =>
           Cardinality(visited') =
             fixed' + failed' + (IF engine' \in Stepping \cup {"interrupted", "cancelReport"}
                                   THEN 1 ELSE 0)
<1> USE DEF Stepping, Working, runVars, loopVars
<1>0. /\ engine # "returned" =>
           Cardinality(visited) =
             fixed + failed + (IF engine \in Stepping \cup {"interrupted", "cancelReport"}
                                 THEN 1 ELSE 0)
      /\ fixed \in Nat /\ failed \in Nat
  BY DEF Counted, TypeOK
<1>1. CASE \/ Behind \/ ForwarderSends \/ Window \/ UserCancels \/ ToggleDryRun \/ UNCHANGED vars
  BY <1>0, <1>1, AsideTouches
<1>2. CASE RestorePointReturns \/ Enter \/ ReportRestorePoint
  BY <1>0, <1>2 DEF RestorePointReturns, Enter, ReportRestorePoint
<1>3. CASE GiveUp \/ StopBetween \/ AllDone \/ ReportCancelled
  BY <1>3 DEF GiveUp, StopBetween, AllDone, ReportCancelled
<1>4. ASSUME NEW i \in Issues, NextFix(i)
      PROVE  Cardinality(visited') = fixed' + failed' + 1 /\ engine' \in Stepping
  <2>1. i \notin visited /\ visited' = visited \cup {i} /\ UNCHANGED <<fixed, failed>>
        /\ engine = "loop" /\ engine' \in Stepping
    BY <1>4 DEF NextFix, Todo
  <2>2. Cardinality(visited') = Cardinality(visited) + 1
    BY <2>1, VisitedCount, FS_AddElement
  <2> QED BY <1>0, <2>1, <2>2
<1>5. CASE SimulateFix
  BY <1>0, <1>5 DEF SimulateFix
<1>6. CASE ModuleNotFound
  BY <1>0, <1>6 DEF ModuleNotFound
<1>7. CASE SelectCancelled \/ SelectRepair \/ AbortReturns
  BY <1>0, <1>7 DEF SelectCancelled, SelectRepair, AbortReturns
<1>8. CASE Drained
  BY <1>0, <1>8 DEF Drained
<1>9. CASE FinishFix
  BY <1>0, <1>9 DEF FinishFix
<1> QED BY <1>1, <1>2, <1>3, <1>4, <1>5, <1>6, <1>7, <1>8, <1>9, NextCases DEF Engine

(* The window has seen started, or will see, what the engine has started.  *)
Shown == window = "running" =>
           \A i \in Issues : i \in visited <=> i \in startedSteps \/ StartOnItsWay(i)

LEMMA ShownStep ==
  ASSUME TypeOK, Machine, Terminals, Shown, [Next]_vars
  PROVE  Shown'
<1> SUFFICES ASSUME window = "running", window' = "running" PROVE Shown'
  BY WindowEndsOnce DEF Shown
<1> USE DEF runVars, loopVars, windowVars
<1>0. \A i \in Issues : i \in visited <=> i \in startedSteps \/ StartOnItsWay(i)
  BY DEF Shown
<1>1. ASSUME NEW e \in RepairEvent, Send(e), e.kind # "FixStarted",
             UNCHANGED <<visited, startedSteps>>
      PROVE  Shown'
  <2>1. \A k \in Issues : StartOnItsWay(k)' <=> StartOnItsWay(k)
    BY <1>1, Appended
  <2> QED BY <1>0, <1>1, <2>1 DEF Shown
<1>2. ASSUME UNCHANGED <<events, visited, startedSteps>>
      PROVE  Shown'
  BY <1>0, <1>2 DEF Shown, StartOnItsWay
<1>3. ASSUME NEW i \in Issues, NextFix(i)
      PROVE  Shown'
  <2>1. /\ FixStarted(i) \in RepairEvent /\ FixStarted(i).kind = "FixStarted"
        /\ FixStarted(i).issue = i
    BY EventTypes DEF FixStarted
  <2>2. Send(FixStarted(i)) /\ visited' = visited \cup {i} /\ UNCHANGED startedSteps
    BY <1>3 DEF NextFix
  <2>3. \A k \in Issues : StartOnItsWay(k)' <=> StartOnItsWay(k) \/ k = i
    BY <2>1, <2>2, Appended
  <2> QED BY <1>0, <2>2, <2>3 DEF Shown
<1>4. CASE Engine
  <2>1. UNCHANGED <<startedSteps>>
    BY <1>4, EngineKeepsWindow
  <2>2. \/ \E i \in Issues : NextFix(i)
        \/ UNCHANGED <<events, visited>>
        \/ UNCHANGED visited /\ \E e \in RepairEvent : Send(e) /\ e.kind # "FixStarted"
    <3>1. /\ DryRunStarted.kind # "FixStarted" /\ VssStarted.kind # "FixStarted"
          /\ RestorePointMissing.kind # "FixStarted"
          /\ \A ok : VssCompleted(ok).kind # "FixStarted"
          /\ \A k, r : FixFinished(k, r).kind # "FixStarted"
          /\ \A t : /\ RepairsCancelled(t).kind # "FixStarted"
                    /\ AllRepairsCompleted(t).kind # "FixStarted"
      BY DEF DryRunStarted, VssStarted, RestorePointMissing, VssCompleted, FixFinished,
             RepairsCancelled, AllRepairsCompleted
    <3>2. /\ RepairsCancelled(Counts(Remaining)) \in RepairEvent
          /\ AllRepairsCompleted(Counts(0)) \in RepairEvent
      BY EventTypes, VisitedCount, CountsType
    <3>3. CASE Enter \/ ReportRestorePoint \/ GiveUp
      BY <3>1, <3>3, EventTypes DEF Enter, ReportRestorePoint, GiveUp
    <3>4. CASE StopBetween \/ AllDone \/ ReportCancelled
      BY <3>1, <3>2, <3>4 DEF StopBetween, AllDone, ReportCancelled
    <3>5. CASE SimulateFix \/ ModuleNotFound
      <4>1. /\ FixFinished(current, "changed") \in RepairEvent
            /\ FixFinished(current, "error") \in RepairEvent
        BY <3>5, EventTypes
           DEF SimulateFix, ModuleNotFound, Machine, Stepping, RepairResults, TypeOK
      <4> QED BY <3>1, <3>5, <4>1 DEF SimulateFix, ModuleNotFound
    <3>6. CASE FinishFix
      <4>1. FixFinished(current, Sent) \in RepairEvent
        BY <3>6, EventTypes DEF FinishFix, Machine, Unsent, RepairResults, Sent, TypeOK
      <4> QED BY <3>1, <3>6, <4>1 DEF FinishFix, Sent
    <3>7. CASE SelectCancelled \/ SelectRepair \/ AbortReturns \/ Drained
      BY <3>7 DEF SelectCancelled, SelectRepair, AbortReturns, Drained
    <3> QED BY <1>4, <3>3, <3>4, <3>5, <3>6, <3>7 DEF Engine
  <2> QED BY <1>1, <1>2, <1>3, <2>1, <2>2
<1>5. CASE Behind \/ RestorePointReturns \/ UserCancels \/ UNCHANGED vars
  BY <1>2, <1>5, BehindTouches DEF RestorePointReturns, UserCancels, vars
<1>6. CASE ForwarderSends
  <2>1. FixOutput(current).kind # "FixStarted"
    BY DEF FixOutput
  <2> QED BY <1>1, <1>6, <2>1, OutputOfCurrent, EngineKeepsWindow DEF ForwarderSends
<1>7. CASE OnRestorePointStep \/ OnFixOutput \/ OnFixFinished
  <2>1. /\ events # <<>> /\ events' = Tail(events) /\ Head(events).kind # "FixStarted"
        /\ UNCHANGED <<visited, startedSteps>>
    BY <1>7 DEF OnRestorePointStep, OnFixOutput, OnFixFinished, Receives
  <2>2. \A k \in Issues : StartOnItsWay(k) <=> StartOnItsWay(k)'
    BY <2>1, Taken
  <2> QED BY <1>0, <2>1, <2>2 DEF Shown
<1>8. CASE OnFixStarted
  <2>1. /\ events # <<>> /\ events' = Tail(events) /\ Head(events).kind = "FixStarted"
        /\ UNCHANGED visited /\ startedSteps' = startedSteps \cup {Head(events).issue}
    BY <1>8 DEF OnFixStarted, Receives
  <2>2. \A k \in Issues : StartOnItsWay(k) <=> StartOnItsWay(k)' \/ Head(events).issue = k
    BY <2>1, Taken
  <2> QED BY <1>0, <2>1, <2>2 DEF Shown
<1>9. CASE OnRunEnded \/ OnRestorePointMissing \/ ToggleDryRun
  BY <1>9 DEF OnRunEnded, OnRestorePointMissing, ToggleDryRun
<1> QED BY <1>3, <1>4, <1>5, <1>6, <1>7, <1>8, <1>9, NextCases DEF Window

LEMMA CountedStep ==
  ASSUME TypeOK, Machine, Terminals, Counted, [Next]_vars
  PROVE  Counted'
<1>1. Shown'
  BY ShownStep DEF Counted, Shown
<1>2. pending' = Cardinality((Selected(work) \cup visited)')
  BY TargetsStay DEF Counted, Targets
<1> QED BY <1>1, <1>2, DoneStep DEF Counted, Shown

(* The findings dealt with are among those it set out to repair.           *)
LEMMA TargetCount ==
  ASSUME TypeOK, Counted
  PROVE  /\ Cardinality(visited) \in Nat /\ pending \in Nat
         /\ Cardinality(visited) <= pending
         /\ Remaining = pending - Cardinality(visited)
         /\ Todo = {} => Cardinality(visited) = pending
<1>1. IsFiniteSet(Selected(work) \cup visited)
  BY IssuesAssumption, FS_Subset DEF Selected, TypeOK
<1>2. Cardinality(visited) <= pending /\ Cardinality(visited) \in Nat
  BY <1>1, FS_Subset, VisitedCount DEF Counted
<1>3. Todo = {} => Selected(work) \cup visited = visited
  BY DEF Todo
<1>4. pending \in Nat /\ pending = Cardinality(Selected(work) \cup visited)
  BY DEF Counted, TypeOK
<1>5. Remaining = pending - Cardinality(visited)
  <2>1. ~(pending < Cardinality(visited))
    BY <1>2, <1>4
  <2> QED BY <2>1 DEF Remaining
<1> QED BY <1>2, <1>3, <1>4, <1>5

(* What each terminal event tells, when it is sent.                        *)
LEMMA EndsSent ==
  ASSUME TypeOK, Machine, Counted, Engine
  PROVE  \/ UNCHANGED events
         \/ \E e \in RepairEvent :
              /\ Send(e)
              /\ e.kind \in {"RepairsCancelled", "AllRepairsCompleted"} => UNCHANGED visited
              /\ e.kind = "AllRepairsCompleted" =>
                   e.tally.fixed + e.tally.failed = pending /\ Cardinality(visited) = pending
              /\ e.kind = "RepairsCancelled" =>
                   /\ e.tally.remaining = pending - Cardinality(visited)
                   /\ Cardinality(visited) - (e.tally.fixed + e.tally.failed) \in {0, 1}
<1> DEFINE Kinds == {"RepairsCancelled", "AllRepairsCompleted"}
<1>1. /\ DryRunStarted.kind \notin Kinds /\ VssStarted.kind \notin Kinds
      /\ RestorePointMissing.kind \notin Kinds
      /\ \A ok : VssCompleted(ok).kind \notin Kinds
      /\ \A i : FixStarted(i).kind \notin Kinds
      /\ \A i, r : FixFinished(i, r).kind \notin Kinds
  BY DEF DryRunStarted, VssStarted, RestorePointMissing, VssCompleted, FixStarted, FixFinished
<1>2. /\ Counts(Remaining) = [fixed |-> fixed, failed |-> failed,
                              remaining |-> pending - Cardinality(visited)]
      /\ Counts(0) = [fixed |-> fixed, failed |-> failed, remaining |-> 0]
      /\ RepairsCancelled(Counts(Remaining)) \in RepairEvent
      /\ AllRepairsCompleted(Counts(0)) \in RepairEvent
      /\ RepairsCancelled(Counts(Remaining)).kind = "RepairsCancelled"
      /\ RepairsCancelled(Counts(Remaining)).tally = Counts(Remaining)
      /\ AllRepairsCompleted(Counts(0)).kind = "AllRepairsCompleted"
      /\ AllRepairsCompleted(Counts(0)).tally = Counts(0)
  BY EventTypes, VisitedCount, CountsType, TargetCount
     DEF Counts, RepairsCancelled, AllRepairsCompleted
<1>3. fixed \in Nat /\ failed \in Nat /\ Cardinality(visited) \in Nat
  BY VisitedCount DEF TypeOK
<1> HIDE DEF Kinds
<1>4. CASE Enter \/ ReportRestorePoint \/ GiveUp
  BY <1>1, <1>4, EventTypes DEF Enter, ReportRestorePoint, GiveUp, Kinds
<1>5. ASSUME NEW i \in Issues, NextFix(i)
      PROVE  \E e \in RepairEvent : Send(e) /\ e.kind \notin Kinds
  BY <1>1, <1>5, EventTypes DEF NextFix
<1>6. CASE StopBetween \/ ReportCancelled
  <2>1. Cardinality(visited) - (fixed + failed) \in {0, 1}
    BY <1>3, <1>6 DEF Counted, StopBetween, ReportCancelled, Stepping, Working
  <2>2. Send(RepairsCancelled(Counts(Remaining))) /\ UNCHANGED visited
    BY <1>6 DEF StopBetween, ReportCancelled, loopVars
  <2> QED BY <1>2, <2>1, <2>2
<1>7. CASE AllDone
  <2>1. Cardinality(visited) = fixed + failed /\ Cardinality(visited) = pending
    BY <1>3, <1>7, TargetCount DEF Counted, AllDone, Stepping, Working
  <2>2. Send(AllRepairsCompleted(Counts(0))) /\ UNCHANGED visited
    BY <1>7 DEF AllDone, loopVars
  <2> QED BY <1>2, <2>1, <2>2
<1>8. CASE SimulateFix \/ ModuleNotFound
  <2>1. /\ FixFinished(current, "changed") \in RepairEvent
        /\ FixFinished(current, "error") \in RepairEvent
    BY <1>8, EventTypes DEF SimulateFix, ModuleNotFound, Machine, Stepping, RepairResults, TypeOK
  <2> QED BY <1>1, <1>8, <2>1 DEF SimulateFix, ModuleNotFound, Kinds
<1>9. CASE FinishFix
  <2>1. FixFinished(current, Sent) \in RepairEvent
    BY <1>9, EventTypes DEF FinishFix, Machine, Unsent, RepairResults, Sent, TypeOK
  <2> QED BY <1>1, <1>9, <2>1 DEF FinishFix, Sent, Kinds
<1>10. CASE SelectCancelled \/ SelectRepair \/ AbortReturns \/ Drained
  BY <1>10 DEF SelectCancelled, SelectRepair, AbortReturns, Drained
<1> QED BY <1>4, <1>5, <1>6, <1>7, <1>8, <1>9, <1>10 DEF Engine, Kinds

LEMMA EndsStep ==
  ASSUME TypeOK, Machine, Terminals, Counted, Ends, [Next]_vars
  PROVE  Ends'
<1>0. UNCHANGED pending
  BY TargetsStay
<1>1. ASSUME UNCHANGED <<events, visited>>
      PROVE  Ends'
  BY <1>0, <1>1 DEF Ends
<1>2. ASSUME events # <<>>, events' = Tail(events), UNCHANGED visited
      PROVE  Ends'
  <2>1. \A i \in 1..Len(events') : events'[i] = events[i + 1] /\ i + 1 \in 1..Len(events)
    BY <1>2, Taken
  <2> QED BY <1>0, <1>2, <2>1 DEF Ends
<1>3. ASSUME NEW e \in RepairEvent, Send(e), window = "running",
             \A n \in 1..Len(events) : ~IsTerminal(events[n]),
             e.kind \in {"RepairsCancelled", "AllRepairsCompleted"} => UNCHANGED visited,
             e.kind = "AllRepairsCompleted" =>
                   e.tally.fixed + e.tally.failed = pending /\ Cardinality(visited) = pending,
             e.kind = "RepairsCancelled" =>
                   /\ e.tally.remaining = pending - Cardinality(visited)
                   /\ Cardinality(visited) - (e.tally.fixed + e.tally.failed) \in {0, 1}
      PROVE  Ends'
  <2> DEFINE n == Len(events)
  <2>1. /\ \A i \in 1..n : events'[i] = events[i]
        /\ events'[n + 1] = e
        /\ \A i \in 1..Len(events') : i \in 1..n \/ i = n + 1
    BY <1>3, Appended
  <2>2. \A i \in 1..n : events[i].kind \notin {"RepairsCancelled", "AllRepairsCompleted"}
    BY <1>3 DEF IsTerminal
  <2> HIDE DEF n
  <2> QED BY <1>0, <1>3, <2>1, <2>2 DEF Ends
<1>4. CASE Engine
  <2>1. window = "running" /\ \A n \in 1..Len(events) : ~IsTerminal(events[n])
    BY <1>4, EngineNotReturned DEF Terminals
  <2>2. CASE UNCHANGED events
    <3>1. CASE \E i \in Issues : NextFix(i)
      <4>1. PICK i \in Issues : Send(FixStarted(i)) /\ FixStarted(i) \in RepairEvent
        BY <3>1, EventTypes DEF NextFix
      <4> QED BY <2>1, <2>2, <4>1, Appended
    <3>2. CASE ~\E i \in Issues : NextFix(i)
      <4>1. UNCHANGED visited
        BY <1>4, <3>2 DEF Engine, Enter, ReportRestorePoint, GiveUp, StopBetween, AllDone,
           SimulateFix, ModuleNotFound, SelectCancelled, SelectRepair, AbortReturns, Drained,
           FinishFix, ReportCancelled, loopVars
      <4> QED BY <1>1, <2>2, <4>1
    <3> QED BY <3>1, <3>2
  <2> QED BY <1>3, <1>4, <2>1, <2>2, EndsSent
<1>5. CASE RestorePointReturns \/ Behind \/ UserCancels \/ ToggleDryRun \/ UNCHANGED vars
  BY <1>1, <1>5, BehindTouches
     DEF RestorePointReturns, UserCancels, ToggleDryRun, vars, loopVars
<1>6. CASE ForwarderSends
  <2>1. FixOutput(current).kind \notin {"RepairsCancelled", "AllRepairsCompleted"}
    BY DEF FixOutput
  <2>2. /\ window = "running" /\ engine # "returned"
        /\ FixOutput(current) \in RepairEvent /\ Send(FixOutput(current))
    BY <1>6, OutputOfCurrent DEF Working
  <2>3. \A n \in 1..Len(events) : ~IsTerminal(events[n])
    BY <2>2 DEF Terminals
  <2> QED BY <1>3, <2>1, <2>2, <2>3
<1>7. CASE OnRestorePointStep \/ OnFixStarted \/ OnFixOutput \/ OnFixFinished
  BY <1>2, <1>7
     DEF OnRestorePointStep, OnFixStarted, OnFixOutput, OnFixFinished, Receives, loopVars
<1>8. CASE OnRunEnded \/ OnRestorePointMissing
  BY <1>8 DEF OnRunEnded, OnRestorePointMissing, Ends
<1> QED BY <1>4, <1>5, <1>6, <1>7, <1>8, NextCases DEF Engine, Window

(* A terminal event the window takes is all there is in the channel.       *)
LEMMA EndIsAlone ==
  ASSUME TypeOK, Terminals, OnRunEnded \/ OnRestorePointMissing
  PROVE  /\ Len(events) = 1 /\ events[1] = Head(events) /\ engine = "returned"
         /\ \A i \in Issues : ~ResultOnItsWay(i) /\ ~StartOnItsWay(i)
<1>1. /\ events # <<>> /\ window = "running" /\ IsTerminal(Head(events))
  BY DEF OnRunEnded, OnRestorePointMissing, Receives, IsTerminal
<1>2. Head(events) = events[1] /\ Len(events) \in Nat \ {0}
  BY <1>1, TailKeeps DEF TypeOK
<1>3. Len(events) = 1 /\ engine = "returned"
  <2>1. 1 \in 1..Len(events)
    BY <1>2
  <2>2. IsTerminal(events[1])
    <3>1. events[1] = Head(events)
      BY <1>2
    <3> QED BY <1>1, <3>1 DEF IsTerminal
  <2>3. IsTerminal(events[1]) => 1 = Len(events) /\ engine = "returned"
    BY <2>1 DEF Terminals
  <2> QED BY <2>2, <2>3
<1> QED BY <1>1, <1>2, <1>3 DEF ResultOnItsWay, StartOnItsWay, IsTerminal

LEMMA AgreesStep ==
  ASSUME TypeOK, Terminals, Protected, Works, Results, WindowAgreesWithEngine, [Next]_vars
  PROVE  WindowAgreesWithEngine'
<1>1. CASE window = "running" /\ window' # "running"
  <2>1. OnRunEnded \/ OnRestorePointMissing
    BY <1>1, NextCases, EngineKeepsWindow
       DEF Window, OnRestorePointStep, OnFixStarted, OnFixOutput, OnFixFinished, UserCancels,
           ToggleDryRun, vars, windowVars
  <2>2. \A i \in Issues : Same(issues[i], work[i])
    BY <1>1, <2>1, EndIsAlone DEF Results, Unsent
  <2>3. UNCHANGED <<issues, work, attempted>>
    BY <2>1 DEF OnRunEnded, OnRestorePointMissing, loopVars, EngineSide
  <2> QED BY <2>2, <2>3 DEF WindowAgreesWithEngine, Same, Works
<1>2. CASE window # "running"
  <2>1. engine = "returned"
    BY <1>2 DEF Terminals
  <2>2. ~(Engine \/ RestorePointReturns)
    BY <2>1, EngineNotReturned
  <2>3. UNCHANGED <<work, attempted>>
    BY <2>2, NextCases, AsideTouches
  <2>4. UNCHANGED issues
    BY <1>2, <2>2, NextCases, EngineKeepsWindow
       DEF Window, OnRestorePointStep, OnFixStarted, OnFixOutput, OnFixFinished, OnRunEnded,
           OnRestorePointMissing, Receives, UserCancels, ToggleDryRun, vars, windowVars
  <2> QED BY <1>2, <2>3, <2>4 DEF WindowAgreesWithEngine
<1> QED BY <1>1, <1>2 DEF WindowAgreesWithEngine

LEMMA TallyStep ==
  ASSUME TypeOK, Machine, Terminals, Counted, Ends, TallyAddsUp, [Next]_vars
  PROVE  TallyAddsUp'
<1>0. UNCHANGED pending
  BY TargetsStay
<1>1. CASE OnRunEnded \/ OnRestorePointMissing
  <2>1. /\ Len(events) = 1 /\ events[1] = Head(events)
        /\ \A i \in Issues : ~StartOnItsWay(i)
    BY <1>1, EndIsAlone
  <2>2. startedSteps = visited
    BY <1>1, <2>1 DEF Counted, TypeOK, OnRunEnded, OnRestorePointMissing, Receives
  <2>3. CASE OnRestorePointMissing
    BY <2>3 DEF OnRestorePointMissing, TallyAddsUp
  <2>4. CASE OnRunEnded
    <3>1. /\ tally' = events[1].tally /\ UNCHANGED startedSteps
          /\ \/ events[1].kind = "AllRepairsCompleted" /\ window' = "completed"
             \/ events[1].kind = "RepairsCancelled" /\ window' = "cancelled"
      BY <2>1, <2>4 DEF OnRunEnded, Receives
    <3> QED BY <1>0, <2>1, <2>2, <3>1 DEF Ends, TallyAddsUp
  <2> QED BY <1>1, <2>3, <2>4
<1>2. CASE ~(OnRunEnded \/ OnRestorePointMissing)
  <2>1. UNCHANGED window /\ (window # "running" => UNCHANGED <<tally, startedSteps>>)
    BY <1>2, NextCases, EngineKeepsWindow
       DEF Window, OnRestorePointStep, OnFixStarted, OnFixOutput, OnFixFinished, Receives,
           UserCancels, ToggleDryRun, vars, windowVars
  <2> QED BY <1>0, <2>1 DEF TallyAddsUp
<1> QED BY <1>1, <1>2

---------------------------------------------------------------------------
(* The invariant, and what it gives.                                       *)

LEMMA InitHolds == Init => IInv
<1> SUFFICES ASSUME Init PROVE IInv
  OBVIOUS
<1>1. PICK ticked \in SUBSET Issues :
        issues = [i \in Issues |-> Fresh("warning", i \in ticked, i \in NeedsRestart, FALSE)]
  BY DEF Init
<1>2. issues \in [Issues -> Finding]
  BY <1>1 DEF Fresh, Finding, Severities
<1>3. /\ \A i \in Issues : ~issues[i].is_fixed /\ ~issues[i].is_reboot_pending
                           /\ ~issues[i].fix_error
      /\ work = issues /\ visited = {} /\ engine = "enter" /\ Len(events) = 0
      /\ events = <<>> /\ window = "running" /\ startedSteps = {}
  BY <1>1 DEF Init, Fresh
<1>4. Selected(issues) \cup visited = Selected(work)
  BY <1>3
<1>5. pending = Cardinality(Selected(work)) /\ pending \in Nat
  <2>1. IsFiniteSet(Selected(work))
    BY IssuesAssumption, FS_Subset DEF Selected
  <2> QED BY <1>3, <2>1, FS_CardinalityType DEF Init
<1>6. TypeOK
  <2>1. events \in Seq(RepairEvent) /\ tally \in Tally
    BY DEF Init, Tally
  <2>2. /\ written \in 0..MaxLines /\ lineQ \in 0..LineCap /\ fixQ \in 0..FixCap
    BY CapAssumption DEF Init
  <2>3. work \in [Issues -> Finding]
    BY <1>2, <1>3
  <2>4. dry_run \in BOOLEAN /\ options \in [dry_run : BOOLEAN, create_vss : BOOLEAN, live : BOOLEAN]
    BY DEF Init
  <2>5. engine \in EngineStates /\ repair \in RepairStates
    BY DEF Init, EngineStates, RepairStates
  <2>6. /\ visited \in SUBSET Issues /\ current \in Issues \cup {NoIssue}
        /\ outcome \in RepairResults \cup {"none", "cancelled"}
        /\ fixed \in Nat /\ failed \in Nat
        /\ restore \in {"none", "created", "notRequested", "failed"}
        /\ command \in {"idle", "running", "left"}
        /\ bridge \in BOOLEAN /\ forwarder \in BOOLEAN /\ cancelled \in BOOLEAN
        /\ attempted \in SUBSET Issues
        /\ window \in {"running", "completed", "cancelled", "missing"}
        /\ step \in Issues \cup {NoIssue}
        /\ startedSteps \in SUBSET Issues
    BY DEF Init
  <2> QED BY <1>2, <1>5, <2>1, <2>2, <2>3, <2>4, <2>5, <2>6 DEF TypeOK
<1>7. Protected /\ Machine /\ Works
  BY <1>3 DEF Init, Protected, Preparing, Machine, Working, Stepping, Unsent, ForwarderEnded,
              SendersGone, Works
<1>8. Terminals /\ Lines /\ Ends
  BY <1>3 DEF Terminals, Lines, Working, Ends
<1>9. Simulated
  BY <1>3 DEF Simulated
<1>10. Results
  BY <1>3 DEF Init, Results, Same, Unsent, Stepping
<1>11. Counted
  <2>1. Cardinality(visited) = 0
    BY <1>3, FS_EmptySet
  <2>2. \A i \in Issues : ~StartOnItsWay(i)
    BY <1>3 DEF StartOnItsWay
  <2>3. Selected(work) \cup visited = Selected(work)
    BY <1>3
  <2> QED BY <1>3, <1>5, <2>1, <2>2, <2>3 DEF Init, Counted, Stepping, Working
<1>12. WindowAgreesWithEngine /\ TallyAddsUp
  BY <1>3 DEF WindowAgreesWithEngine, TallyAddsUp
<1> QED BY <1>6, <1>7, <1>8, <1>9, <1>10, <1>11, <1>12 DEF IInv

LEMMA Inductive == Spec => []IInv
<1>1. IInv /\ [Next]_vars => IInv'
  BY TypeStep, ProtectedStep, MachineStep, TerminalsStep, LinesStep, WorksStep, SimulatedStep,
     ResultsStep, CountedStep, EndsStep, AgreesStep, TallyStep DEF IInv
<1> QED BY <1>1, InitHolds, PTL DEF Spec

(* Every message of a run is of its kind.                                  *)
THEOREM TypeCorrect == Spec => []TypeOK
<1>1. IInv => TypeOK
  BY DEF IInv
<1> QED BY <1>1, Inductive, PTL

(* Through two channels and three tasks every message arrives in its place *)
(* and before the end: a line of output under its own repair, nothing      *)
(* after the event that ends the run, and nothing at work behind it.       *)
THEOREM EventsStayInOrder == Spec => []EventsInOrder
<1>1. IInv => EventsInOrder
  <2> SUFFICES ASSUME IInv PROVE EventsInOrder
    OBVIOUS
  <2>1. TypeOK /\ Terminals /\ Lines /\ Machine
    BY DEF IInv
  <2>2. EndIsTheEnd
    BY <2>1 DEF EndIsTheEnd, Terminals, Machine, Working
  <2>3. OutputInsideItsStep
    <3> SUFFICES ASSUME Receives({"FixOutput"}) PROVE step = Head(events).issue
      BY DEF OutputInsideItsStep
    <3>1. /\ window = "running" /\ events # <<>> /\ Head(events).kind = "FixOutput"
      BY DEF Receives
    <3>2. Head(events) = events[1] /\ 1 \in 1..Len(events)
      BY <2>1, <3>1, TailKeeps DEF TypeOK
    <3> QED BY <2>1, <3>1, <3>2 DEF Lines
  <2> QED BY <2>1, <2>2, <2>3 DEF EventsInOrder
<1> QED BY <1>1, Inductive, PTL

(* A simulation makes no restore point, calls no repair and starts no      *)
(* command, and never flips a finding to fixed, whatever the user does to  *)
(* the switch while the events are on their way.                           *)
THEOREM SimulationIsHarmless == Spec => []SimulationChangesNothing
<1>1. IInv => SimulationChangesNothing
  BY DEF IInv, Simulated, Works, Protected, Machine, Working, ForwarderEnded, SendersGone,
         SimulationChangesNothing
<1> QED BY <1>1, Inductive, PTL

(* What the window tells at the end of a finding and of the run is what    *)
(* the engine did, and its numbers add up.                                 *)
THEOREM WindowTellsTheTruth == Spec => []WindowTellsTheOutcome
<1>1. IInv => WindowTellsTheOutcome
  BY DEF IInv, WindowTellsTheOutcome
<1> QED BY <1>1, Inductive, PTL

---------------------------------------------------------------------------
(* The contract. *)

Active == IF repair \in {"running", "aborting"} \/ command = "running" THEN {current} ELSE {}

(* Whoever has not been visited is in the window's list as in the engine's. *)
LEMMA UnvisitedAgree ==
  ASSUME TypeOK, Machine, Results, window = "running", NEW i \in Issues, i \notin visited
  PROVE  Same(issues[i], work[i])
BY DEF Results, Machine, ResultOnItsWay, Unsent, Stepping

(* The findings the run may repair are the ones ticked at its start: the   *)
(* window's list changes only where the engine has been.                   *)
LEMMA AllowedStays ==
  ASSUME IInv, [Next]_vars
  PROVE  (Selected(issues) \cup visited)' = Selected(issues) \cup visited
<1> USE DEF Selected
<1>1. TypeOK /\ Machine /\ Results /\ Terminals
  BY DEF IInv
<1>2. ASSUME NEW i \in Issues, NextFix(i)
      PROVE  (Selected(issues) \cup visited)' = Selected(issues) \cup visited
  <2>1. /\ engine # "returned" /\ i \notin visited /\ WillRepair(work[i])
        /\ visited' = visited \cup {i} /\ UNCHANGED issues
    BY <1>2 DEF NextFix, Todo, windowVars
  <2>2. Same(issues[i], work[i])
    BY <1>1, <2>1, UnvisitedAgree DEF Terminals
  <2>3. WillRepair(issues[i])
    BY <1>1, <2>1, <2>2, SameSelects DEF TypeOK
  <2> QED BY <2>1, <2>3
<1>3. CASE Engine /\ ~\E i \in Issues : NextFix(i)
  <2>1. UNCHANGED <<visited, issues>>
    BY <1>3, EngineKeepsWindow
       DEF Engine, Enter, ReportRestorePoint, GiveUp, StopBetween, AllDone,
           SimulateFix, ModuleNotFound, SelectCancelled, SelectRepair, AbortReturns, Drained,
           FinishFix, ReportCancelled, loopVars, windowVars
  <2> QED BY <2>1
<1>4. CASE OnFixFinished
  <2>1. /\ events # <<>> /\ window = "running" /\ Head(events).kind = "FixFinished"
        /\ UNCHANGED visited
    BY <1>4 DEF OnFixFinished, Receives, loopVars
  <2>2. Head(events) = events[1] /\ 1 \in 1..Len(events)
    BY <1>1, <2>1, TailKeeps DEF TypeOK
  <2>3. Head(events).issue \in visited
    BY <1>1, <2>1, <2>2 DEF Results
  <2>4. \A k \in Issues : k \notin visited => issues'[k] = issues[k]
    BY <1>1, <1>4, <2>3 DEF OnFixFinished, TypeOK
  <2> QED BY <2>1, <2>4
<1>5. CASE \/ RestorePointReturns \/ Behind \/ ForwarderSends \/ UserCancels \/ ToggleDryRun
           \/ UNCHANGED vars \/ OnRestorePointStep \/ OnFixStarted \/ OnFixOutput \/ OnRunEnded
           \/ OnRestorePointMissing
  <2>1. UNCHANGED <<visited, issues>>
    BY <1>5, EngineKeepsWindow, BehindTouches
       DEF RestorePointReturns, ForwarderSends, UserCancels, ToggleDryRun, vars,
           OnRestorePointStep, OnFixStarted, OnFixOutput, OnRunEnded, OnRestorePointMissing,
           windowVars, loopVars
  <2> QED BY <2>1
<1> QED BY <1>2, <1>3, <1>4, <1>5, NextCases DEF Window

(* What the engine does, seen from the machine.                            *)
LEMMA StepKeepsContract ==
  ASSUME IInv, [Next]_vars
  PROVE  [Contract!Next]_Contract!vars
<1> DEFINE May == /\ ~options.dry_run
                  /\ options.create_vss => restore \in {"created", "notRequested"}
           Over == engine = "returned"
<1>1. TypeOK /\ Machine /\ Protected /\ Terminals
  BY DEF IInv
<1>2. (Selected(issues) \cup visited)' = Selected(issues) \cup visited
  BY AllowedStays
<1>3. UNCHANGED options
  BY <1>1, TargetsStay
<1>4. engine \notin Working => Active = {}
  BY <1>1 DEF Machine, Active, ForwarderEnded, SendersGone
<1>5. ASSUME UNCHANGED <<restore, attempted>>, Active' = Active, Over' <=> Over
      PROVE  UNCHANGED Contract!vars
  BY <1>2, <1>3, <1>5 DEF Contract!vars, Active
<1>6. CASE RestorePointReturns
  <2>1. /\ engine = "restorePoint" /\ engine' = "vssDone" /\ restore = "none"
        /\ options.create_vss /\ visited = {} /\ attempted = {}
        /\ restore' \in {"created", "failed", "notRequested"}
        /\ UNCHANGED <<repair, command, current, attempted>>
    BY <1>1, <1>6 DEF RestorePointReturns, Protected, Preparing, outputVars
  <2>2. Active' = Active
    BY <2>1 DEF Active
  <2>3. ~options.dry_run
    BY <1>1, <2>1 DEF Protected
  <2>4. CASE restore' = "failed"
    BY <1>2, <1>3, <2>1, <2>2, <2>4 DEF Contract!vars, Active
  <2>5. CASE restore' # "failed"
    BY <1>2, <1>3, <2>1, <2>2, <2>3, <2>5 DEF Contract!Protect, Contract!Next, Active
  <2> QED BY <2>4, <2>5
<1>7. ASSUME NEW i \in Issues, NextFix(i)
      PROVE  [Contract!Next]_Contract!vars
  <2>1. /\ engine = "loop" /\ engine' # "returned" /\ i \in Todo /\ UNCHANGED <<command, restore>>
        /\ current' = i
    BY <1>7 DEF NextFix
  <2>2. repair = "none" /\ command = "idle" /\ Active = {}
    BY <1>1, <2>1 DEF Machine, Working, Active, ForwarderEnded, SendersGone
  <2>3. CASE options.dry_run \/ i \in Orphans
    <3>1. UNCHANGED <<repair, attempted>>
      BY <1>7, <2>3 DEF NextFix
    <3>2. Active' = Active
      BY <2>1, <2>2, <3>1 DEF Active
    <3> QED BY <1>5, <2>1, <3>1, <3>2
  <2>4. CASE ~(options.dry_run \/ i \in Orphans)
    <3>1. repair' = "running" /\ attempted' = attempted \cup {i} /\ Active' = {i}
      BY <1>7, <2>1, <2>4 DEF NextFix, Active
    <3>2. May /\ May'
      BY <1>1, <1>3, <2>1, <2>4 DEF Protected, Preparing
    <3>3. i \in (Selected(issues) \cup visited) \ attempted
      <4>1. i \notin visited /\ visited' = visited \cup {i} /\ UNCHANGED issues
        BY <1>7 DEF NextFix, Todo, windowVars
      <4>2. attempted \subseteq visited
        BY <1>1 DEF Protected
      <4>3. i \in (Selected(issues) \cup visited)'
        BY <4>1
      <4> QED BY <1>2, <4>1, <4>2, <4>3
    <3>4. Contract!Start(i)
      BY <1>2, <1>3, <2>1, <2>2, <3>1, <3>2, <3>3 DEF Contract!Start, Active
    <3> QED BY <3>4 DEF Contract!Next
  <2> QED BY <2>3, <2>4
<1>8. CASE GiveUp \/ StopBetween \/ AllDone \/ ReportCancelled
  <2>1. /\ engine \notin Working \cup {"returned"} /\ engine' = "returned"
        /\ UNCHANGED <<restore, attempted, repair, command, current>>
    BY <1>8 DEF GiveUp, StopBetween, AllDone, ReportCancelled, Working, loopVars, outputVars
  <2>2. Active = {} /\ Active' = {}
    BY <1>4, <2>1 DEF Active
  <2> QED BY <1>2, <1>3, <2>1, <2>2 DEF Contract!End, Contract!Next, Active
<1>9. CASE \/ Enter \/ ReportRestorePoint \/ SimulateFix \/ ModuleNotFound \/ SelectRepair
           \/ AbortReturns \/ FinishFix
  <2>1. /\ UNCHANGED <<restore, attempted, repair, command, current>>
        /\ engine # "returned" /\ engine' # "returned"
    BY <1>9 DEF Enter, ReportRestorePoint, SimulateFix, ModuleNotFound, SelectRepair,
                AbortReturns, FinishFix, loopVars, outputVars
  <2> QED BY <1>5, <2>1 DEF Active
<1>10. CASE SelectCancelled
  <2>1. /\ engine = "select" /\ engine' = "abort"
        /\ UNCHANGED <<restore, attempted, command, current>>
        /\ repair' = IF repair = "running" THEN "aborting" ELSE "dropped"
    BY <1>10 DEF SelectCancelled, outputVars
  <2>2. /\ repair \in {"running"} \cup RepairResults
        /\ command = "running" => repair = "running"
    BY <1>1, <2>1 DEF Machine, RepairResults
  <2>3. Active' = Active
    BY <2>1, <2>2 DEF Active, RepairResults
  <2> QED BY <1>5, <2>1, <2>3
<1>11. CASE Drained
  <2>1. /\ engine = "drain" /\ engine' # "returned" /\ repair' = "none" /\ command = "idle"
        /\ UNCHANGED <<restore, attempted, command, current>>
    BY <1>11 DEF Drained, ForwarderEnded, SendersGone, outputVars
  <2>2. repair \notin {"running", "aborting"}
    BY <1>1, <2>1 DEF Machine, RepairResults
  <2> QED BY <1>5, <2>1, <2>2 DEF Active
<1>12. CASE RepairReturns \/ RepairDropped
  <2>1. /\ repair \in {"running", "aborting"} /\ repair' \notin {"running", "aborting"}
        /\ command' # "running"
        /\ UNCHANGED <<engine, restore, attempted, current>>
    BY <1>12 DEF RepairReturns, RepairDropped, RepairResults, loopVars
  <2>2. Active = {current} /\ Active' = {}
    BY <2>1 DEF Active
  <2> QED BY <1>2, <1>3, <2>1, <2>2 DEF Contract!Stop, Contract!Next, Active
<1>13. CASE \/ RepairStartsCommand \/ CommandWrites \/ CommandExits \/ LeftoverExits \/ BridgeTakes
            \/ BridgeSends \/ ForwarderTakes
  <2>1. UNCHANGED <<engine, repair, restore, attempted, current>>
    BY <1>13 DEF RepairStartsCommand, CommandWrites, CommandExits, LeftoverExits, BridgeTakes,
                 BridgeSends, ForwarderTakes, loopVars
  <2>2. \/ UNCHANGED command \/ repair \in {"running", "aborting"}
        \/ command # "running" /\ command' # "running"
    BY <1>1, <1>13
       DEF RepairStartsCommand, CommandWrites, CommandExits, LeftoverExits, BridgeTakes,
           BridgeSends, ForwarderTakes, Machine
  <2> QED BY <1>5, <2>1, <2>2 DEF Active
<1>14. CASE ForwarderSends \/ Window \/ UserCancels \/ ToggleDryRun \/ UNCHANGED vars
  <2>1. UNCHANGED <<engine, restore, attempted, current, repair, command>>
    BY <1>14, AsideTouches
       DEF ForwarderSends, Window, OnRestorePointStep, OnFixStarted, OnFixOutput, OnFixFinished,
           OnRunEnded, OnRestorePointMissing, UserCancels, ToggleDryRun, vars, EngineSide,
           outputVars
  <2> QED BY <1>5, <2>1 DEF Active
<1> QED BY <1>6, <1>7, <1>8, <1>9, <1>10, <1>11, <1>12, <1>13, <1>14, NextCases DEF Engine, Behind

(* run_repairs keeps its promise to the machine: one repair at a time,     *)
(* each selected finding at most once, nothing in a simulation, nothing    *)
(* before the restore point that was asked for, nothing after the end.     *)
THEOREM KeepsContract == Spec => ImplementsContract
<1>1. Init => Contract!Init
  <2> SUFFICES ASSUME Init PROVE Contract!Init
    OBVIOUS
  <2>1. Selected(issues) \cup visited \subseteq Issues
    BY DEF Init, Selected
  <2>2. /\ repair = "none" /\ command = "idle" /\ attempted = {} /\ engine = "enter"
    BY DEF Init
  <2> QED BY <2>1, <2>2 DEF Contract!Init
<1>2. IInv /\ [Next]_vars => [Contract!Next]_Contract!vars
  BY StepKeepsContract
<1> QED BY <1>1, <1>2, Inductive, PTL DEF Spec, ImplementsContract, Contract!Spec
===========================================================================
