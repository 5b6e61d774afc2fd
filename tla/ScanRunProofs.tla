--------------------------- MODULE ScanRunProofs ---------------------------
(***************************************************************************)
(* Theorems about ScanRun, for any finite set of checks and any capacity   *)
(* of the channels.                                                        *)
(***************************************************************************)
EXTENDS ScanRun, SequenceTheorems, FiniteSetTheorems, TLAPS

(* The events run_scan and the forwarder send are events.                  *)
LEMMA EventTypes ==
  /\ \A m \in Modules : Started(m) \in ScanEvent /\ ~IsTerminal(Started(m))
  /\ \A m \in Modules : Finished(m) \in ResultEvent /\ Failed(m) \in ResultEvent
  /\ \A p \in ModuleProgress : Progress(p) \in ScanEvent /\ ~IsTerminal(Progress(p))
  /\ \A e \in ResultEvent : e \in ScanEvent /\ ~IsTerminal(e)
  /\ \A n \in Nat : Cancelled(n) \in ScanEvent /\ Completed(n) \in ScanEvent
BY DEF Started, Finished, Failed, Progress, Cancelled, Completed, ScanEvent, ResultEvent,
       TerminalEvent, ModuleProgress, IsTerminal

(* A sequence that grows at its end keeps what it held.                    *)
LEMMA AppendKeeps ==
  ASSUME NEW S, NEW s \in Seq(S), NEW e \in S
  PROVE  /\ Append(s, e) \in Seq(S)
         /\ Len(Append(s, e)) = Len(s) + 1
         /\ \A i \in 1..Len(s) : Append(s, e)[i] = s[i]
         /\ Append(s, e)[Len(s) + 1] = e
OBVIOUS

(* A sequence that loses its head keeps the rest, one place earlier.       *)
LEMMA TailKeeps ==
  ASSUME NEW S, NEW s \in Seq(S), s # <<>>
  PROVE  /\ Head(s) \in S
         /\ Head(s) = s[1]
         /\ Tail(s) \in Seq(S)
         /\ Len(Tail(s)) = Len(s) - 1
         /\ Len(s) \in Nat \ {0}
         /\ \A i \in 1..Len(s) - 1 : Tail(s)[i] = s[i + 1]
OBVIOUS

---------------------------------------------------------------------------
(* Where the engine is tells what can still be on its way: the result of a *)
(* join is held only while it is reported, nothing lives before the checks *)
(* are started nor once the engine has returned.                           *)
Quiet ==
  /\ engine = "report" <=> reporting # NoEvent
  /\ engine \in {"enter", "returned"} => ForwarderEnded

(* Terminal events stand at the end of the channel, and only behind a      *)
(* returned engine; the window ends on one.                                *)
Terminals ==
  /\ \A i \in 1..Len(events) :
       IsTerminal(events[i]) => i = Len(events) /\ engine = "returned"
  /\ window # "running" => engine = "returned" /\ events = <<>>

IInv == TypeOK /\ Quiet /\ Terminals

(* A send appends to the channel or, with the receiver gone, does nothing. *)
LEMMA SendKeepsType ==
  ASSUME events \in Seq(ScanEvent), NEW e \in ScanEvent, Send(e)
  PROVE  events' \in Seq(ScanEvent)
BY DEF Send

LEMMA EngineStepKeepsType ==
  ASSUME TypeOK, Quiet, Engine
  PROVE  TypeOK'
<1> USE EventTypes DEF TypeOK, windowVars, engineVars
<1>1. CASE EnterCancelled
  BY <1>1, SendKeepsType DEF EnterCancelled, EngineStates
<1>2. CASE Enter
  BY <1>2 DEF Enter, EngineStates
<1>3. CASE Report
  <2>1. reporting \in ResultEvent
    BY <1>3, NoneAssumption DEF Report, Quiet
  <2>2. events' \in Seq(ScanEvent)
    BY <1>3, <2>1, SendKeepsType DEF Report
  <2>3. collected' \in SUBSET Modules
    BY <1>3, <2>1 DEF Report, ResultEvent
  <2> QED BY <1>3, <2>2, <2>3 DEF Report, EngineStates
<1>4. CASE Shutdown
  BY <1>4 DEF Shutdown, EngineStates, TaskStates
<1>5. CASE ShutdownReturns
  BY <1>5 DEF ShutdownReturns, EngineStates
<1>6. CASE FinishCancelledScan
  BY <1>6, SendKeepsType DEF FinishCancelledScan, EngineStates
<1>7. CASE AllJoined
  BY <1>7 DEF AllJoined, EngineStates
<1>8. CASE FinishScan
  <2>1. Cardinality(collected) \in Nat
    BY ModulesAssumption, FS_Subset, FS_CardinalityType
  <2>2. events' \in Seq(ScanEvent)
    BY <1>8, <2>1, SendKeepsType DEF FinishScan
  <2> QED BY <1>8, <2>2 DEF FinishScan, EngineStates
<1>9. ASSUME NEW m \in Modules, Spawn(m)
      PROVE  TypeOK'
  <2>1. events' \in Seq(ScanEvent)
    BY <1>9, SendKeepsType DEF Spawn
  <2> QED BY <1>9, <2>1 DEF Spawn, EngineStates, TaskStates
<1>10. ASSUME NEW m \in Modules, Join(m)
       PROVE  TypeOK'
  <2>1. reporting' \in ResultEvent
    BY <1>10 DEF Join
  <2> QED BY <1>10, <2>1 DEF Join, EngineStates, TaskStates
<1> QED BY <1>1, <1>2, <1>3, <1>4, <1>5, <1>6, <1>7, <1>8, <1>9, <1>10 DEF Engine

LEMMA TaskStepKeepsType ==
  ASSUME TypeOK,
         \/ Forwarder \/ UserCancels \/ ScanOver
         \/ \E m \in Modules : CheckReports(m) \/ CheckEnds(m)
  PROVE  TypeOK'
<1> USE DEF TypeOK, windowVars, engineVars
<1>1. CASE ForwarderTakes
  BY <1>1 DEF ForwarderTakes
<1>2. CASE ForwarderSends
  <2>1. events' \in Seq(ScanEvent)
    BY <1>2, SendKeepsType, EventTypes DEF ForwarderSends
  <2> QED BY <1>2, <2>1 DEF ForwarderSends
<1>3. CASE UserCancels
  BY <1>3 DEF UserCancels
<1>4. CASE ScanOver
  BY <1>4 DEF ScanOver, vars
<1>5. ASSUME NEW m \in Modules, CheckReports(m)
      PROVE  TypeOK'
  <2>1. [module |-> m, percent |-> sent[m] + 1] \in ModuleProgress
    BY <1>5, FullAssumption DEF CheckReports, ModuleProgress
  <2> QED BY <1>5, <2>1, FullAssumption DEF CheckReports
<1>6. ASSUME NEW m \in Modules, CheckEnds(m)
      PROVE  TypeOK'
  BY <1>6 DEF CheckEnds, TaskStates
<1> QED BY <1>1, <1>2, <1>3, <1>4, <1>5, <1>6 DEF Forwarder

LEMMA WindowStepKeepsType ==
  ASSUME TypeOK, Window
  PROVE  TypeOK'
<1> DEFINE e == Head(events)
<1>0. e \in ScanEvent /\ Tail(events) \in Seq(ScanEvent) /\ <<>> \in Seq(ScanEvent)
  BY DEF TypeOK, Window, Receives, OnModuleStarted, OnModuleProgress, OnModuleFinished,
         OnModuleFailed, OnScanCancelled, OnScanCompleted
<1> USE <1>0 DEF TypeOK, Receives, engineVars, RowStates
<1>1. CASE OnModuleStarted
  <2>1. e.module \in Modules
    BY <1>1 DEF OnModuleStarted, ScanEvent, ResultEvent, TerminalEvent
  <2> QED BY <1>1, <2>1 DEF OnModuleStarted
<1>2. CASE OnModuleProgress
  <2>1. e.module \in Modules /\ e.percent \in 0..Full
    BY <1>2 DEF OnModuleProgress, ScanEvent, ResultEvent, TerminalEvent
  <2> QED BY <1>2, <2>1 DEF OnModuleProgress
<1>3. CASE OnModuleFinished
  <2>1. e.module \in Modules
    BY <1>3 DEF OnModuleFinished, ScanEvent, ResultEvent, TerminalEvent
  <2> QED BY <1>3, <2>1, FullAssumption DEF OnModuleFinished
<1>4. CASE OnModuleFailed
  <2>1. e.module \in Modules
    BY <1>4 DEF OnModuleFailed, ScanEvent, ResultEvent, TerminalEvent
  <2> QED BY <1>4, <2>1, FullAssumption DEF OnModuleFailed
<1>5. CASE OnScanCancelled
  <2>1. e.completed_modules \in Nat
    BY <1>5 DEF OnScanCancelled, ScanEvent, ResultEvent, TerminalEvent
  <2> QED BY <1>5, <2>1 DEF OnScanCancelled
<1>6. CASE OnScanCompleted
  BY <1>6 DEF OnScanCompleted
<1> QED BY <1>1, <1>2, <1>3, <1>4, <1>5, <1>6 DEF Window

---------------------------------------------------------------------------
LEMMA InitHolds == Init => IInv
<1> SUFFICES ASSUME Init PROVE IInv
  OBVIOUS
<1>1. TypeOK
  <2>1. sent \in [Modules -> 0..Full]
    BY FullAssumption DEF Init
  <2>2. row \in [Modules -> [state : RowStates, percent : 0..Full]]
    BY FullAssumption DEF Init, RowStates
  <2>3. progQ \in Seq(ModuleProgress) /\ events \in Seq(ScanEvent)
    BY DEF Init
  <2> QED BY <2>1, <2>2, <2>3 DEF Init, TypeOK, EngineStates, TaskStates
<1>2. Quiet
  BY DEF Init, Quiet, ForwarderEnded, Live
<1>3. Terminals
  BY DEF Init, Terminals
<1> QED BY <1>1, <1>2, <1>3 DEF IInv

LEMMA TypeStep ==
  ASSUME TypeOK, Quiet, [Next]_vars
  PROVE  TypeOK'
<1>1. CASE Next
  BY <1>1, EngineStepKeepsType, TaskStepKeepsType, WindowStepKeepsType DEF Next
<1>2. CASE UNCHANGED vars
  BY <1>2 DEF vars, TypeOK
<1> QED BY <1>1, <1>2

(* Only the engine reports a join, and the tasks and the forwarder have    *)
(* nothing to do before the first check and after the last.                *)
LEMMA QuietStep ==
  ASSUME TypeOK, Quiet, [Next]_vars
  PROVE  Quiet'
<1> USE DEF Quiet, windowVars, engineVars
<1>1. CASE EnterCancelled
  BY <1>1 DEF EnterCancelled, ForwarderEnded, Live
<1>2. CASE Enter
  BY <1>2 DEF Enter
<1>3. CASE Report
  BY <1>3 DEF Report
<1>4. CASE Shutdown
  BY <1>4 DEF Shutdown
<1>5. CASE ShutdownReturns
  BY <1>5 DEF ShutdownReturns
<1>6. CASE FinishCancelledScan
  BY <1>6 DEF FinishCancelledScan, ForwarderEnded, Live
<1>7. CASE AllJoined
  BY <1>7 DEF AllJoined
<1>8. CASE FinishScan
  BY <1>8 DEF FinishScan, ForwarderEnded, Live
<1>9. ASSUME NEW m \in Modules, Spawn(m)
      PROVE  Quiet'
  BY <1>9 DEF Spawn
<1>10. ASSUME NEW m \in Modules, Join(m)
       PROVE  Quiet'
  <2>1. reporting' \in ResultEvent
    BY <1>10, EventTypes DEF Join
  <2> QED BY <1>10, <2>1, NoneAssumption DEF Join
<1>11. CASE Forwarder
  BY <1>11 DEF Forwarder, ForwarderTakes, ForwarderSends, ForwarderEnded, Live
<1>12. CASE Window
  BY <1>12 DEF Window, OnModuleStarted, OnModuleProgress, OnModuleFinished, OnModuleFailed,
               OnScanCancelled, OnScanCompleted, ForwarderEnded, Live
<1>13. ASSUME NEW m \in Modules, CheckReports(m)
       PROVE  Quiet'
  BY <1>13 DEF CheckReports, ForwarderEnded, Live
<1>14. ASSUME NEW m \in Modules, CheckEnds(m)
       PROVE  Quiet'
  BY <1>14 DEF CheckEnds, ForwarderEnded, Live
<1>15. CASE UserCancels
  BY <1>15 DEF UserCancels, ForwarderEnded, Live
<1>16. CASE UNCHANGED vars
  BY <1>16 DEF vars, ForwarderEnded, Live
<1> QED BY <1>1, <1>2, <1>3, <1>4, <1>5, <1>6, <1>7, <1>8, <1>9, <1>10, <1>11, <1>12, <1>13,
           <1>14, <1>15, <1>16 DEF Next, Engine, ScanOver

(* What is sent while the engine is at work joins a channel without a      *)
(* terminal event.                                                         *)
LEMMA SendKeepsTerminals ==
  ASSUME TypeOK, Terminals, NEW e \in ScanEvent, Send(e), UNCHANGED window,
         engine # "returned",
         ~IsTerminal(e) \/ engine' = "returned"
  PROVE  Terminals'
<1>1. window = "running" /\ events' = Append(events, e)
  BY DEF Terminals, Send
<1>2. \A i \in 1..Len(events) : ~IsTerminal(events[i])
  BY DEF Terminals
<1>3. /\ Len(events') = Len(events) + 1
      /\ \A i \in 1..Len(events) : events'[i] = events[i]
      /\ events'[Len(events) + 1] = e
      /\ Len(events) \in Nat
  BY <1>1, AppendKeeps DEF TypeOK
<1> QED BY <1>1, <1>2, <1>3 DEF Terminals, IsTerminal

(* What the window takes off the channel leaves the rest as it was.        *)
LEMMA TailKeepsTerminals ==
  ASSUME TypeOK, Terminals, events # <<>>, events' = Tail(events), UNCHANGED <<window, engine>>,
         window = "running"
  PROVE  Terminals'
<1> DEFINE n == Len(events)
<1>1. n \in Nat \ {0} /\ Len(events') = n - 1
  BY TailKeeps DEF TypeOK
<1>2. \A i \in 1..n - 1 : events'[i] = events[i + 1]
  BY TailKeeps DEF TypeOK
<1>3. \A i \in 1..n : IsTerminal(events[i]) => i = n /\ engine = "returned"
  BY DEF Terminals
<1> HIDE DEF n
<1>4. \A i \in 1..n - 1 : IsTerminal(events'[i]) => i = n - 1 /\ engine = "returned"
  BY <1>1, <1>2, <1>3 DEF IsTerminal
<1> QED BY <1>1, <1>4 DEF Terminals

LEMMA TerminalsStep ==
  ASSUME TypeOK, Quiet, Terminals, [Next]_vars
  PROVE  Terminals'
<1> USE DEF windowVars, engineVars
<1>1. CASE EnterCancelled
  BY <1>1, SendKeepsTerminals, EventTypes DEF EnterCancelled
<1>2. CASE Enter
  BY <1>2 DEF Enter, Terminals
<1>3. CASE Report
  <2>1. reporting \in ScanEvent /\ ~IsTerminal(reporting)
    BY <1>3, NoneAssumption, EventTypes DEF Report, Quiet, TypeOK
  <2> QED BY <1>3, <2>1, SendKeepsTerminals DEF Report
<1>4. CASE Shutdown
  BY <1>4 DEF Shutdown, Terminals
<1>5. CASE ShutdownReturns
  BY <1>5 DEF ShutdownReturns, Terminals
<1>6. CASE FinishCancelledScan
  <2>1. Cancelled(completed) \in ScanEvent
    BY EventTypes DEF TypeOK
  <2> QED BY <1>6, <2>1, SendKeepsTerminals DEF FinishCancelledScan
<1>7. CASE AllJoined
  BY <1>7 DEF AllJoined, Terminals
<1>8. CASE FinishScan
  <2>1. Cardinality(collected) \in Nat
    BY ModulesAssumption, FS_Subset, FS_CardinalityType DEF TypeOK
  <2>2. Completed(Cardinality(collected)) \in ScanEvent
    BY <2>1, EventTypes
  <2> QED BY <1>8, <2>2, SendKeepsTerminals DEF FinishScan
<1>9. ASSUME NEW m \in Modules, Spawn(m)
      PROVE  Terminals'
  BY <1>9, SendKeepsTerminals, EventTypes DEF Spawn
<1>10. ASSUME NEW m \in Modules, Join(m)
       PROVE  Terminals'
  BY <1>10 DEF Join, Terminals
<1>11. CASE ForwarderTakes
  BY <1>11 DEF ForwarderTakes, Terminals
<1>12. CASE ForwarderSends
  <2>1. engine # "returned"
    BY <1>12 DEF ForwarderSends, Quiet, ForwarderEnded
  <2>2. Progress(held) \in ScanEvent /\ ~IsTerminal(Progress(held))
    BY <1>12, EventTypes DEF ForwarderSends, TypeOK
  <2> QED BY <1>12, <2>1, <2>2, SendKeepsTerminals DEF ForwarderSends
<1>13. CASE OnModuleStarted \/ OnModuleProgress \/ OnModuleFinished \/ OnModuleFailed
  BY <1>13, TailKeepsTerminals
     DEF OnModuleStarted, OnModuleProgress, OnModuleFinished, OnModuleFailed, Receives
<1>14. CASE OnScanCancelled \/ OnScanCompleted
  <2>1. IsTerminal(events[1]) /\ Len(events) \in Nat \ {0}
    BY <1>14, TailKeeps DEF OnScanCancelled, OnScanCompleted, Receives, IsTerminal, TypeOK
  <2>2. engine = "returned"
    BY <2>1 DEF Terminals
  <2> QED BY <1>14, <2>2 DEF OnScanCancelled, OnScanCompleted, Terminals
<1>15. ASSUME NEW m \in Modules, CheckReports(m) \/ CheckEnds(m)
       PROVE  Terminals'
  BY <1>15 DEF CheckReports, CheckEnds, Terminals
<1>16. CASE UserCancels
  BY <1>16 DEF UserCancels, Terminals
<1>17. CASE UNCHANGED vars
  BY <1>17 DEF vars, Terminals
<1> QED BY <1>1, <1>2, <1>3, <1>4, <1>5, <1>6, <1>7, <1>8, <1>9, <1>10, <1>11, <1>12, <1>13,
           <1>14, <1>15, <1>16, <1>17 DEF Next, Engine, Forwarder, Window, ScanOver

---------------------------------------------------------------------------
LEMMA Inductive == Spec => []IInv
<1>1. Init => IInv
  BY InitHolds
<1>2. IInv /\ [Next]_vars => IInv'
  BY TypeStep, QuietStep, TerminalsStep DEF IInv
<1> QED BY <1>1, <1>2, PTL DEF Spec

(* Every variable of a scan keeps its type.                                *)
THEOREM TypeCorrect == Spec => []TypeOK
<1>1. IInv => TypeOK
  BY DEF IInv
<1> QED BY <1>1, Inductive, PTL

(* The event that ends a scan is the last one, and when it is sent nothing *)
(* of the scan is still at work, whatever the number of checks, however    *)
(* small the channels and whenever the scan is cancelled.                  *)
THEOREM EndIsLast == Spec => []EndIsTheEnd
<1>1. IInv => EndIsTheEnd
  BY DEF IInv, Quiet, Terminals, EndIsTheEnd
<1> QED BY <1>1, Inductive, PTL

---------------------------------------------------------------------------
(* What the window is told. Joined are the checks whose end the engine has *)
(* seen; each of them is held by the engine, on its way, or in its row.    *)
Joined == {m \in Modules : task[m] = "joined"}
Underway == {"running", "ok", "failed", "joined"}
IsResult(e) == e.kind \in {"ModuleFinished", "ModuleFailed"}
Held(m) == reporting # NoEvent /\ reporting.module = m
OnItsWay(m) == \E i \in 1..Len(events) : IsResult(events[i]) /\ events[i].module = m
FoundOnItsWay(m) ==
  \E i \in 1..Len(events) : events[i].kind = "ModuleFinished" /\ events[i].module = m
Answered(m) == row[m].state \in {"finished", "failed"}

(* Where the engine is tells what the tasks can be: a scan that drains     *)
(* after its last join has joined every check, one that was shut down has  *)
(* left one out, and completed counts the joins.                           *)
Tasks ==
  /\ engine = "enter" => \A m \in Modules : task[m] = "absent"
  /\ engine = "spawn" => \A m \in Modules : task[m] \in Underway \cup {"absent"}
  /\ engine \in {"select", "report"} => \A m \in Modules : task[m] \in Underway
  /\ engine = "drainDone" => Joined = Modules
  /\ engine \in {"shutdown", "drainCancelled"} => Joined # Modules
  /\ completed = Cardinality(Joined)

(* The event that ends the scan says what has become of the checks.        *)
Verdict ==
  \A i \in 1..Len(events) :
    /\ events[i].kind = "ScanCompleted" => Joined = Modules
    /\ events[i].kind = "ScanCancelled" =>
         Joined # Modules /\ events[i].completed_modules = completed

(* In the channel a check's start comes before its one result.             *)
InOrder ==
  \A i, j \in 1..Len(events) :
    /\ /\ IsResult(events[i]) /\ IsResult(events[j])
       /\ events[i].module = events[j].module
       => i = j
    /\ /\ events[i].kind = "ModuleStarted" /\ IsResult(events[j])
       /\ events[i].module = events[j].module
       => i < j

(* What the channel holds is news: its rows have not answered yet.         *)
IsNews ==
  \A i \in 1..Len(events) :
    /\ IsResult(events[i]) \/ events[i].kind = "ModuleStarted" =>
         ~Answered(events[i].module)
    /\ events[i].kind = "ModuleStarted" => task[events[i].module] # "absent"

(* A join's result is in one place: with the engine, on its way, or shown. *)
OnePlace ==
  \A m \in Modules :
    /\ Held(m) => task[m] = "joined" /\ ~OnItsWay(m) /\ ~Answered(m)
    /\ task[m] # "joined" => ~OnItsWay(m) /\ ~Answered(m)
    /\ task[m] = "joined" => Held(m) \/ OnItsWay(m) \/ Answered(m)

(* What run_scan has collected the window shows, or is about to.           *)
Catalogued ==
  \A m \in Modules : m \in collected <=> m \in shown \/ FoundOnItsWay(m)

Delivery == window = "running" => InOrder /\ IsNews /\ OnePlace /\ Catalogued

(* The invariant behind the window's view and the scan's contract.         *)
WInv == IInv /\ Tasks /\ Verdict /\ Delivery /\ WindowShowsWhatWasReturned

(* What a send adds to the channel, and nothing else.                      *)
LEMMA Appended ==
  ASSUME TypeOK, window = "running", NEW e \in ScanEvent, Send(e)
  PROVE  /\ Len(events) \in Nat /\ Len(events') = Len(events) + 1
         /\ \A i \in 1..Len(events) : events'[i] = events[i]
         /\ events'[Len(events) + 1] = e
         /\ \A m \in Modules :
              /\ OnItsWay(m)' <=> OnItsWay(m) \/ (IsResult(e) /\ e.module = m)
              /\ FoundOnItsWay(m)' <=>
                   FoundOnItsWay(m) \/ (e.kind = "ModuleFinished" /\ e.module = m)
<1>1. /\ Len(events) \in Nat /\ Len(events') = Len(events) + 1
      /\ \A i \in 1..Len(events) : events'[i] = events[i]
      /\ events'[Len(events) + 1] = e
  <2>1. events \in Seq(ScanEvent) /\ events' = Append(events, e)
    BY DEF TypeOK, Send
  <2> QED BY <2>1, AppendKeeps
<1> DEFINE n == Len(events)
<1>2. n \in Nat /\ Len(events') = n + 1
  BY <1>1
<1>3. /\ \A i \in 1..n : events'[i] = events[i]
      /\ events'[n + 1] = e
  BY <1>1
<1> HIDE DEF n
<1>4. \A i \in 1..n + 1 : i \in 1..n \/ i = n + 1
  BY <1>2
<1>5. \A i \in 1..n : i \in 1..n + 1
  BY <1>2
<1>6. n + 1 \in 1..n + 1
  BY <1>2
<1>7. ASSUME NEW m \in Modules
      PROVE  /\ OnItsWay(m)' <=> OnItsWay(m) \/ (IsResult(e) /\ e.module = m)
             /\ FoundOnItsWay(m)' <=>
                  FoundOnItsWay(m) \/ (e.kind = "ModuleFinished" /\ e.module = m)
  <2>1. OnItsWay(m) <=> \E i \in 1..n : IsResult(events[i]) /\ events[i].module = m
    BY DEF OnItsWay, n
  <2>2. OnItsWay(m)' <=> \E i \in 1..n + 1 : IsResult(events'[i]) /\ events'[i].module = m
    BY <1>2 DEF OnItsWay, IsResult
  <2>3. FoundOnItsWay(m) <=>
          \E i \in 1..n : events[i].kind = "ModuleFinished" /\ events[i].module = m
    BY DEF FoundOnItsWay, n
  <2>4. FoundOnItsWay(m)' <=>
          \E i \in 1..n + 1 : events'[i].kind = "ModuleFinished" /\ events'[i].module = m
    BY <1>2 DEF FoundOnItsWay
  <2> QED BY <1>3, <1>4, <1>5, <1>6, <2>1, <2>2, <2>3, <2>4
<1> QED BY <1>1, <1>7

(* What the window takes from the channel, and nothing else.               *)
LEMMA Taken ==
  ASSUME TypeOK, events # <<>>, events' = Tail(events)
  PROVE  /\ Len(events) \in Nat \ {0} /\ Len(events') = Len(events) - 1
         /\ Head(events) = events[1] /\ Head(events) \in ScanEvent
         /\ \A i \in 1..Len(events') : events'[i] = events[i + 1] /\ i + 1 \in 1..Len(events)
         /\ \A m \in Modules :
              /\ OnItsWay(m) <=>
                   OnItsWay(m)' \/ (IsResult(Head(events)) /\ Head(events).module = m)
              /\ FoundOnItsWay(m) <=>
                   FoundOnItsWay(m)' \/ (/\ Head(events).kind = "ModuleFinished"
                                         /\ Head(events).module = m)
<1> DEFINE n == Len(events)
<1>1. /\ n \in Nat \ {0} /\ Len(events') = n - 1
      /\ Head(events) = events[1] /\ Head(events) \in ScanEvent
      /\ \A i \in 1..n - 1 : events'[i] = events[i + 1]
  BY TailKeeps DEF TypeOK
<1> HIDE DEF n
<1>2. /\ \A i \in 1..n - 1 : i + 1 \in 1..n
      /\ \A i \in 1..n : i = 1 \/ (i - 1 \in 1..n - 1 /\ events'[i - 1] = events[i])
      /\ 1 \in 1..n
  BY <1>1
<1>3. ASSUME NEW m \in Modules
      PROVE  /\ OnItsWay(m) <=>
                  OnItsWay(m)' \/ (IsResult(Head(events)) /\ Head(events).module = m)
             /\ FoundOnItsWay(m) <=>
                  FoundOnItsWay(m)' \/ (/\ Head(events).kind = "ModuleFinished"
                                        /\ Head(events).module = m)
  <2>1. OnItsWay(m) <=> \E i \in 1..n : IsResult(events[i]) /\ events[i].module = m
    BY DEF OnItsWay, n
  <2>2. OnItsWay(m)' <=> \E i \in 1..n - 1 : IsResult(events'[i]) /\ events'[i].module = m
    BY <1>1 DEF OnItsWay, IsResult
  <2>3. FoundOnItsWay(m) <=>
          \E i \in 1..n : events[i].kind = "ModuleFinished" /\ events[i].module = m
    BY DEF FoundOnItsWay, n
  <2>4. FoundOnItsWay(m)' <=>
          \E i \in 1..n - 1 : events'[i].kind = "ModuleFinished" /\ events'[i].module = m
    BY <1>1 DEF FoundOnItsWay
  <2>5. \A i \in 1..n - 1 : events'[i] = events[i + 1] /\ i + 1 \in 1..n
    BY <1>1, <1>2
  <2>6. OnItsWay(m)' => OnItsWay(m)
    BY <2>1, <2>2, <2>5
  <2>7. OnItsWay(m) => OnItsWay(m)' \/ (IsResult(Head(events)) /\ Head(events).module = m)
    BY <1>1, <1>2, <2>1, <2>2
  <2>8. FoundOnItsWay(m)' => FoundOnItsWay(m)
    BY <2>3, <2>4, <2>5
  <2>9. FoundOnItsWay(m) => FoundOnItsWay(m)' \/ (/\ Head(events).kind = "ModuleFinished"
                                                  /\ Head(events).module = m)
    BY <1>1, <1>2, <2>3, <2>4
  <2>10. /\ IsResult(Head(events)) /\ Head(events).module = m => OnItsWay(m)
         /\ Head(events).kind = "ModuleFinished" /\ Head(events).module = m
              => FoundOnItsWay(m)
    BY <1>1, <1>2, <2>1, <2>3
  <2> QED BY <2>6, <2>7, <2>8, <2>9, <2>10
<1> QED BY <1>1, <1>2, <1>3 DEF n

(* Only a join joins a check.                                              *)
LEMMA JoinedStays ==
  ASSUME TypeOK, [Next]_vars, \A m \in Modules : ~Join(m)
  PROVE  Joined' = Joined /\ completed' = completed
<1> USE DEF TypeOK, Joined, windowVars, engineVars
<1>1. CASE Engine
  BY <1>1 DEF Engine, EnterCancelled, Enter, Report, Shutdown, ShutdownReturns,
              FinishCancelledScan, AllJoined, FinishScan, Spawn
<1>2. CASE Forwarder \/ Window \/ UserCancels
  BY <1>2 DEF Forwarder, ForwarderTakes, ForwarderSends, Window, OnModuleStarted,
              OnModuleProgress, OnModuleFinished, OnModuleFailed, OnScanCancelled,
              OnScanCompleted, UserCancels
<1>3. ASSUME NEW m \in Modules, CheckReports(m) \/ CheckEnds(m)
      PROVE  Joined' = Joined /\ completed' = completed
  BY <1>3 DEF CheckReports, CheckEnds
<1>4. CASE UNCHANGED vars
  BY <1>4 DEF vars
<1> QED BY <1>1, <1>2, <1>3, <1>4 DEF Next, ScanOver

LEMMA JoinJoins ==
  ASSUME TypeOK, completed = Cardinality(Joined), NEW m \in Modules, Join(m)
  PROVE  /\ m \notin Joined /\ Joined' = Joined \cup {m}
         /\ completed' = Cardinality(Joined')
<1>1. m \notin Joined /\ Joined' = Joined \cup {m}
  BY DEF TypeOK, Join, Joined
<1>2. IsFiniteSet(Joined)
  BY ModulesAssumption, FS_Subset DEF Joined
<1>3. Cardinality(Joined \cup {m}) = Cardinality(Joined) + 1
  BY <1>1, <1>2, FS_AddElement
<1> QED BY <1>1, <1>3 DEF Join

LEMMA TasksStep ==
  ASSUME TypeOK, Quiet, Tasks, [Next]_vars
  PROVE  Tasks'
<1> DEFINE Others == /\ engine = "enter" => \A m \in Modules : task[m] = "absent"
                     /\ engine = "spawn" =>
                          \A m \in Modules : task[m] \in Underway \cup {"absent"}
                     /\ engine \in {"select", "report"} =>
                          \A m \in Modules : task[m] \in Underway
           Ends == /\ engine = "drainDone" => Joined = Modules
                   /\ engine \in {"shutdown", "drainCancelled"} => Joined # Modules
<1>1. completed' = Cardinality(Joined')
  BY JoinedStays, JoinJoins DEF Tasks
<1>2. Others'
  <2> USE DEF Tasks, TypeOK, Underway, windowVars, engineVars
  <2>1. CASE EnterCancelled \/ Enter \/ Report
    BY <2>1 DEF EnterCancelled, Enter, Report
  <2>2. CASE Shutdown \/ ShutdownReturns \/ FinishCancelledScan
    BY <2>2 DEF Shutdown, ShutdownReturns, FinishCancelledScan
  <2>3. CASE AllJoined \/ FinishScan
    BY <2>3 DEF AllJoined, FinishScan
  <2>4. ASSUME NEW m \in Modules, Spawn(m)
        PROVE  Others'
    BY <2>4 DEF Spawn
  <2>5. ASSUME NEW m \in Modules, Join(m)
        PROVE  Others'
    BY <2>5 DEF Join
  <2>6. CASE Forwarder \/ Window \/ UserCancels
    BY <2>6 DEF Forwarder, ForwarderTakes, ForwarderSends, Window, OnModuleStarted,
                OnModuleProgress, OnModuleFinished, OnModuleFailed, OnScanCancelled,
                OnScanCompleted, UserCancels
  <2>7. ASSUME NEW m \in Modules, CheckReports(m) \/ CheckEnds(m)
        PROVE  Others'
    BY <2>7 DEF CheckReports, CheckEnds, Live
  <2>8. CASE UNCHANGED vars
    BY <2>8 DEF vars
  <2> QED BY <2>1, <2>2, <2>3, <2>4, <2>5, <2>6, <2>7, <2>8 DEF Next, Engine, ScanOver
<1>3. Ends'
  <2> USE DEF Tasks, windowVars, engineVars
  <2>1. CASE Shutdown
    <3>1. Joined' = Joined
      BY <2>1, JoinedStays DEF Shutdown, Join
    <3>2. Joined # Modules
      BY <2>1 DEF Shutdown, Unjoined, Joined
    <3> QED BY <2>1, <3>1, <3>2 DEF Shutdown
  <2>2. CASE AllJoined
    <3>1. Joined' = Joined
      BY <2>2, JoinedStays DEF AllJoined, Unjoined, Join
    <3>2. Joined = Modules
      BY <2>2 DEF AllJoined, Unjoined, Joined, Underway
    <3> QED BY <2>2, <3>1, <3>2 DEF AllJoined
  <2>3. ASSUME NEW m \in Modules, Join(m) \/ Spawn(m)
        PROVE  Ends'
    BY <2>3 DEF Join, Spawn
  <2>4. CASE EnterCancelled \/ Enter \/ Report \/ FinishCancelledScan \/ FinishScan
    BY <2>4 DEF EnterCancelled, Enter, Report, FinishCancelledScan, FinishScan
  <2>5. CASE /\ UNCHANGED engine \/ (engine = "shutdown" /\ engine' = "drainCancelled")
             /\ Joined' = Joined
    BY <2>5
  <2>6. CASE ShutdownReturns
    BY <2>6, <2>5, JoinedStays DEF ShutdownReturns, Join
  <2>7. CASE Forwarder \/ Window \/ UserCancels \/ UNCHANGED vars
    <3>1. UNCHANGED <<engine, task>>
      BY <2>7 DEF Forwarder, ForwarderTakes, ForwarderSends, Window, OnModuleStarted,
                  OnModuleProgress, OnModuleFinished, OnModuleFailed, OnScanCancelled,
                  OnScanCompleted, UserCancels, vars
    <3> QED BY <3>1 DEF Joined
  <2>8. ASSUME NEW m \in Modules, CheckReports(m) \/ CheckEnds(m)
        PROVE  Ends'
    <3>1. UNCHANGED <<engine, completed>>
      BY <2>8 DEF CheckReports, CheckEnds
    <3>2. \A k \in Modules : ~Join(k)
      BY <2>8, <3>1 DEF Join, TypeOK
    <3> QED BY <2>5, <3>1, <3>2, JoinedStays
  <2> QED BY <2>1, <2>2, <2>3, <2>4, <2>6, <2>7, <2>8 DEF Next, Engine, ScanOver
<1> QED BY <1>1, <1>2, <1>3 DEF Tasks

(* An event that ends the scan is sent when it says the truth, and no join *)
(* follows it.                                                             *)
LEMMA SendKeepsVerdict ==
  ASSUME TypeOK, Terminals, Verdict, NEW e \in ScanEvent, Send(e), UNCHANGED window,
         engine # "returned",
         e.kind = "ScanCompleted" => Joined' = Modules,
         e.kind = "ScanCancelled" => Joined' # Modules /\ e.completed_modules = completed'
  PROVE  Verdict'
<1>1. window = "running"
  BY DEF Terminals
<1>2. /\ Len(events) \in Nat /\ Len(events') = Len(events) + 1
      /\ \A i \in 1..Len(events) : events'[i] = events[i]
      /\ events'[Len(events) + 1] = e
  BY <1>1, Appended
<1>3. \A i \in 1..Len(events) : ~IsTerminal(events[i])
  BY DEF Terminals
<1> QED BY <1>2, <1>3 DEF Verdict, IsTerminal

LEMMA TakeKeepsVerdict ==
  ASSUME TypeOK, Verdict, events # <<>>, events' = Tail(events),
         Joined' = Joined, completed' = completed
  PROVE  Verdict'
<1>1. \A i \in 1..Len(events') : events'[i] = events[i + 1] /\ i + 1 \in 1..Len(events)
  BY Taken
<1> QED BY <1>1 DEF Verdict

LEMMA VerdictStep ==
  ASSUME TypeOK, Quiet, Terminals, Tasks, Verdict, [Next]_vars
  PROVE  Verdict'
<1> USE DEF windowVars, engineVars
<1>1. CASE EnterCancelled
  <2>1. Joined = {} /\ Joined' = {}
    BY <1>1 DEF EnterCancelled, Tasks, Joined
  <2>2. completed' = 0
    BY <1>1, <2>1, FS_EmptySet DEF EnterCancelled, Tasks
  <2>3. Cancelled(0) \in ScanEvent
    BY EventTypes
  <2> QED BY <1>1, <2>1, <2>2, <2>3, ModulesAssumption, SendKeepsVerdict
          DEF EnterCancelled, Cancelled
<1>2. CASE FinishCancelledScan
  <2>1. Joined' = Joined /\ Joined # Modules
    BY <1>2 DEF FinishCancelledScan, Tasks, Joined
  <2>2. Cancelled(completed) \in ScanEvent
    BY EventTypes DEF TypeOK
  <2> QED BY <1>2, <2>1, <2>2, SendKeepsVerdict DEF FinishCancelledScan, Cancelled
<1>3. CASE FinishScan
  <2>1. Joined' = Joined /\ Joined = Modules
    BY <1>3 DEF FinishScan, Tasks, Joined
  <2>2. Completed(Cardinality(collected)) \in ScanEvent
    BY ModulesAssumption, FS_Subset, FS_CardinalityType, EventTypes DEF TypeOK
  <2> QED BY <1>3, <2>1, <2>2, SendKeepsVerdict DEF FinishScan, Completed
<1>4. CASE Report
  <2>1. reporting \in ScanEvent /\ ~IsTerminal(reporting)
    BY <1>4, NoneAssumption, EventTypes DEF Report, Quiet, TypeOK
  <2> QED BY <1>4, <2>1, SendKeepsVerdict DEF Report, IsTerminal
<1>5. ASSUME NEW m \in Modules, Spawn(m)
      PROVE  Verdict'
  BY <1>5, EventTypes, SendKeepsVerdict DEF Spawn, IsTerminal
<1>6. CASE ForwarderSends
  <2>1. engine # "returned"
    BY <1>6 DEF ForwarderSends, Quiet, ForwarderEnded
  <2>2. Progress(held) \in ScanEvent /\ ~IsTerminal(Progress(held))
    BY <1>6, EventTypes DEF ForwarderSends, TypeOK
  <2> QED BY <1>6, <2>1, <2>2, SendKeepsVerdict DEF ForwarderSends, IsTerminal
<1>7. ASSUME NEW m \in Modules, Join(m)
      PROVE  Verdict'
  <2>1. \A i \in 1..Len(events) : ~IsTerminal(events[i])
    BY <1>7 DEF Join, Terminals
  <2> QED BY <1>7, <2>1 DEF Join, Verdict, IsTerminal
<1>8. CASE OnModuleStarted \/ OnModuleProgress \/ OnModuleFinished \/ OnModuleFailed
  <2>1. events # <<>> /\ events' = Tail(events) /\ Joined' = Joined /\ completed' = completed
    BY <1>8 DEF OnModuleStarted, OnModuleProgress, OnModuleFinished, OnModuleFailed,
                Receives, Joined
  <2> QED BY <2>1, TakeKeepsVerdict
<1>9. CASE OnScanCancelled \/ OnScanCompleted
  BY <1>9 DEF OnScanCancelled, OnScanCompleted, Verdict
<1>10. ASSUME UNCHANGED events, Joined' = Joined, completed' = completed
       PROVE  Verdict'
  BY <1>10 DEF Verdict
<1>11. CASE \/ Enter \/ Shutdown \/ ShutdownReturns \/ AllJoined \/ ForwarderTakes
            \/ UserCancels \/ UNCHANGED vars
  <2>1. UNCHANGED events /\ \A m \in Modules : ~Join(m)
    BY <1>11 DEF Enter, Shutdown, ShutdownReturns, AllJoined, ForwarderTakes, UserCancels,
                 vars, Join, TypeOK
  <2> QED BY <1>10, <2>1, JoinedStays
<1>12. ASSUME NEW m \in Modules, CheckReports(m) \/ CheckEnds(m)
       PROVE  Verdict'
  <2>1. UNCHANGED events /\ \A k \in Modules : ~Join(k)
    BY <1>12 DEF CheckReports, CheckEnds, Join, TypeOK
  <2> QED BY <1>10, <2>1, JoinedStays
<1> QED BY <1>1, <1>2, <1>3, <1>4, <1>5, <1>6, <1>7, <1>8, <1>9, <1>11, <1>12
        DEF Next, Engine, Forwarder, Window, ScanOver

---------------------------------------------------------------------------
(* A message that is about no row's end changes no account of the ends.    *)
LEMMA SendKeepsDelivery ==
  ASSUME TypeOK, Delivery, NEW e \in ScanEvent, Send(e), window = "running",
         ~IsResult(e), e.kind # "ModuleStarted",
         UNCHANGED <<task, reporting, collected, row, shown>>
  PROVE  Delivery'
<1>1. InOrder /\ IsNews /\ OnePlace /\ Catalogued
  BY DEF Delivery
<1>2. /\ Len(events) \in Nat /\ Len(events') = Len(events) + 1
      /\ \A i \in 1..Len(events) : events'[i] = events[i]
      /\ events'[Len(events) + 1] = e
      /\ \A m \in Modules : OnItsWay(m)' <=> OnItsWay(m)
      /\ \A m \in Modules : FoundOnItsWay(m)' <=> FoundOnItsWay(m)
  BY Appended DEF IsResult
<1>3. InOrder'
  BY <1>1, <1>2 DEF InOrder, IsResult
<1>4. IsNews'
  BY <1>1, <1>2 DEF IsNews, IsResult, Answered
<1>5. OnePlace' /\ Catalogued'
  BY <1>1, <1>2 DEF OnePlace, Catalogued, Held, Answered
<1> QED BY <1>3, <1>4, <1>5 DEF Delivery

(* What neither the channel nor the rows notice changes none either.       *)
LEMMA AsideKeepsDelivery ==
  ASSUME Delivery, UNCHANGED <<events, reporting, collected, row, shown, window>>,
         \A m \in Modules : task'[m] = "joined" <=> task[m] = "joined",
         \A m \in Modules : task'[m] = "absent" => task[m] = "absent",
         TypeOK
  PROVE  Delivery'
<1> SUFFICES ASSUME window = "running"
             PROVE  InOrder' /\ IsNews' /\ OnePlace' /\ Catalogued'
  BY DEF Delivery
<1>1. InOrder /\ IsNews /\ OnePlace /\ Catalogued
  BY DEF Delivery
<1>2. InOrder' /\ Catalogued'
  BY <1>1 DEF InOrder, Catalogued, FoundOnItsWay
<1>3. \A i \in 1..Len(events) : events[i].kind = "ModuleStarted" => events[i].module \in Modules
  BY DEF TypeOK, ScanEvent, ResultEvent, TerminalEvent
<1>4. IsNews'
  BY <1>1, <1>3 DEF IsNews, Answered
<1>5. OnePlace'
  BY <1>1 DEF OnePlace, Held, OnItsWay, Answered
<1> QED BY <1>2, <1>4, <1>5

(* A check's start joins the channel before its end can be there.          *)
LEMMA SpawnKeepsDelivery ==
  ASSUME TypeOK, Tasks, Delivery, window = "running", NEW m \in Modules, Spawn(m)
  PROVE  Delivery'
<1>1. InOrder /\ IsNews /\ OnePlace /\ Catalogued
  BY DEF Delivery
<1> DEFINE e == Started(m)
<1>2. /\ e \in ScanEvent /\ ~IsResult(e) /\ e.kind = "ModuleStarted" /\ e.module = m
      /\ Send(e)
  BY EventTypes DEF Spawn, Started, IsResult
<1> HIDE DEF e
<1>3. /\ Len(events) \in Nat /\ Len(events') = Len(events) + 1
      /\ \A i \in 1..Len(events) : events'[i] = events[i]
      /\ events'[Len(events) + 1] = e
      /\ \A k \in Modules : OnItsWay(k)' <=> OnItsWay(k)
      /\ \A k \in Modules : FoundOnItsWay(k)' <=> FoundOnItsWay(k)
  BY <1>2, Appended DEF IsResult
<1>4. /\ task[m] = "absent" /\ task' = [task EXCEPT ![m] = "running"]
      /\ UNCHANGED <<row, shown, collected, reporting, window>>
  BY DEF Spawn, windowVars
<1>5. ~OnItsWay(m) /\ ~Answered(m)
  BY <1>1, <1>4 DEF OnePlace
<1>6. InOrder'
  <2>1. \A j \in 1..Len(events) : IsResult(events[j]) => events[j].module # m
    BY <1>5 DEF OnItsWay
  <2> QED BY <1>1, <1>2, <1>3, <2>1 DEF InOrder, IsResult
<1>7. IsNews'
  <2>1. \A i \in 1..Len(events) :
          events[i].kind = "ModuleStarted" => events[i].module \in Modules
    BY DEF TypeOK, ScanEvent, ResultEvent, TerminalEvent
  <2>2. \A k \in Modules : task'[k] = "absent" => task[k] = "absent"
    BY <1>4 DEF TypeOK
  <2>3. task'[m] # "absent"
    BY <1>4 DEF TypeOK
  <2> QED BY <1>1, <1>2, <1>3, <1>4, <1>5, <2>1, <2>2, <2>3 DEF IsNews, IsResult, Answered
<1>8. OnePlace'
  <2>1. \A k \in Modules : task'[k] = "joined" <=> task[k] = "joined"
    BY <1>4 DEF TypeOK
  <2> QED BY <1>1, <1>3, <1>4, <2>1 DEF OnePlace, Held, Answered
<1>9. Catalogued'
  BY <1>1, <1>3, <1>4 DEF Catalogued
<1> QED BY <1>6, <1>7, <1>8, <1>9 DEF Delivery

(* A join moves a check's end from its task to the engine.                 *)
LEMMA JoinKeepsDelivery ==
  ASSUME TypeOK, Quiet, Delivery, window = "running", NEW m \in Modules, Join(m)
  PROVE  Delivery'
<1>1. InOrder /\ IsNews /\ OnePlace /\ Catalogued
  BY DEF Delivery
<1>2. /\ task[m] # "joined" /\ task' = [task EXCEPT ![m] = "joined"]
      /\ UNCHANGED <<events, row, shown, collected, window>>
      /\ reporting = NoEvent
  BY DEF Join, windowVars, Quiet
<1>3. reporting' \in ResultEvent /\ reporting'.module = m
  BY EventTypes DEF Join, Finished, Failed
<1>4. \A k \in Modules : /\ Held(k)' <=> k = m
                         /\ ~Held(k)
                         /\ OnItsWay(k)' <=> OnItsWay(k)
                         /\ Answered(k)' <=> Answered(k)
                         /\ FoundOnItsWay(k)' <=> FoundOnItsWay(k)
  BY <1>2, <1>3, NoneAssumption DEF Held, OnItsWay, Answered, FoundOnItsWay
<1>5. \A k \in Modules : task'[k] = "joined" <=> task[k] = "joined" \/ k = m
  BY <1>2 DEF TypeOK
<1>6. OnePlace'
  BY <1>1, <1>2, <1>4, <1>5 DEF OnePlace
<1>7. InOrder' /\ Catalogued'
  BY <1>1, <1>2, <1>4 DEF InOrder, Catalogued
<1>8. IsNews'
  <2>1. \A i \in 1..Len(events) :
          events[i].kind = "ModuleStarted" => events[i].module \in Modules
    BY DEF TypeOK, ScanEvent, ResultEvent, TerminalEvent
  <2>2. \A k \in Modules : task'[k] = "absent" => task[k] = "absent"
    BY <1>2 DEF TypeOK
  <2> QED BY <1>1, <1>2, <2>1, <2>2 DEF IsNews, Answered
<1> QED BY <1>6, <1>7, <1>8 DEF Delivery

(* A report moves it from the engine to the channel, and its findings into *)
(* what run_scan returns.                                                  *)
LEMMA ReportKeepsDelivery ==
  ASSUME TypeOK, Quiet, Delivery, window = "running", Report
  PROVE  Delivery'
<1>1. InOrder /\ IsNews /\ OnePlace /\ Catalogued
  BY DEF Delivery
<1> DEFINE e == reporting
           m == e.module
<1>2. e \in ResultEvent /\ e \in ScanEvent /\ Send(e) /\ e # NoEvent
  BY NoneAssumption, EventTypes DEF Report, Quiet, TypeOK
<1>3. m \in Modules /\ IsResult(e) /\ e.kind # "ModuleStarted"
  BY <1>2 DEF ResultEvent, IsResult
<1>4. /\ UNCHANGED <<task, row, shown, window>> /\ reporting' = NoEvent
      /\ collected' = IF e.kind = "ModuleFinished" THEN collected \cup {m} ELSE collected
  BY DEF Report, windowVars
<1>5. \A k \in Modules : (Held(k) <=> k = m) /\ ~Held(k)'
  BY <1>2, <1>4 DEF Held
<1> HIDE DEF e, m
<1>6. /\ Len(events) \in Nat /\ Len(events') = Len(events) + 1
      /\ \A i \in 1..Len(events) : events'[i] = events[i]
      /\ events'[Len(events) + 1] = e
      /\ \A k \in Modules :
           /\ OnItsWay(k)' <=> OnItsWay(k) \/ k = m
           /\ FoundOnItsWay(k)' <=>
                FoundOnItsWay(k) \/ (e.kind = "ModuleFinished" /\ k = m)
  BY <1>2, <1>3, Appended DEF m
<1>7. task[m] = "joined" /\ ~OnItsWay(m) /\ ~Answered(m)
  BY <1>1, <1>3, <1>5 DEF OnePlace
<1>8. InOrder'
  <2>1. \A j \in 1..Len(events) : IsResult(events[j]) => events[j].module # m
    BY <1>7 DEF OnItsWay
  <2>2. e.module = m
    BY DEF m
  <2> QED BY <1>1, <1>3, <1>6, <2>1, <2>2 DEF InOrder, IsResult
<1>9. IsNews'
  <2>1. e.module = m
    BY DEF m
  <2> QED BY <1>1, <1>3, <1>4, <1>6, <1>7, <2>1 DEF IsNews, IsResult, Answered
<1>10. OnePlace'
  <2>1. \A k \in Modules : Answered(k)' <=> Answered(k)
    BY <1>4 DEF Answered
  <2> QED BY <1>1, <1>3, <1>4, <1>5, <1>6, <1>7, <2>1 DEF OnePlace
<1>11. Catalogued'
  BY <1>1, <1>3, <1>4, <1>6 DEF Catalogued
<1> QED BY <1>8, <1>9, <1>10, <1>11 DEF Delivery

(* A start or a percentage that is taken answers no row.                   *)
LEMMA MarksKeepDelivery ==
  ASSUME TypeOK, Delivery, OnModuleStarted \/ OnModuleProgress
  PROVE  Delivery'
<1>1. InOrder /\ IsNews /\ OnePlace /\ Catalogued
  BY DEF Delivery, Receives, OnModuleStarted, OnModuleProgress
<1> DEFINE h == Head(events)
<1>2. /\ events # <<>> /\ events' = Tail(events)
      /\ UNCHANGED <<task, reporting, collected, shown, window>>
      /\ ~IsResult(h) /\ h.kind # "ModuleFinished"
  BY DEF Receives, OnModuleStarted, OnModuleProgress, engineVars, IsResult
<1>3. /\ Len(events) \in Nat \ {0} /\ Len(events') = Len(events) - 1
      /\ h = events[1] /\ h \in ScanEvent
      /\ \A i \in 1..Len(events') : events'[i] = events[i + 1] /\ i + 1 \in 1..Len(events)
      /\ \A k \in Modules : OnItsWay(k)' <=> OnItsWay(k)
      /\ \A k \in Modules : FoundOnItsWay(k)' <=> FoundOnItsWay(k)
  BY <1>2, Taken
<1>4. \A k \in Modules : Answered(k)' <=> Answered(k)
  <2>1. CASE OnModuleStarted
    <3>1. h.kind = "ModuleStarted" /\ h.module \in Modules
      BY <1>3, <2>1 DEF OnModuleStarted, Receives, ScanEvent, ResultEvent, TerminalEvent
    <3>2. ~Answered(h.module)
      BY <1>1, <1>3, <3>1 DEF IsNews
    <3> QED BY <2>1, <3>1, <3>2 DEF OnModuleStarted, Answered, TypeOK, RowStates
  <2>2. CASE OnModuleProgress
    <3>1. h.module \in Modules
      BY <1>3, <2>2 DEF OnModuleProgress, Receives, ScanEvent, ResultEvent, TerminalEvent
    <3> QED BY <2>2, <3>1 DEF OnModuleProgress, Answered, TypeOK
  <2> QED BY <2>1, <2>2
<1> HIDE DEF h
<1>5. InOrder'
  <2>1. ASSUME NEW i \in 1..Len(events'), NEW j \in 1..Len(events')
        PROVE  /\ i \in Nat /\ j \in Nat
               /\ i + 1 \in 1..Len(events) /\ j + 1 \in 1..Len(events)
               /\ events'[i] = events[i + 1] /\ events'[j] = events[j + 1]
    BY <1>3
  <2> QED BY <1>1, <2>1 DEF InOrder, IsResult
<1>6. IsNews'
  <2>1. \A i \in 1..Len(events) :
          IsResult(events[i]) \/ events[i].kind = "ModuleStarted" => events[i].module \in Modules
    BY DEF TypeOK, ScanEvent, ResultEvent, TerminalEvent, IsResult
  <2> QED BY <1>1, <1>2, <1>3, <1>4, <2>1 DEF IsNews, IsResult, Answered
<1>7. OnePlace' /\ Catalogued'
  BY <1>1, <1>2, <1>3, <1>4 DEF OnePlace, Catalogued, Held
<1> QED BY <1>5, <1>6, <1>7 DEF Delivery

(* A result that is taken answers its row, and nothing on its way is about *)
(* that row any more.                                                      *)
LEMMA ResultsKeepDelivery ==
  ASSUME TypeOK, Delivery, OnModuleFinished \/ OnModuleFailed
  PROVE  Delivery'
<1>1. InOrder /\ IsNews /\ OnePlace /\ Catalogued
  BY DEF Delivery, Receives, OnModuleFinished, OnModuleFailed
<1> DEFINE h == Head(events)
           m == h.module
<1>2. /\ events # <<>> /\ events' = Tail(events)
      /\ UNCHANGED <<task, reporting, collected, window>>
      /\ IsResult(h)
      /\ shown' = IF h.kind = "ModuleFinished" THEN shown \cup {m} ELSE shown
  BY DEF Receives, OnModuleFinished, OnModuleFailed, engineVars, IsResult
<1>3. /\ Len(events) \in Nat \ {0} /\ Len(events') = Len(events) - 1
      /\ h = events[1] /\ h \in ScanEvent
      /\ \A i \in 1..Len(events') : events'[i] = events[i + 1] /\ i + 1 \in 1..Len(events)
      /\ \A k \in Modules :
           /\ OnItsWay(k) <=> OnItsWay(k)' \/ k = m
           /\ FoundOnItsWay(k) <=>
                FoundOnItsWay(k)' \/ (h.kind = "ModuleFinished" /\ k = m)
  BY <1>2, Taken
<1>4. m \in Modules
  BY <1>2, <1>3 DEF IsResult, ScanEvent, ResultEvent, TerminalEvent
<1>5. \A k \in Modules : Answered(k)' <=> Answered(k) \/ k = m
  <2>1. CASE OnModuleFinished
    <3>1. row' = [row EXCEPT ![m] = [state |-> "finished", percent |-> Full]]
      BY <2>1 DEF OnModuleFinished
    <3> QED BY <1>4, <3>1 DEF Answered, TypeOK
  <2>2. CASE OnModuleFailed
    <3>1. row' = [row EXCEPT ![m] = [state |-> "failed", percent |-> Full]]
      BY <2>2 DEF OnModuleFailed
    <3> QED BY <1>4, <3>1 DEF Answered, TypeOK
  <2> QED BY <2>1, <2>2
<1>6. h.module = m
  OBVIOUS
<1> HIDE DEF h, m
<1>7. \A i \in 1..Len(events') :
        IsResult(events'[i]) \/ events'[i].kind = "ModuleStarted" => events'[i].module # m
  <2>1. 1 \in 1..Len(events)
    BY <1>3
  <2>2. ASSUME NEW i \in 1..Len(events')
        PROVE  i \in Nat /\ i >= 1 /\ i + 1 \in 1..Len(events) /\ events'[i] = events[i + 1]
    BY <1>3
  <2> QED BY <1>1, <1>2, <1>3, <1>6, <2>1, <2>2 DEF InOrder, IsResult
<1>8. InOrder'
  <2>1. ASSUME NEW i \in 1..Len(events'), NEW j \in 1..Len(events')
        PROVE  /\ i \in Nat /\ j \in Nat
               /\ i + 1 \in 1..Len(events) /\ j + 1 \in 1..Len(events)
               /\ events'[i] = events[i + 1] /\ events'[j] = events[j + 1]
    BY <1>3
  <2> QED BY <1>1, <2>1 DEF InOrder, IsResult
<1>9. IsNews'
  <2>1. \A i \in 1..Len(events) :
          IsResult(events[i]) \/ events[i].kind = "ModuleStarted" => events[i].module \in Modules
    BY DEF TypeOK, ScanEvent, ResultEvent, TerminalEvent, IsResult
  <2> QED BY <1>1, <1>2, <1>3, <1>5, <1>7, <2>1 DEF IsNews, IsResult, Answered
<1>10. \A k \in Modules : k = m => ~OnItsWay(k)' /\ ~FoundOnItsWay(k)'
  BY <1>7 DEF OnItsWay, FoundOnItsWay, IsResult
<1>11. OnePlace'
  <2>1. \A k \in Modules : Held(k)' <=> Held(k)
    BY <1>2 DEF Held
  <2> QED BY <1>1, <1>2, <1>3, <1>4, <1>5, <1>10, <2>1 DEF OnePlace
<1>12. Catalogued'
  BY <1>1, <1>2, <1>3, <1>4, <1>10 DEF Catalogued
<1> QED BY <1>8, <1>9, <1>11, <1>12 DEF Delivery

LEMMA DeliveryStep ==
  ASSUME TypeOK, Quiet, Tasks, Delivery, Terminals, [Next]_vars
  PROVE  Delivery'
<1> SUFFICES ASSUME window' = "running"
             PROVE  Delivery'
  BY DEF Delivery
<1> USE DEF windowVars, engineVars
<1>1. CASE EnterCancelled \/ FinishCancelledScan \/ FinishScan
  <2>1. /\ Cardinality(collected) \in Nat /\ completed \in Nat
        /\ UNCHANGED <<task, reporting, collected, row, shown, window>>
    BY <1>1, ModulesAssumption, FS_Subset, FS_CardinalityType
       DEF EnterCancelled, FinishCancelledScan, FinishScan, TypeOK
  <2>2. PICK e \in {Cancelled(0), Cancelled(completed), Completed(Cardinality(collected))} :
          Send(e)
    BY <1>1 DEF EnterCancelled, FinishCancelledScan, FinishScan
  <2>3. \A n \in Nat : /\ Cancelled(n) \in ScanEvent /\ Completed(n) \in ScanEvent
                       /\ ~IsResult(Cancelled(n)) /\ ~IsResult(Completed(n))
                       /\ Cancelled(n).kind # "ModuleStarted"
                       /\ Completed(n).kind # "ModuleStarted"
    BY EventTypes DEF Cancelled, Completed, IsResult
  <2>4. e \in ScanEvent /\ ~IsResult(e) /\ e.kind # "ModuleStarted"
    BY <2>1, <2>2, <2>3
  <2> QED BY <2>1, <2>2, <2>4, SendKeepsDelivery
<1>2. ASSUME NEW m \in Modules, Spawn(m)
      PROVE  Delivery'
  BY <1>2, SpawnKeepsDelivery DEF Spawn
<1>3. ASSUME NEW m \in Modules, Join(m)
      PROVE  Delivery'
  BY <1>3, JoinKeepsDelivery DEF Join
<1>4. CASE Report
  BY <1>4, ReportKeepsDelivery DEF Report
<1>5. CASE Shutdown
  <2>1. \A m \in Modules : /\ task'[m] = "joined" <=> task[m] = "joined"
                           /\ task'[m] = "absent" => task[m] = "absent"
    BY <1>5 DEF Shutdown
  <2> QED BY <1>5, <2>1, AsideKeepsDelivery DEF Shutdown
<1>6. CASE \/ Enter \/ ShutdownReturns \/ AllJoined \/ ForwarderTakes \/ UserCancels
           \/ UNCHANGED vars
  BY <1>6, AsideKeepsDelivery
     DEF Enter, ShutdownReturns, AllJoined, ForwarderTakes, UserCancels, vars
<1>7. CASE ForwarderSends
  <2>1. Progress(held) \in ScanEvent
    BY <1>7, EventTypes DEF ForwarderSends, TypeOK
  <2> QED BY <1>7, <2>1, SendKeepsDelivery DEF ForwarderSends, Progress, IsResult
<1>8. ASSUME NEW m \in Modules, CheckReports(m) \/ CheckEnds(m)
      PROVE  Delivery'
  <2>1. /\ UNCHANGED <<events, reporting, collected, row, shown, window>>
        /\ \A k \in Modules : /\ task'[k] = "joined" <=> task[k] = "joined"
                              /\ task'[k] = "absent" => task[k] = "absent"
    BY <1>8 DEF CheckReports, CheckEnds, TypeOK
  <2> QED BY <2>1, AsideKeepsDelivery
<1>9. CASE OnModuleStarted \/ OnModuleProgress
  BY <1>9, MarksKeepDelivery
<1>10. CASE OnModuleFinished \/ OnModuleFailed
  BY <1>10, ResultsKeepDelivery
<1>11. CASE OnScanCancelled \/ OnScanCompleted
  BY <1>11 DEF OnScanCancelled, OnScanCompleted
<1> QED BY <1>1, <1>2, <1>3, <1>4, <1>5, <1>6, <1>7, <1>8, <1>9, <1>10, <1>11
        DEF Next, Engine, Forwarder, Window, ScanOver

(* The window ends with an empty channel behind it: what was collected is  *)
(* then shown. A scan that has ended collects and shows nothing more.      *)
LEMMA EndCatalogued ==
  ASSUME TypeOK, Terminals, Delivery, OnScanCancelled \/ OnScanCompleted
  PROVE  /\ shown = collected
         /\ UNCHANGED <<shown, collected>>
         /\ Len(events) = 1 /\ IsTerminal(events[1]) /\ Head(events) = events[1]
         /\ engine = "returned"
<1>1. /\ window = "running" /\ events # <<>> /\ IsTerminal(Head(events))
      /\ UNCHANGED <<shown, collected>>
  BY DEF OnScanCancelled, OnScanCompleted, Receives, IsTerminal, engineVars
<1>2. Len(events) \in Nat \ {0} /\ Head(events) = events[1]
  BY <1>1, TailKeeps DEF TypeOK
<1>3. Len(events) = 1 /\ engine = "returned"
  <2>1. 1 \in 1..Len(events) /\ IsTerminal(events[1])
    BY <1>1, <1>2
  <2> QED BY <2>1 DEF Terminals
<1>4. \A m \in Modules : ~FoundOnItsWay(m)
  BY <1>1, <1>2, <1>3 DEF FoundOnItsWay, IsTerminal
<1>5. shown = collected
  BY <1>1, <1>4 DEF Delivery, Catalogued, TypeOK
<1> QED BY <1>1, <1>2, <1>3, <1>5

LEMMA ReturnedStep ==
  ASSUME TypeOK, Quiet, Terminals, Delivery, WindowShowsWhatWasReturned, [Next]_vars
  PROVE  WindowShowsWhatWasReturned'
<1> USE DEF WindowShowsWhatWasReturned
<1>1. CASE OnScanCancelled \/ OnScanCompleted
  BY <1>1, EndCatalogued
<1>2. CASE window # "running"
  <2>1. engine = "returned" /\ events = <<>>
    BY <1>2 DEF Terminals
  <2> QED BY <1>2, <2>1
      DEF Next, Engine, EnterCancelled, Enter, Report, Shutdown, ShutdownReturns,
          FinishCancelledScan, AllJoined, FinishScan, Spawn, Join, Forwarder, ForwarderTakes,
          ForwarderSends, Window, Receives, OnModuleStarted, OnModuleProgress,
          OnModuleFinished, OnModuleFailed, OnScanCancelled, OnScanCompleted, CheckReports,
          CheckEnds, UserCancels, ScanOver, vars, engineVars, windowVars
<1>3. CASE window = "running" /\ ~(OnScanCancelled \/ OnScanCompleted)
  <2>1. UNCHANGED window
    BY <1>3
       DEF Next, Engine, EnterCancelled, Enter, Report, Shutdown, ShutdownReturns,
           FinishCancelledScan, AllJoined, FinishScan, Spawn, Join, Forwarder, ForwarderTakes,
           ForwarderSends, Window, OnModuleStarted, OnModuleProgress, OnModuleFinished,
           OnModuleFailed, CheckReports, CheckEnds, UserCancels, ScanOver, vars, windowVars
  <2> QED BY <1>3, <2>1
<1> QED BY <1>1, <1>2, <1>3

LEMMA InitDelivers == Init => WInv
<1> SUFFICES ASSUME Init PROVE WInv
  OBVIOUS
<1>1. Joined = {} /\ Len(events) = 0
  BY DEF Init, Joined
<1>2. Tasks
  BY <1>1, FS_EmptySet DEF Init, Tasks
<1>3. Verdict /\ InOrder /\ IsNews
  BY <1>1 DEF Verdict, InOrder, IsNews
<1>4. OnePlace /\ Catalogued
  BY <1>1 DEF Init, OnePlace, Catalogued, Held, OnItsWay, FoundOnItsWay, Answered
<1>5. WindowShowsWhatWasReturned
  BY DEF Init, WindowShowsWhatWasReturned
<1> QED BY <1>2, <1>3, <1>4, <1>5, InitHolds DEF WInv, Delivery

LEMMA Delivers == Spec => []WInv
<1>1. Init => WInv
  BY InitDelivers
<1>2. WInv /\ [Next]_vars => WInv'
  <2> SUFFICES ASSUME WInv, [Next]_vars PROVE WInv'
    OBVIOUS
  <2>1. IInv'
    BY TypeStep, QuietStep, TerminalsStep DEF WInv, IInv
  <2>2. Tasks' /\ Verdict'
    BY TasksStep, VerdictStep DEF WInv, IInv
  <2>3. Delivery' /\ WindowShowsWhatWasReturned'
    BY DeliveryStep, ReturnedStep DEF WInv, IInv
  <2> QED BY <2>1, <2>2, <2>3 DEF WInv
<1> QED BY <1>1, <1>2, PTL DEF Spec

(* When a scan has ended, cancelled or not, the window shows the findings  *)
(* of exactly the checks whose findings run_scan returns, for any number   *)
(* of checks and any capacity of the channels.                             *)
THEOREM WindowShowsTheScan == Spec => []WindowShowsWhatWasReturned
<1>1. WInv => WindowShowsWhatWasReturned
  BY DEF WInv
<1> QED BY <1>1, Delivers, PTL

---------------------------------------------------------------------------
(* The scan keeps its contract: each of its steps is one of the contract's *)
(* or changes nothing the contract speaks of.                              *)

Outcome == [m \in Modules |-> CASE row[m].state = "finished" -> "found"
                                [] row[m].state = "failed" -> "failed"
                                [] OTHER -> "pending"]

LEMMA OutcomeOf ==
  ASSUME TypeOK
  PROVE  /\ \A m \in Modules : Outcome[m] # "pending" <=> Answered(m)
         /\ \A m \in Modules : Outcome[m] \in {"pending", "found", "failed"}
BY DEF Outcome, Answered

(* The contract counts as the scan does.                                   *)
LEMMA SameCount == \A S : Contract!Cardinality(S) = Cardinality(S)
BY DEF Contract!Cardinality, Cardinality

(* A row that takes its result reports to the contract.                    *)
LEMMA ResultReports ==
  ASSUME TypeOK, Delivery, OnModuleFinished \/ OnModuleFailed
  PROVE  \E m \in Modules : Contract!Report(m)
<1> DEFINE h == Head(events)
<1>1. /\ window = "running" /\ UNCHANGED <<window, told>> /\ events # <<>> /\ IsResult(h)
      /\ events' = Tail(events)
  BY DEF Receives, OnModuleFinished, OnModuleFailed, IsResult
<1>2. h \in ScanEvent /\ h = events[1] /\ 1 \in 1..Len(events)
  <2>1. Len(events) \in Nat \ {0}
    BY <1>1, TailKeeps DEF TypeOK
  <2> QED BY <1>1, <2>1, Taken
<1>3. PICK m \in Modules : m = h.module
  BY <1>1, <1>2 DEF IsResult, ScanEvent, ResultEvent, TerminalEvent
<1>4. ~Answered(m)
  BY <1>1, <1>2, <1>3 DEF Delivery, IsNews
<1>5. PICK o \in {"found", "failed"} : Outcome' = [Outcome EXCEPT ![m] = o]
  <2>1. CASE OnModuleFinished
    <3>1. row' = [row EXCEPT ![m] = [state |-> "finished", percent |-> Full]]
      BY <1>3, <2>1 DEF OnModuleFinished
    <3>2. Outcome' = [Outcome EXCEPT ![m] = "found"]
      BY <1>3, <3>1 DEF Outcome, TypeOK
    <3> QED BY <3>2
  <2>2. CASE OnModuleFailed
    <3>1. row' = [row EXCEPT ![m] = [state |-> "failed", percent |-> Full]]
      BY <1>3, <2>2 DEF OnModuleFailed
    <3>2. Outcome' = [Outcome EXCEPT ![m] = "failed"]
      BY <1>3, <3>1 DEF Outcome, TypeOK
    <3> QED BY <3>2
  <2> QED BY <2>1, <2>2
<1>6. Outcome[m] = "pending"
  BY <1>3, <1>4, OutcomeOf
<1>7. Contract!Report(m)
  BY <1>1, <1>5, <1>6 DEF Contract!Report, Contract!Outcomes, Outcome
<1> QED BY <1>7

(* The scan's end reaches the window when every join has reached its row.  *)
LEMMA EndAnswered ==
  ASSUME WInv, OnScanCancelled \/ OnScanCompleted
  PROVE  Contract!Reported = Joined
<1>1. /\ Len(events) = 1 /\ IsTerminal(events[1]) /\ engine = "returned"
  BY EndCatalogued DEF WInv, IInv
<1>2. reporting = NoEvent
  BY <1>1 DEF WInv, IInv, Quiet
<1>3. \A m \in Modules : ~OnItsWay(m) /\ ~Held(m)
  BY <1>1, <1>2 DEF OnItsWay, Held, IsResult, IsTerminal
<1>4. OnePlace
  BY DEF WInv, Delivery, OnScanCancelled, OnScanCompleted, Receives
<1>5. \A m \in Modules : Answered(m) <=> task[m] = "joined"
  BY <1>3, <1>4 DEF OnePlace
<1>6. TypeOK
  BY DEF WInv, IInv
<1>7. Contract!Reported = {m \in Modules : Outcome[m] # "pending"}
  BY DEF Contract!Reported, Outcome
<1> QED BY <1>5, <1>6, <1>7, OutcomeOf DEF Joined

LEMMA EndKeepsContract ==
  ASSUME WInv, OnScanCancelled \/ OnScanCompleted
  PROVE  Contract!Next
<1>1. /\ Len(events) = 1 /\ Head(events) = events[1] /\ 1 \in 1..Len(events)
  BY EndCatalogued DEF WInv, IInv
<1>2. Contract!Reported = Joined
  BY EndAnswered
<1>3. TypeOK /\ Verdict /\ completed = Cardinality(Joined) /\ window = "running"
  BY DEF WInv, IInv, Tasks, OnScanCancelled, OnScanCompleted, Receives
<1>4. CASE OnScanCompleted
  <2>1. Joined = Modules
    BY <1>1, <1>3, <1>4 DEF Verdict, OnScanCompleted, Receives
  <2>2. Contract!Complete
    BY <1>2, <1>3, <1>4, <2>1 DEF Contract!Complete, OnScanCompleted
  <2> QED BY <2>2 DEF Contract!Next
<1>5. CASE OnScanCancelled
  <2>1. Joined # Modules /\ told' = completed
    BY <1>1, <1>3, <1>5 DEF Verdict, OnScanCancelled, Receives
  <2>2. \A m \in Modules :
          /\ row'[m].state = "finished" <=> row[m].state = "finished"
          /\ row'[m].state = "failed" <=> row[m].state = "failed"
    BY <1>3, <1>5 DEF OnScanCancelled, IsDone, TypeOK, RowStates
  <2>3. Outcome' = Outcome
    BY <2>2 DEF Outcome
  <2>4. /\ Contract!Reported # Modules /\ told' = Cardinality(Contract!Reported)
        /\ window = "running" /\ window' = "cancelled"
    BY <1>2, <1>3, <1>5, <2>1 DEF OnScanCancelled
  <2>5. told' = Contract!Cardinality(Contract!Reported)
    BY <2>4, SameCount
  <2>6. Contract!Cancel
    BY <2>3, <2>4, <2>5 DEF Contract!Cancel, Outcome
  <2> QED BY <2>6 DEF Contract!Next
<1> QED BY <1>4, <1>5

LEMMA StepKeepsContract ==
  ASSUME WInv, [Next]_vars
  PROVE  [Contract!Next]_Contract!vars
<1> USE DEF windowVars, engineVars
<1>1. TypeOK /\ Delivery
  BY DEF WInv, IInv
<1>2. CASE OnModuleFinished \/ OnModuleFailed
  BY <1>1, <1>2, ResultReports DEF Contract!Next
<1>3. CASE OnScanCancelled \/ OnScanCompleted
  BY <1>3, EndKeepsContract
<1>4. ASSUME Outcome' = Outcome, UNCHANGED <<window, told>>
      PROVE  UNCHANGED Contract!vars
  BY <1>4 DEF Contract!vars, Outcome
<1>5. CASE OnModuleStarted
  <2> DEFINE m == Head(events).module
  <2>1. /\ events # <<>> /\ events' = Tail(events) /\ window = "running"
        /\ Head(events).kind = "ModuleStarted"
    BY <1>5 DEF OnModuleStarted, Receives
  <2>2. Head(events) = events[1] /\ 1 \in 1..Len(events) /\ Head(events) \in ScanEvent
    BY <1>1, <2>1, Taken
  <2>3. m \in Modules /\ ~Answered(m)
    BY <1>1, <2>1, <2>2 DEF Delivery, IsNews, ScanEvent, ResultEvent, TerminalEvent
  <2>4. row' = [row EXCEPT ![m].state = "started"] /\ UNCHANGED <<window, told>>
    BY <1>5 DEF OnModuleStarted
  <2> HIDE DEF m
  <2>5. \A k \in Modules :
          /\ row'[k].state = "finished" <=> row[k].state = "finished"
          /\ row'[k].state = "failed" <=> row[k].state = "failed"
    BY <1>1, <2>3, <2>4 DEF TypeOK, Answered
  <2> QED BY <1>4, <2>4, <2>5 DEF Outcome
<1>6. CASE OnModuleProgress
  <2> DEFINE m == Head(events).module
  <2>1. row' = [row EXCEPT ![m].percent = Head(events).percent] /\ UNCHANGED <<window, told>>
    BY <1>6 DEF OnModuleProgress
  <2>2. \A k \in Modules : row'[k].state = row[k].state
    BY <1>1, <2>1 DEF TypeOK
  <2> QED BY <1>4, <2>1, <2>2 DEF Outcome
<1>7. CASE UNCHANGED <<row, window, told>>
  BY <1>4, <1>7 DEF Outcome
<1>8. CASE Engine
  BY <1>7, <1>8
     DEF Engine, EnterCancelled, Enter, Report, Shutdown, ShutdownReturns,
         FinishCancelledScan, AllJoined, FinishScan, Spawn, Join
<1>9. CASE Forwarder \/ UserCancels \/ UNCHANGED vars
  BY <1>7, <1>9 DEF Forwarder, ForwarderTakes, ForwarderSends, UserCancels, vars
<1>10. ASSUME NEW m \in Modules, CheckReports(m) \/ CheckEnds(m)
       PROVE  UNCHANGED <<row, window, told>>
  BY <1>10 DEF CheckReports, CheckEnds
<1> QED BY <1>2, <1>3, <1>5, <1>6, <1>7, <1>8, <1>9, <1>10 DEF Next, Window, ScanOver

(* run_scan and the window keep the scan's contract: each check reports at *)
(* most once, a scan that says it completed has heard every check, one     *)
(* that says it was cancelled has not and counts those it has.             *)
THEOREM KeepsContract == Spec => ImplementsContract
<1>1. Init => Contract!Init
  <2> SUFFICES ASSUME Init PROVE Contract!Init
    OBVIOUS
  <2>1. Outcome = [m \in Modules |-> "pending"]
    BY DEF Init, Outcome
  <2> QED BY <2>1 DEF Init, Contract!Init, Outcome
<1>2. WInv /\ [Next]_vars => [Contract!Next]_Contract!vars
  BY StepKeepsContract
<1> QED BY <1>1, <1>2, Delivers, PTL DEF Spec, ImplementsContract, Contract!Spec
===========================================================================
