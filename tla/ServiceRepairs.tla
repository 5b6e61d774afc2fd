-------------------------- MODULE ServiceRepairs --------------------------
(***************************************************************************)
(* The repairs that stop services for a moment: emptying the download      *)
(* cache of Windows Update and resetting its components                    *)
(* (modules/windows_updates.rs), clearing the print queue                  *)
(* (modules/devices.rs), and the guard that starts again what they stopped *)
(* (utils/service.rs), in the background when a repair does not get to it. *)
(*                                                                         *)
(* Repairs come one after the other, of one run or of several; what a      *)
(* guard still starts in the background, a sweep that runs on after its    *)
(* repair was cancelled, and the next repair, are at work at once.         *)
(* Windows answers sc and net: a service stops only after those that       *)
(* depend on it, at once, late or not at all; it starts with those it      *)
(* depends on, and not while it is still stopping, and may still be        *)
(* starting when net start gives up waiting for it, and fail after that.   *)
(* Nobody else starts or stops services meanwhile.                         *)
(***************************************************************************)
EXTENDS Naturals, Sequences, FiniteSets, SequencesExt

CONSTANTS
  Services,
  Needs,            \* Needs[s]: all a service depends on, directly or not
  UpdateServices,   \* CACHE_SERVICES: a sequence
  Spooler,
  Folders,          \* component_dirs: a sequence
  Worlds,           \* what to look at, see World
  MaxRepairs        \* bound: how many repairs are started

(* None of the update services needs one that is stopped before it.        *)
ASSUME ServicesAssumption ==
  /\ IsFiniteSet(Services)
  /\ Needs \in [Services -> SUBSET Services]
  /\ \A s \in Services : s \notin Needs[s] /\ \A t \in Needs[s] : Needs[t] \subseteq Needs[s]
  /\ UpdateServices \in Seq(Services) /\ UpdateServices # <<>>
  /\ \A i, j \in DOMAIN UpdateServices :
       UpdateServices[i] \in Needs[UpdateServices[j]] => j < i
  /\ Spooler \in Services
  /\ Folders \in Seq(ToSet(Folders))

(* Whether WinMedic ends after its repairs, as a run of the command line   *)
(* does, and whether services take longer to stop than WinMedic waits.     *)
World == [ends : BOOLEAN, slow : BOOLEAN]

ASSUME WorldsAssumption == Worlds \subseteq World /\ MaxRepairs \in Nat

Repairs == 1..MaxRepairs
Kinds == {"cache", "reset", "queue"}

VARIABLES
  world,
  alive,        \* WinMedic runs
  state,        \* what Windows says of each service
  folder,       \* each component folder: in place, renamed away, or made anew
  count,        \* how many repairs were started
  repair,       \* the one at work
  background,   \* what the guard of each repair still starts by itself
  sweeping,     \* repairs whose sweep of the download cache runs
  report,       \* how the last repair ended
  downed,       \* history: the services WinMedic stopped and that do not run
  refused       \* history: those of them Windows refused to start

windows == <<state, folder>>
history == <<downed, refused>>
vars == <<world, alive, state, folder, count, repair, background, sweeping, report,
          downed, refused>>

Phases == {"none", "list", "stop", "query", "rename", "sweep", "delete", "start", "check"}
NoRepair == [kind |-> "none", phase |-> "none", svcs |-> <<>>, targets |-> <<>>,
             guard |-> <<>>, toStart |-> <<>>, down |-> {}, pending |-> {},
             dirs |-> <<>>, renamed |-> <<>>, alone |-> TRUE,
             before |-> [f \in ToSet(Folders) |-> "old"]]

Places == {"old", "away", "new"}
States == {"running", "starting", "stopping", "stopped"}

TypeOK ==
  /\ world \in World /\ alive \in BOOLEAN
  /\ state \in [Services -> States]
  /\ folder \in [ToSet(Folders) -> Places]
  /\ count \in 0..MaxRepairs
  /\ repair \in [kind : Kinds \cup {"none"}, phase : Phases,
                 svcs : Seq(Services), targets : Seq(Services),
                 guard : Seq(Services), toStart : Seq(Services),
                 down : SUBSET Services, pending : SUBSET Services,
                 dirs : Seq(ToSet(Folders)), renamed : Seq(ToSet(Folders) \X Places),
                 alone : BOOLEAN, before : [ToSet(Folders) -> Places]]
  /\ repair.phase \in {"list", "stop", "query"} => repair.svcs # <<>>
  /\ repair.phase \in {"stop", "query"} => repair.targets # <<>>
  /\ repair.phase \in {"start", "check"} => Len(repair.toStart) \in 1..Len(repair.guard)
  /\ background \in [Repairs -> Seq(Services)]
  /\ sweeping \subseteq Repairs
  /\ report \in {"none", "done", "failed", "unchanged", "cancelled"}
  /\ downed \in SUBSET Services /\ refused \in SUBSET Services

Init ==
  /\ world \in Worlds
  /\ alive = TRUE
  /\ \E up \in SUBSET Services :
       /\ \A s \in up : Needs[s] \subseteq up
       /\ state = [s \in Services |-> IF s \in up THEN "running" ELSE "stopped"]
  /\ folder = [f \in ToSet(Folders) |-> "old"]
  /\ count = 0
  /\ repair = NoRepair
  /\ background = [n \in Repairs |-> <<>>]
  /\ sweeping = {}
  /\ report = "none"
  /\ downed = {} /\ refused = {}

---------------------------------------------------------------------------
(* Windows. *)

Dependents(s) == {d \in Services : s \in Needs[d]}
RunningDependents(s) == {d \in Dependents(s) : state[d] # "stopped"}

(* net stop, which waits until the service has stopped, or gives up.       *)
NetStop(s) ==
  LET stops == state[s] = "running" /\ RunningDependents(s) = {}
  IN  \/ /\ stops
         /\ \E now \in {"stopped"} \cup IF world.slow THEN {"stopping"} ELSE {} :
              state' = [state EXCEPT ![s] = now]
         /\ downed' = downed \cup {s} /\ refused' = refused \ {s}
      \/ UNCHANGED <<state, downed, refused>>

(* net start, which waits until the service runs, or gives up: it is then  *)
(* still starting, while those it depends on run.                          *)
NetStart(s) ==
  LET up == {s} \cup Needs[s]
      busy == \E t \in up : state[t] = "stopping"
  IN  \/ /\ ~busy
         /\ state' = [t \in Services |-> IF t \in up THEN "running" ELSE state[t]]
         /\ downed' = downed \ up /\ refused' = refused \ up
      \/ /\ ~busy /\ state[s] \in {"starting", "stopped"}
         /\ state' = [t \in Services |-> IF t = s THEN "starting"
                                         ELSE IF t \in up THEN "running" ELSE state[t]]
         /\ downed' = downed \ Needs[s] /\ refused' = refused \ up
      \/ /\ ~busy /\ state[s] = "stopped"
         /\ refused' = refused \cup {s}
         /\ UNCHANGED <<state, downed>>
      \/ /\ busy
         /\ UNCHANGED <<state, downed, refused>>

(* A service that was still starting runs, or does not.                    *)
HasStarted(s) ==
  /\ state[s] = "starting"
  /\ state' = [state EXCEPT ![s] = "running"] /\ downed' = downed \ {s}
  /\ UNCHANGED <<world, alive, folder, count, repair, background, sweeping, report, refused>>

FailsToStart(s) ==
  /\ state[s] = "starting"
  /\ state' = [state EXCEPT ![s] = "stopped"] /\ refused' = refused \cup {s}
  /\ UNCHANGED <<world, alive, folder, count, repair, background, sweeping, report, downed>>

HasStopped(s) ==
  /\ state[s] = "stopping"
  /\ state' = [state EXCEPT ![s] = "stopped"]
  /\ UNCHANGED <<world, alive, folder, count, repair, background, sweeping, report, history>>

FolderMadeAnew(f) ==
  /\ folder[f] = "away"
  /\ \E s \in ToSet(UpdateServices) : state[s] = "running"
  /\ folder' = [folder EXCEPT ![f] = "new"]
  /\ UNCHANGED <<world, alive, state, count, repair, background, sweeping, report, history>>

---------------------------------------------------------------------------
(* The guard. *)

(* Dropped while armed, it starts what it stopped in the background; the   *)
(* repair is over.                                                         *)
Dropped(how) ==
  /\ background' = [background EXCEPT ![count] = Reverse(repair.guard)]
  /\ repair' = NoRepair
  /\ report' = how

BackgroundStarts(n) ==
  /\ background[n] # <<>>
  /\ NetStart(Head(background[n]))
  /\ background' = [background EXCEPT ![n] = Tail(@)]
  /\ UNCHANGED <<world, alive, folder, count, repair, sweeping, report>>

(* sc enumdepend: the running dependents in the order they have to stop.   *)
StopOrder(s, order) ==
  /\ order \in SetToSeqs(RunningDependents(s))
  /\ \A i, j \in DOMAIN order : order[i] \in Needs[order[j]] => j < i

ListDependents ==
  /\ repair.phase = "list"
  /\ \/ \E order \in SetToSeqs(RunningDependents(Head(repair.svcs))) :
          /\ StopOrder(Head(repair.svcs), order)
          /\ repair' = [repair EXCEPT !.phase = "stop",
                                      !.targets = Append(order, Head(repair.svcs))]
          /\ UNCHANGED <<background, report>>
     \/ Dropped("failed")
  /\ UNCHANGED <<world, alive, windows, count, sweeping, history>>

(* Mutant: only what has stopped is recorded. *)
StopOneRecordedAfter ==
  /\ repair.phase = "stop"
  /\ LET s == Head(repair.targets)
     IN  /\ NetStop(s)
         /\ repair' = [repair EXCEPT !.phase = "query"]
  /\ UNCHANGED <<world, alive, folder, count, background, sweeping, report>>

(* stop_one, up to the query. *)
StopOne ==
  /\ repair.phase = "stop"
  /\ LET s == Head(repair.targets)
     IN  /\ NetStop(s)
         /\ repair' = [repair EXCEPT !.phase = "query", !.guard = Append(@, s)]
  /\ UNCHANGED <<world, alive, folder, count, background, sweeping, report>>

Work(kind) == CASE kind = "cache" -> "sweep" [] kind = "reset" -> "rename" [] OTHER -> "delete"

(* Mutant: what net stop did is not checked. *)
NextTargetUnchecked ==
  /\ repair.phase = "query"
  /\ LET targets == Tail(repair.targets)
         svcs == IF targets = <<>> THEN Tail(repair.svcs) ELSE repair.svcs
     IN  repair' = [repair EXCEPT !.targets = targets, !.svcs = svcs,
                                  !.phase = IF targets # <<>> THEN "stop"
                                            ELSE IF svcs # <<>> THEN "list"
                                            ELSE Work(repair.kind)]
  /\ sweeping' = IF repair'.phase = "sweep" THEN sweeping \cup {count} ELSE sweeping
  /\ UNCHANGED <<world, alive, windows, count, background, report, history>>

(* sc query, of a service just told to stop: on to the next dependent, the *)
(* next service, the work.                                                 *)
NextTarget ==
  /\ repair.phase = "query"
  /\ state[Head(repair.targets)] = "stopped"
  /\ LET targets == Tail(repair.targets)
         svcs == IF targets = <<>> THEN Tail(repair.svcs) ELSE repair.svcs
     IN  repair' = [repair EXCEPT !.targets = targets, !.svcs = svcs,
                                  !.phase = IF targets # <<>> THEN "stop"
                                            ELSE IF svcs # <<>> THEN "list"
                                            ELSE Work(repair.kind)]
  /\ sweeping' = IF repair'.phase = "sweep" THEN sweeping \cup {count} ELSE sweeping
  /\ UNCHANGED <<world, alive, windows, count, background, report, history>>

(* The service did not stop, or sc did not answer.                         *)
DidNotStop ==
  /\ repair.phase = "query"
  /\ Dropped("failed")
  /\ UNCHANGED <<world, alive, windows, count, sweeping, history>>

(* start: the last stopped first. *)
StartOrder(guard) == Reverse(guard)

ToStart == [repair EXCEPT !.phase = "start", !.toStart = StartOrder(repair.guard)]

StartOne ==
  /\ repair.phase = "start"
  /\ NetStart(Head(repair.toStart))
  /\ repair' = [repair EXCEPT !.phase = "check"]
  /\ UNCHANGED <<world, alive, folder, count, background, sweeping, report>>

(* Mutant: only the last one counts. *)
CheckLast ==
  /\ repair.phase = "check"
  /\ IF Len(repair.toStart) > 1
       THEN /\ repair' = [repair EXCEPT !.phase = "start", !.toStart = Tail(@)]
            /\ UNCHANGED report
       ELSE /\ repair' = NoRepair
            /\ report' = IF state[Head(repair.toStart)] \in {"running", "starting"}
                           THEN "done" ELSE "failed"
  /\ UNCHANGED <<world, alive, windows, count, background, sweeping, history>>

(* sc query, of a service just started: SERVICE_START_PENDING counts as    *)
(* running. After the last one the guard is disarmed, and the repair is    *)
(* done if all run and nothing was left over.                              *)
CheckStarted ==
  /\ repair.phase = "check"
  /\ LET s == Head(repair.toStart)
         down == repair.down \cup IF state[s] \in {"running", "starting"} THEN {} ELSE {s}
         pending == repair.pending \cup IF state[s] = "starting" THEN {s} ELSE {}
     IN  IF Len(repair.toStart) > 1
           THEN /\ repair' = [repair EXCEPT !.phase = "start", !.toStart = Tail(@),
                                            !.down = down, !.pending = pending]
                /\ UNCHANGED report
           ELSE /\ repair' = NoRepair
                /\ \/ down = {} /\ report' = "done"
                   \/ (down # {} \/ repair.kind # "reset") /\ report' = "failed"
  /\ UNCHANGED <<world, alive, windows, count, background, sweeping, history>>

NotAnswered ==
  /\ repair.phase = "check"
  /\ Dropped("failed")
  /\ UNCHANGED <<world, alive, windows, count, sweeping, history>>

---------------------------------------------------------------------------
(* The repairs. *)

(* The one at work stops its services one after the other.                 *)
StartRepair(kind) ==
  /\ alive /\ repair = NoRepair /\ count < MaxRepairs
  /\ count' = count + 1
  /\ repair' = [NoRepair EXCEPT
                  !.kind = kind, !.phase = "list",
                  !.svcs = IF kind = "queue" THEN <<Spooler>> ELSE UpdateServices,
                  !.dirs = Folders, !.before = folder,
                  !.alone = \A n \in Repairs : background[n] = <<>>]
  /\ report' = "none"
  /\ UNCHANGED <<world, alive, windows, background, sweeping, history>>

(* clean_path_contents, on a blocking thread: nothing ends it early.       *)
SweepEnds(n) ==
  /\ n \in sweeping
  /\ sweeping' = sweeping \ {n}
  /\ IF repair.phase = "sweep" /\ n = count
       THEN \/ repair' = ToStart /\ UNCHANGED <<background, report>>
            \/ Dropped("failed")
       ELSE UNCHANGED <<repair, background, report>>
  /\ UNCHANGED <<world, alive, windows, count, history>>

(* A folder that is not there is skipped; after the last one, the services *)
(* are started.                                                            *)
RenameFolder ==
  /\ repair.phase = "rename"
  /\ IF repair.dirs = <<>> THEN repair' = ToStart /\ UNCHANGED folder
     ELSE LET f == Head(repair.dirs)
          IN  IF folder[f] = "away"
                THEN repair' = [repair EXCEPT !.dirs = Tail(@)] /\ UNCHANGED folder
                ELSE /\ folder' = [folder EXCEPT ![f] = "away"]
                     /\ repair' = [repair EXCEPT !.dirs = Tail(@),
                                                 !.renamed = Append(@, <<f, folder[f]>>)]
  /\ UNCHANGED <<world, alive, state, count, background, sweeping, report, history>>

(* A folder that a program still uses: those renamed before it are renamed *)
(* back, the last first, which can fail too, as it does where Windows has  *)
(* made a new one; those before it then stay.                              *)
RenameFails ==
  /\ repair.phase = "rename" /\ repair.dirs # <<>>
  /\ folder[Head(repair.dirs)] # "away"
  /\ \E kept \in 0..Len(repair.renamed) :
       LET back == {repair.renamed[i] : i \in (kept + 1)..Len(repair.renamed)}
       IN  /\ \A p \in back : folder[p[1]] = "away"
           /\ folder' = [f \in DOMAIN folder |->
                           IF \E p \in back : p[1] = f
                             THEN (CHOOSE p \in back : p[1] = f)[2] ELSE folder[f]]
           /\ Dropped(IF kept = 0 THEN "unchanged" ELSE "failed")
  /\ UNCHANGED <<world, alive, state, count, sweeping, history>>

DeleteJobs ==
  /\ repair.phase = "delete"
  /\ repair' = ToStart
  /\ UNCHANGED <<world, alive, windows, count, background, sweeping, report, history>>

(* The run is cancelled: the repair is dropped where it waits.             *)
Cancel ==
  /\ repair # NoRepair
  /\ Dropped("cancelled")
  /\ UNCHANGED <<world, alive, windows, count, sweeping, history>>

(* The process ends with the runtime: whatever is still at work is cut. A  *)
(* window that is closed in the middle of a repair is left out.            *)
ProcessEnds ==
  /\ world.ends
  /\ alive /\ repair = NoRepair
  /\ alive' = FALSE
  /\ background' = [n \in Repairs |-> <<>>]
  /\ sweeping' = {}
  /\ UNCHANGED <<world, windows, count, repair, report, history>>

---------------------------------------------------------------------------
Next ==
  \/ \E s \in Services : HasStopped(s) \/ HasStarted(s) \/ FailsToStart(s)
  \/ \E f \in ToSet(Folders) : FolderMadeAnew(f)
  \/ \E kind \in Kinds : StartRepair(kind)
  \/ \E n \in Repairs : BackgroundStarts(n) \/ SweepEnds(n)
  \/ ListDependents \/ StopOne \/ NextTarget \/ DidNotStop
  \/ StartOne \/ CheckStarted \/ NotAnswered
  \/ RenameFolder \/ RenameFails \/ DeleteJobs
  \/ Cancel \/ ProcessEnds

Spec == Init /\ [][Next]_vars

---------------------------------------------------------------------------
AtRest == repair = NoRepair /\ \A n \in Repairs : background[n] = <<>>

(* Every service a repair stopped runs again, or is starting, when the     *)
(* repairs and their guards are through, unless Windows could not start    *)
(* it: however they end, if WinMedic goes on and no service takes too long *)
(* to stop.                                                                *)
Pending == {s \in Services : state[s] = "starting"}

RunsAgain == ~world.ends /\ ~world.slow => (AtRest => downed \subseteq refused \cup Pending)

(* "... and starts them again when the run ends early"                     *)
(* (docs/how-it-works.md): not when WinMedic ends with the run.            *)
RunsAgainAfterEveryRun == ~world.slow => (AtRest => downed \subseteq refused \cup Pending)

(* "Recorded first, so that a service that stops only halfway is started   *)
(* again too" (service.rs): not if it is still stopping by then.           *)
HalfwayRunsAgain == ~world.ends => (AtRest => downed \subseteq refused \cup Pending)

(* While a repair renames, empties or deletes, all it stopped is stopped,  *)
(* if the guard of no earlier repair was at work when it started.          *)
Touches == repair.phase \in {"rename", "sweep", "delete"}

TouchesWhileStopped ==
  Touches /\ repair.alone =>
    \A s \in ToSet(repair.guard) : state[s] = "stopped" /\ RunningDependents(s) = {}

(* ... whatever an earlier repair left behind.                             *)
AlwaysTouchesWhileStopped ==
  Touches => \A s \in ToSet(repair.guard) : state[s] = "stopped"

(* A repair reported as done has started again all it stopped: each runs,  *)
(* or was still starting when sc was asked about it (service.rs counts     *)
(* SERVICE_START_PENDING as running) and may have failed since.            *)
DoneMeansRunning ==
  [][report' = "done" /\ report' # report =>
       \A s \in ToSet(repair.guard) :
         state[s] \in {"running", "starting"} \/ s \in repair.pending]_vars

(* "Returns the ones that do not run" (service.rs): not those, which a     *)
(* repair then reports as done.                                            *)
DoneMeansAllRun ==
  [][report' = "done" /\ report' # report =>
       \A s \in ToSet(repair.guard) : state[s] = "running"]_vars

(* "Nothing was changed" is said only when no folder is left renamed.      *)
UnchangedMeansUnchanged ==
  [][report' = "unchanged" /\ report' # report =>
       \A f \in ToSet(Folders) : folder'[f] = "away" => repair.before[f] = "away"]_vars

(* A service is started only after those it depends on that the same       *)
(* repair stopped, if no earlier guard started some of them in between.    *)
StartsInOrder ==
  repair.phase \in {"start", "check"} /\ repair.alone =>
    \A i, j \in DOMAIN repair.toStart :
      repair.toStart[i] \in Needs[repair.toStart[j]] => i < j

(* What was stopped runs again, in an order in which every start finds     *)
(* what it needs running (service.rs StartAgain).                          *)
RunsAgainInOrder == TypeOK /\ RunsAgain /\ StartsInOrder

(* What a repair reports holds of the services and of the folders.         *)
ReportsAreTrue == DoneMeansRunning /\ UnchangedMeansUnchanged
===========================================================================
