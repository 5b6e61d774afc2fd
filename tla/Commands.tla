------------------------------ MODULE Commands ------------------------------
(***************************************************************************)
(* utils/cmd.rs and utils/job.rs: the commands WinMedic runs. Each runs in *)
(* a job of its own, which it joins suspended, and has a limit on its      *)
(* time; its output is drained for a while after it ended. PowerShell      *)
(* takes one of a few slots, in the order of asking; a query that timed    *)
(* out is made once more; a command that keeps the disk busy waits for the *)
(* PowerShell calls that asked before it. A call may be dropped, and       *)
(* WinMedic may end, at any moment; a command may hang, and what it        *)
(* started may outlive it.                                                 *)
(***************************************************************************)
EXTENDS Naturals, FiniteSets, Sequences, SequencesExt

CONSTANTS
  Queries, Heavy, Plain,   \* the calls: PowerShell, DISM, and anything else
  Slots,                   \* POWERSHELL_SLOTS
  Gaps                     \* "suspended": WinMedic ends before a command joined its job;
                           \* "no job": Windows gives none; "kept": a job is not let go

CommandsAssumption ==
  Slots \in Nat \ {0} /\ Queries \cap Heavy = {} /\ (Queries \cup Heavy) \cap Plain = {}

Calls == Queries \cup Heavy \cup Plain

VARIABLES
  call,      \* each call: where it is, and which try it is
  command,   \* its command: the process, what that started, and its job
  queue,     \* who waits for slots, in order
  holds,     \* who holds one
  earlier,   \* history: the PowerShell calls that had asked before each heavy one
  alive      \* WinMedic runs

vars == <<call, command, queue, holds, earlier, alive>>

NotRun == [process |-> "none", started |-> "none", outside |-> FALSE, job |-> "none"]
Over == {"done", "timed out", "dropped", "gone"}

Init ==
  /\ call = [c \in Calls |-> [at |-> "idle", try |-> 0]]
  /\ command = [c \in Calls |-> NotRun]
  /\ queue = <<>> /\ holds = {}
  /\ earlier = [c \in Calls |-> {}]
  /\ alive = TRUE

Goes(c, place) == call' = [call EXCEPT ![c].at = place]
At(c, place) == alive /\ call[c].at = place
Asked == {<<q, call[q].try>> : q \in {q \in Queries : q \in ToSet(queue) \cup holds}}

(* A process and its job when WinMedic lets go of both: kill_on_drop ends  *)
(* the process, closing the job what is in it.                             *)
JobClosed(k) ==
  IF k.job # "ends all" THEN k
  ELSE [k EXCEPT !.job = "closed",
                 !.process = IF @ = "runs" THEN "killed" ELSE @,
                 !.started = IF @ = "runs" /\ ~k.outside THEN "killed" ELSE @]
(* Mutant: the job is left open.                                           *)
DroppedAlone(k) == [k EXCEPT !.process = IF @ \in {"runs", "suspended"} THEN "killed" ELSE @]
Dropped(k) ==
  JobClosed([k EXCEPT !.process = IF @ \in {"runs", "suspended"} THEN "killed" ELSE @])

---------------------------------------------------------------------------
Ask(c) ==
  /\ At(c, "idle")
  /\ call' = [call EXCEPT ![c] = [at |-> IF c \in Plain THEN "start" ELSE "queued", try |-> 1]]
  /\ queue' = IF c \in Plain THEN queue ELSE Append(queue, c)
  /\ earlier' = IF c \in Heavy THEN [earlier EXCEPT ![c] = Asked] ELSE earlier
  /\ UNCHANGED <<command, holds, alive>>

(* acquire and after_every_slot, which gives all of them back at once.     *)
Room(c) == IF c \in Heavy THEN holds = {} ELSE Cardinality(holds) < Slots

Granted(c) ==
  /\ At(c, "queued") /\ Head(queue) = c /\ Room(c)
  /\ queue' = Tail(queue)
  /\ holds' = IF c \in Heavy THEN holds ELSE holds \cup {c}
  /\ Goes(c, "start")
  /\ UNCHANGED <<command, earlier, alive>>

(* start: suspended.                                                      *)
Start(c) ==
  /\ At(c, "start")
  /\ \/ /\ command' = [command EXCEPT ![c] = [NotRun EXCEPT !.process = "suspended"]]
        /\ Goes(c, "adopt") /\ UNCHANGED holds
     \/ /\ command' = [command EXCEPT ![c] = NotRun]        \* it could not be started
        /\ Goes(c, "done") /\ holds' = holds \ {c}
  /\ UNCHANGED <<queue, earlier, alive>>

(* adopt: into the job, then resumed.                                      *)
Adopt(c) ==
  /\ At(c, "adopt")
  /\ \E job \in IF "no job" \in Gaps THEN {"ends all", "none"} ELSE {"ends all"} :
       command' = [command EXCEPT ![c].process = "runs", ![c].job = job]
  /\ Goes(c, "wait")
  /\ UNCHANGED <<queue, holds, earlier, alive>>

(* The command starts another program, ends, or hangs; the other one may   *)
(* end too.                                                                *)
StartsOther(c) ==
  /\ command[c].process = "runs" /\ command[c].started = "none"
  /\ command' = [command EXCEPT ![c].started = "runs", ![c].outside = command[c].job = "none"]
  /\ UNCHANGED <<call, queue, holds, earlier, alive>>

Ends(c) ==
  /\ command[c].process = "runs"
  /\ command' = [command EXCEPT ![c].process = "ended"]
  /\ UNCHANGED <<call, queue, holds, earlier, alive>>

OtherEnds(c) ==
  /\ command[c].started = "runs"
  /\ command' = [command EXCEPT ![c].started = "ended"]
  /\ UNCHANGED <<call, queue, holds, earlier, alive>>

(* ended: "what it left running, if anything, runs on".                    *)
LetGo(k) == IF k.job = "ends all" /\ "kept" \notin Gaps THEN [k EXCEPT !.job = "let go"] ELSE k

Waited(c) ==
  /\ At(c, "wait") /\ command[c].process = "ended"
  /\ command' = [command EXCEPT ![c] = LetGo(@)]
  /\ Goes(c, "drain")
  /\ UNCHANGED <<queue, holds, earlier, alive>>

(* drain_readers: the pipes close, or PIPE_DRAIN_LIMIT is over. Mutant: no *)
(* limit.                                                                  *)
PipesClosed(c) == command[c].started # "runs"
DrainIsOver(c) == TRUE

Drained(c) ==
  /\ At(c, "drain") /\ DrainIsOver(c)
  /\ command' = [command EXCEPT ![c] = JobClosed(@)]
  /\ holds' = holds \ {c}
  /\ Goes(c, "done")
  /\ UNCHANGED <<queue, earlier, alive>>

(* The limit on its time is over: the command is killed, and the job       *)
(* closed. query_powershell asks for a slot again, once.                   *)
TimesOut(c) ==
  /\ At(c, "wait") /\ command[c].process = "runs"
  /\ command' = [command EXCEPT ![c] = Dropped(@)]
  /\ holds' = holds \ {c}
  /\ IF c \in Queries /\ call[c].try = 1
     THEN /\ call' = [call EXCEPT ![c] = [at |-> "queued", try |-> 2]]
          /\ queue' = Append(queue, c)
     ELSE Goes(c, "timed out") /\ UNCHANGED queue
  /\ UNCHANGED <<earlier, alive>>

(* The future that waits for the call is dropped; a call waits once.       *)
Unqueued(c) ==
  IF c \in ToSet(queue) THEN RemoveAt(queue, CHOOSE i \in DOMAIN queue : queue[i] = c) ELSE queue

Drop(c) ==
  /\ alive /\ call[c].at \notin Over \cup {"idle"}
  /\ command' = [command EXCEPT ![c] = Dropped(@)]
  /\ queue' = Unqueued(c)
  /\ holds' = holds \ {c}
  /\ Goes(c, "dropped")
  /\ UNCHANGED <<earlier, alive>>

(* WinMedic ends, however it ends: Windows closes its handles.             *)
WinMedicEnds ==
  /\ alive
  /\ "suspended" \notin Gaps => \A c \in Calls : call[c].at # "adopt"
  /\ alive' = FALSE
  /\ command' = [c \in Calls |-> JobClosed(command[c])]
  /\ call' = [c \in Calls |-> IF call[c].at \in Over \cup {"idle"} THEN call[c]
                              ELSE [call[c] EXCEPT !.at = "gone"]]
  /\ UNCHANGED <<queue, holds, earlier>>

CallNext(c) ==
  \/ Granted(c)
  \/ Start(c)
  \/ Adopt(c)
  \/ Waited(c)
  \/ Drained(c)
  \/ TimesOut(c)

Next ==
  \/ \E c \in Calls : Ask(c)
  \/ \E c \in Calls : CallNext(c)
  \/ \E c \in Calls : StartsOther(c)
  \/ \E c \in Calls : Ends(c)
  \/ \E c \in Calls : OtherEnds(c)
  \/ \E c \in Calls : Drop(c)
  \/ WinMedicEnds

(* The runtime drives each call, and its timers fire; no command has to    *)
(* end.                                                                    *)
Fairness == \A c \in Calls : WF_vars(CallNext(c))

Spec == Init /\ [][Next]_vars /\ Fairness

---------------------------------------------------------------------------
(* "A command, and whatever it starts, ends with WinMedic while WinMedic   *)
(* waits for it, however WinMedic ends", and when it timed out or its call *)
(* was dropped; but what a command that has ended by itself left running   *)
(* runs on. And DISM reads the disk only after the PowerShell calls that   *)
(* asked before it.                                                        *)
NothingLeftBehind ==
  /\ \A c \in Calls : call[c].at \in {"timed out", "dropped", "gone"} =>
       /\ command[c].process \notin {"runs", "suspended"}
       /\ command[c].started = "runs" => command[c].job = "let go"
  /\ \A c \in Calls : call[c].at \in {"drain", "done"} => command[c].started # "killed"
  /\ \A c \in Heavy : call[c].at = "wait" => earlier[c] \cap {a \in Asked : a[1] \in holds} = {}

(* Every call comes back, though its command hangs or leaves a program     *)
(* behind that holds its output, and though others wait for slots too.     *)
CallsEnd == \A c \in Calls : call[c].at # "idle" ~> call[c].at \in Over
=============================================================================
