---------------------------- MODULE StorageErrors ----------------------------
(***************************************************************************)
(* modules/storage.rs, the errors of disks that Windows logs. A query      *)
(* returns the newest events only, and a controller that keeps resetting   *)
(* logs bursts; so the events that mean lost data are asked for once more  *)
(* when the first query was full. Windows goes on logging in between, and  *)
(* drops its oldest events when the log is full.                           *)
(***************************************************************************)
EXTENDS Integers, FiniteSets, Sequences, SequencesExt

CONSTANTS
  Limit,        \* STORAGE_ERROR_LIMIT
  Days,         \* STORAGE_ERROR_DAYS
  LogSize,      \* how many events Windows keeps
  MaxEvents,    \* bound
  MaxDay        \* bound

StorageErrorsAssumption == {Limit, Days, LogSize, MaxEvents, MaxDay} \subseteq Nat

VARIABLES
  day,
  log,        \* the System log: events by number, kind and day, oldest first
  logged,     \* how many events were ever logged
  check,      \* what the check has asked and read
  finding,    \* its finding, if there is one
  then,       \* history: the errors there were when the check asked first
  unread      \* history: whether its last query was refused

vars == <<day, log, logged, check, finding, then, unread>>

NoFinding == [found |-> FALSE, critical |-> FALSE, count |-> 0, orMore |-> FALSE]
NotAsking == [at |-> "idle", events |-> {}]

(* storage_error_kind: bad blocks, errors while paging and damage of the   *)
(* file system lose data, retried accesses and resets do not; Ntfs also    *)
(* logs that it is healthy.                                                *)
Kinds == {"loss", "retry", "healthy"}
Errors == {"loss", "retry"}

Init ==
  /\ day = 0 /\ log = <<>> /\ logged = 0
  /\ check = NotAsking /\ finding = NoFinding
  /\ then = {} /\ unread = FALSE

---------------------------------------------------------------------------
Logs ==
  /\ logged < MaxEvents
  /\ logged' = logged + 1
  /\ \E k \in Kinds :
       LET longer == Append(log, [number |-> logged', kind |-> k, day |-> day])
       IN  log' = IF Len(longer) > LogSize THEN Tail(longer) ELSE longer
  /\ UNCHANGED <<day, check, finding, then, unread>>

DayPasses ==
  /\ day < MaxDay /\ day' = day + 1
  /\ UNCHANGED <<log, logged, check, finding, then, unread>>

---------------------------------------------------------------------------
(* system_log_query: the newest events of these kinds and the last days.   *)
Matching(in, kinds) == SelectSeq(in, LAMBDA e : e.kind \in kinds /\ e.day >= day - Days)
Newest(in, kinds) ==
  LET all == Matching(in, kinds)
  IN  ToSet(SubSeq(all, 1 + (IF Len(all) > Limit THEN Len(all) - Limit ELSE 0), Len(all)))

IsFull(events) == Cardinality(events) >= Limit

(* storage_errors_finding: what both queries return counts once.           *)
FindingOf(events, losses) ==
  LET all == events \cup losses
  IN  [found |-> all # {},
       critical |-> \E e \in all : e.kind = "loss",
       count |-> Cardinality(all),
       orMore |-> all # {} /\ IsFull(events)]

(* read_events: a query that is refused says nothing of the disks.         *)
AskErrors ==
  /\ check.at = "idle"
  /\ then' = ToSet(Matching(log, Errors))
  /\ \/ unread' = TRUE /\ finding' = NoFinding /\ UNCHANGED check
     \/ unread' = FALSE /\
        LET events == Newest(log, Errors)
        IN  IF IsFull(events)
            THEN check' = [at |-> "losses", events |-> events] /\ finding' = NoFinding
            ELSE finding' = FindingOf(events, {}) /\ UNCHANGED check
  /\ UNCHANGED <<day, log, logged>>

(* older_data_loss_errors; unread, the first query decides alone.          *)
AskLosses ==
  /\ check.at = "losses"
  /\ unread' \in BOOLEAN
  /\ finding' = FindingOf(check.events, IF unread' THEN {} ELSE Newest(log, {"loss"}))
  /\ check' = NotAsking
  /\ UNCHANGED <<day, log, logged, then>>

Next == Logs \/ DayPasses \/ AskErrors \/ AskLosses

Spec == Init /\ [][Next]_vars

---------------------------------------------------------------------------
(* The count is never more than Windows logged, and exact if it is told as *)
(* exact; what is critical lost data, and a loss that both queries could   *)
(* tell of is never hidden behind newer errors, however many.              *)
NoLossIsHidden ==
  [][check' = NotAsking /\ <<check, finding, then, unread>>' # <<check, finding, then, unread>> =>
       LET losses == ToSet(Matching(log, {"loss"}))
           known == then' \cup losses
       IN  /\ finding'.count <= Cardinality(known)
           /\ finding'.found /\ ~finding'.orMore => finding'.count = Cardinality(then')
           /\ finding'.critical => \E e \in known : e.kind = "loss"
           /\ then' \cap losses # {} /\ ~unread' => finding'.critical]_vars
=============================================================================
