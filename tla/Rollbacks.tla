------------------------------ MODULE Rollbacks ------------------------------
(***************************************************************************)
(* modules/feature_rollback.rs: the installations of Windows features that *)
(* Windows rolled back and no later one made good, read from the ends of   *)
(* its servicing logs and confirmed in the logs as a whole, while Windows  *)
(* goes on writing them. Servicing itself is external: installers run when *)
(* Windows starts, one that fails makes the queue fail, and the next start *)
(* runs the same installers to take the installation back.                 *)
(***************************************************************************)
EXTENDS Integers, FiniteSets, Sequences, SequencesExt

CONSTANTS
  Installers,    \* the advanced installers, by their GUID
  TailLines,     \* TAIL_BYTES, in lines
  Mishaps,       \* "cut": Windows loses power in the middle of a start;
                 \* "rotated": a log is renamed while WinMedic reads
  MaxLines       \* bound: lines of all logs together

RollbacksAssumption == TailLines \in Nat \ {0} /\ MaxLines \in Nat

None == "none"

VARIABLES
  cbs,         \* the logs, oldest first: CbsPersist_*.log and CBS.log, the last
  servicing,   \* the start of Windows at work
  standing,    \* history: the rollbacks that no later start made good
  reading,     \* what WinMedic's check has read so far
  seen,        \* history: those of standing whose lines were in the ends it read
  told         \* the rollbacks it reported

vars == <<cbs, servicing, standing, reading, seen, told>>

NoStart == [mode |-> "off", ran |-> {}, failed |-> {}]
NotReading == [at |-> "idle", logs |-> 0, found |-> {}]

Init ==
  /\ cbs = <<<<>>>>
  /\ servicing = NoStart
  /\ standing = {}
  /\ reading = NotReading /\ seen = {} /\ told = {}

---------------------------------------------------------------------------
(* A line as far as it is read: an installer is done (CSIPERF:AIDONE), how *)
(* it went (Completion status), its failure, ignored or not, the failure   *)
(* of the queue, and the end of the start (Processing complete).           *)

Done(g) == [kind |-> "done", guid |-> g, ok |-> TRUE, at |-> 0]
Status(ok) == [kind |-> "status", guid |-> None, ok |-> ok, at |-> 0]
Failure(g, ignored, at) == [kind |-> "failure", guid |-> g, ok |-> ignored, at |-> at]
QueueFailure == [kind |-> "queue", guid |-> None, ok |-> FALSE, at |-> 0]
Complete(ok) == [kind |-> "complete", guid |-> None, ok |-> ok, at |-> 0]

Lines == Len(FlattenSeq(cbs))
Writes(lines) ==
  /\ Lines + Len(lines) <= MaxLines
  /\ cbs' = [cbs EXCEPT ![Len(cbs)] = @ \o lines]
  /\ UNCHANGED <<reading, seen, told>>

NewestOf(failures) ==
  {f \in failures : \A other \in failures : other.guid = f.guid => other.at <= f.at}
Replacing(rollbacks, newer) ==
  {r \in rollbacks : \A f \in newer : f.guid # r.guid} \cup NewestOf(newer)

StartInstalls ==
  /\ servicing.mode = "off"
  /\ servicing' = [NoStart EXCEPT !.mode = "install"]
  /\ UNCHANGED <<cbs, standing, reading, seen, told>>

Installed(g) ==
  /\ servicing.mode \in {"install", "take back"} /\ g \notin servicing.ran
  /\ Writes(<<Done(g), Status(TRUE)>>)
  /\ servicing' = [servicing EXCEPT !.ran = @ \cup {g}]
  /\ UNCHANGED standing

(* The components an installer worked on went well, it failed as a whole.  *)
InstallerFails(g) ==
  /\ servicing.mode = "install" /\ g \notin {f.guid : f \in servicing.failed}
  /\ \E ignored \in BOOLEAN :
       /\ Writes(<<Done(g), Status(FALSE), Failure(g, ignored, Lines + 3)>>)
       /\ servicing' = IF ignored THEN servicing
                       ELSE [servicing EXCEPT !.ran = @ \ {g},
                                              !.failed = @ \cup {[guid |-> g, at |-> Lines + 3]}]
  /\ UNCHANGED standing

QueueFails ==
  /\ servicing.mode = "install" /\ servicing.failed # {}
  /\ Writes(<<QueueFailure, Complete(FALSE)>>)
  /\ standing' = Replacing(standing, servicing.failed)
  /\ servicing' = [NoStart EXCEPT !.mode = "take back"]

StartEnds ==
  /\ servicing.mode \in {"install", "take back"} /\ servicing.failed = {}
  /\ LET ok == servicing.mode = "install"
     IN  /\ Writes(<<Complete(ok)>>)
         /\ standing' = IF ok THEN {r \in standing : r.guid \notin servicing.ran} ELSE standing
  /\ servicing' = NoStart

(* A cut that the log shows needs the mishap.                              *)
PowerIsCut ==
  /\ servicing.mode # "off"
  /\ "cut" \in Mishaps \/ servicing = [NoStart EXCEPT !.mode = servicing.mode]
  /\ servicing' = NoStart
  /\ UNCHANGED <<cbs, standing, reading, seen, told>>

(* CBS.log becomes a CbsPersist log, between two starts.                   *)
Rotates ==
  /\ servicing.mode \in {"off", "take back"} /\ servicing.ran = {}
  /\ Len(cbs) < 2 /\ Last(cbs) # <<>>
  /\ "rotated" \in Mishaps \/ reading.at = "idle"
  /\ cbs' = Append(cbs, <<>>)
  /\ UNCHANGED <<servicing, standing, reading, seen, told>>

---------------------------------------------------------------------------
(* RollbackReader: what it knows after the lines it was given.             *)

NothingRead == [rolledBack |-> {}, failed |-> {}, completed |-> {}, finishing |-> None]

(* Mutant: the start that takes the installation back counts as one.       *)
ReadEndOfAnyStart(r, l) ==
  [NothingRead EXCEPT !.rolledBack = {x \in r.rolledBack : x.guid \notin r.completed}]

ReadEndOfStart(r, l) ==
  [NothingRead EXCEPT
     !.rolledBack = IF l.ok THEN {x \in r.rolledBack : x.guid \notin r.completed} ELSE r.rolledBack]

ReadLine(r, l) ==
  CASE l.kind = "done" -> [r EXCEPT !.finishing = l.guid]
    [] l.kind = "status" ->
         [r EXCEPT !.finishing = None,
                   !.completed = IF r.finishing # None /\ l.ok THEN @ \cup {r.finishing} ELSE @]
    [] l.kind = "failure" ->
         IF l.ok THEN r
         ELSE [r EXCEPT !.completed = @ \ {l.guid},
                        !.failed = @ \cup {[guid |-> l.guid, at |-> l.at]}]
    [] l.kind = "queue" ->
         [r EXCEPT !.rolledBack = Replacing(@, r.failed), !.failed = {}]
    [] l.kind = "complete" -> ReadEndOfStart(r, l)

Unresolved(lines) == FoldLeft(ReadLine, NothingRead, lines).rolledBack

(* tail: the last lines, from the first whole one.                         *)
End(log) == IF Len(log) <= TailLines THEN log
            ELSE SubSeq(log, Len(log) - TailLines + 1, Len(log))

(* cbs_logs names the logs once; the last name is CBS.log's, whichever log *)
(* has it by then.                                                         *)
Named(n) == [i \in 1..n |-> IF i = n THEN Last(cbs) ELSE cbs[i]]
EndsOf(logs) == FlattenSeq([i \in DOMAIN logs |-> End(logs[i])])

InEnds(r) ==
  LET ends == EndsOf(cbs)
  IN  \E i, j \in DOMAIN ends :
        i < j /\ ends[i] = Failure(r.guid, FALSE, r.at) /\ ends[j] = QueueFailure

(* rollbacks_in: the ends first, and the whole when they hold a rollback.  *)
ReadEnds ==
  /\ reading.at = "idle"
  /\ LET found == Unresolved(EndsOf(Named(Len(cbs))))
     IN  /\ reading' = IF found = {} THEN NotReading
                       ELSE [at |-> "whole", logs |-> Len(cbs), found |-> found]
         /\ told' = IF found = {} THEN {} ELSE told
  /\ seen' = {r \in standing : InEnds(r)}
  /\ UNCHANGED <<cbs, servicing, standing>>

ReadWhole ==
  /\ reading.at = "whole"
  /\ told' = reading.found \cap Unresolved(FlattenSeq(Named(reading.logs)))
  /\ reading' = NotReading
  /\ UNCHANGED <<cbs, servicing, standing, seen>>

Next ==
  \/ StartInstalls
  \/ \E g \in Installers : Installed(g)
  \/ \E g \in Installers : InstallerFails(g)
  \/ QueueFails \/ StartEnds \/ PowerIsCut \/ Rotates
  \/ ReadEnds \/ ReadWhole

Spec == Init /\ [][Next]_vars

---------------------------------------------------------------------------
(* What a check tells are rollbacks that stand at that moment, and all     *)
(* that stood all the time it read and that the ends of the logs told of,  *)
(* wherever the ends begin and whatever is written meanwhile.              *)
CheckTellsWhatStands ==
  [][reading' = NotReading /\ <<reading, seen, told>>' # <<reading, seen, told>>
       => /\ told' \subseteq standing
          /\ seen' \cap standing \subseteq told']_vars
=============================================================================
