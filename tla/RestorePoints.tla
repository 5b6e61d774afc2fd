--------------------------- MODULE RestorePoints ---------------------------
(***************************************************************************)
(* safety/restore_point.rs: the script that asks Windows for a restore     *)
(* point before repairs. Windows makes one a day and declines the rest     *)
(* without an error, so the script lifts that limit, asks, puts the limit  *)
(* back, and trusts only a number that is higher than all before. It can   *)
(* be killed at any place, and two WinMedics can run it at once.           *)
(***************************************************************************)
EXTENDS Integers

CONSTANTS
  Requesters,    \* the WinMedics that may ask
  MaxPoints, MaxRequests    \* bounds

RestorePointsAssumption == {MaxPoints, MaxRequests} \subseteq Nat

Unset == "unset"
Limits == {Unset, "a day", "lifted"}
Idle == [at |-> "idle", before |-> -1, unread |-> FALSE, old |-> Unset, made |-> FALSE,
         error |-> FALSE, outcome |-> "none"]

VARIABLES
  points,      \* the numbers of the restore points there are
  highest,     \* the highest number ever given
  limit,       \* SystemRestorePointCreationFrequency
  limitWas,    \* history: what the user or Windows set it to
  strayed,     \* history: a script did not put the limit back, or met it lifted
  protection,  \* whether System Protection is on, and can be switched on
  script,      \* for each WinMedic: its script, or how the last one ended
  requests

vars == <<points, highest, limit, limitWas, strayed, protection, script, requests>>

Init ==
  /\ points \in SUBSET {1} /\ highest = 1
  /\ limit \in {Unset, "a day"} /\ limitWas = limit /\ strayed = FALSE
  /\ protection \in [on : BOOLEAN, canBeOn : BOOLEAN]
  /\ script = [r \in Requesters |-> Idle]
  /\ requests = 0

Sets(r, state) == script' = [script EXCEPT ![r] = state]
Ends(r, outcome) ==
  Sets(r, [Idle EXCEPT !.made = script[r].made, !.unread = script[r].unread,
                       !.outcome = outcome])
Lifting(r) == script[r].at \in {"checkpoint", "put back"}

(* Get-MaxSeq: -1 for no points, and for a list that cannot be read.       *)
MaxSeq == IF points = {} THEN -1 ELSE CHOOSE n \in points : \A m \in points : m <= n

---------------------------------------------------------------------------
(* The script of WinMedic r, step by step.                                 *)

GetBefore(r) ==
  /\ script[r].at = "idle" /\ requests < MaxRequests
  /\ \E before \in {-1, MaxSeq} :
       Sets(r, [Idle EXCEPT !.at = "lift", !.before = before, !.unread = before # MaxSeq])
  /\ requests' = requests + 1
  /\ UNCHANGED <<points, highest, limit, limitWas, strayed, protection>>

(* Enable-ComputerRestore, then the limit: each may fail without a word.   *)
Lift(r) ==
  /\ script[r].at = "lift"
  /\ protection' = [protection EXCEPT !.on = @ \/ protection.canBeOn]
  /\ limit' \in {"lifted", limit}
  /\ Sets(r, [script[r] EXCEPT !.at = "checkpoint", !.old = limit])
  /\ strayed' = (strayed \/ \E q \in Requesters : Lifting(q))
  /\ UNCHANGED <<points, highest, limitWas, requests>>

(* A point was made: by WinMedic, by another program, by the user.         *)
AddPoint(before) ==
  /\ protection.on /\ highest < MaxPoints
  /\ highest' = highest + 1 /\ points' = points \cup {highest'}
  /\ script' = [r \in Requesters |-> IF script[r].at = "idle" THEN before[r]
                                     ELSE [before[r] EXCEPT !.made = TRUE]]

(* Checkpoint-Computer fails while System Protection is off, does nothing  *)
(* within the limit, and may decline for another reason.                   *)
Checkpoint(r) ==
  /\ script[r].at = "checkpoint"
  /\ \/ /\ limit = "lifted" \/ points = {}
        /\ AddPoint([script EXCEPT ![r].at = "put back"])
     \/ /\ Sets(r, [script[r] EXCEPT !.at = "put back", !.error = ~protection.on])
        /\ UNCHANGED <<points, highest>>
  /\ UNCHANGED <<limit, limitWas, strayed, protection, requests>>

(* finally: refused without a word as well (SilentlyContinue).             *)
PutBack(r) ==
  /\ script[r].at = "put back"
  /\ limit' \in {script[r].old, limit}
  /\ strayed' = (strayed \/ limit' # script[r].old)
  /\ Sets(r, [script[r] EXCEPT !.at = "after", !.old = Unset])
  /\ UNCHANGED <<points, highest, limitWas, protection, requests>>

(* What the second list shows. Mutant: that no error came back is enough.  *)
OutcomeOfExit(s) == IF s.error THEN "failed" ELSE "created"
Outcome(s) ==
  IF s.error THEN "failed"
  ELSE IF MaxSeq > s.before THEN "created"
  ELSE IF s.before >= 0 THEN "throttled" ELSE "unverified"

After(r) ==
  /\ script[r].at = "after"
  /\ \E outcome \in {Outcome(script[r])} \cup
                    (IF script[r].error THEN {"failed"}
                     ELSE {IF script[r].before >= 0 THEN "throttled" ELSE "unverified"}) :
       Ends(r, outcome)
  /\ UNCHANGED <<points, highest, limit, limitWas, strayed, protection, requests>>

(* run_powershell gives up after 180 seconds, or WinMedic is closed, at    *)
(* whatever place: what finally would have put back stays as it is.        *)
Killed(r) ==
  /\ script[r].at # "idle"
  /\ Ends(r, "failed")
  /\ strayed' = (strayed \/ Lifting(r))
  /\ UNCHANGED <<points, highest, limit, limitWas, protection, requests>>

---------------------------------------------------------------------------
(* Windows and the user: points are made, pruned or deleted meanwhile.     *)

OtherPoint ==
  /\ AddPoint(script)
  /\ UNCHANGED <<limit, limitWas, strayed, protection, requests>>

Pruned ==
  /\ points # {}
  /\ points' \in {{}, {MaxSeq}}
  /\ points' # points
  /\ UNCHANGED <<highest, limit, limitWas, strayed, protection, script, requests>>

Next ==
  \/ \E r \in Requesters : GetBefore(r)
  \/ \E r \in Requesters : Lift(r)
  \/ \E r \in Requesters : Checkpoint(r)
  \/ \E r \in Requesters : PutBack(r)
  \/ \E r \in Requesters : After(r)
  \/ \E r \in Requesters : Killed(r)
  \/ OtherPoint
  \/ Pruned

Spec == Init /\ [][Next]_vars

---------------------------------------------------------------------------
(* "Only a confirmed new restore point counts as protection": one that was *)
(* made since this run asked, whoever made it, whatever was pruned and     *)
(* whoever else asks; unless the points could not be listed before and     *)
(* could be after, which the script cannot tell from none before. And the  *)
(* limit on restore points is what it was whenever no script runs, unless  *)
(* one was killed or refused before it had put it back, or met it lifted.  *)
ProtectedMeansNew ==
  /\ \A r \in Requesters :
       script[r].outcome = "created" => script[r].made \/ script[r].unread
  /\ (\A r \in Requesters : script[r].at = "idle") => strayed \/ limit = limitWas

(* What the source says without those exceptions, which does not hold: "a  *)
(* new restore point exists that did not exist before"                     *)
(* (safety/restore_point.rs:14) and "the old value is put back afterwards" *)
(* (restore_point.rs:130).                                                 *)
CreatedIsNew == \A r \in Requesters : script[r].outcome = "created" => script[r].made
LimitIsPutBack == (\A r \in Requesters : script[r].at = "idle") => limit = limitWas
=============================================================================
