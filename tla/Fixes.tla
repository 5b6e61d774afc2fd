------------------------------- MODULE Fixes -------------------------------
(***************************************************************************)
(* What the checks and repairs of modules/*.rs have in common. A check     *)
(* asks Windows some queries, each of which may stay unanswered, and makes *)
(* findings of the answers. A repair is a sequence of commands and         *)
(* queries: it looks again, backs up what it is about to change, changes   *)
(* it, reads it back and reports. It may be cancelled between any two of   *)
(* them (engine/runner.rs drops its future), and each command may fail,    *)
(* work and yet run into its time limit, or be undone at once by whoever   *)
(* else owns the setting.                                                  *)
(*                                                                         *)
(* A module of repairs extends this one; AllFixes puts them together. A    *)
(* behaviour looks at one part of Windows, whose settings are a record.    *)
(***************************************************************************)
EXTENDS Naturals, Sequences, FiniteSets

CONSTANTS
  Configs,       \* ModuleConfig: what the user allowed
  Lapses,        \* circumstances, by name, under which a property does not hold; see README.md
  MaxRepairs     \* bound: how many repairs are started

(* ModuleConfig, as far as repairs look at it.                             *)
Config == [auto_backup_registry : BOOLEAN, auto_restart_services : BOOLEAN]

ASSUME FixesAssumption == Configs \subseteq Config /\ MaxRepairs \in Nat

VARIABLES
  part,       \* the part of Windows this behaviour is about
  config,
  setting,    \* what Windows holds: a record of the settings of the part
  saved,      \* registry backups and copies: pairs of a setting and a value
  reported,   \* findings of the last scan that were not yet repaired
  repair,     \* the repair at work: its finding, where it is, what it has left to do
  count,      \* how many repairs were started
  report,     \* how the last repair ended
  before,     \* history: the settings when that repair began
  first,      \* history: the settings when WinMedic first saw them
  done        \* history: findings whose repair was reported done, and read back

vars == <<part, config, setting, saved, reported, repair, count, report, before, first, done>>
around == <<part, config, reported, count, before, first>>

NoFinding == "none"
NoRepair == [finding |-> NoFinding, at |-> "begin", left |-> {}, tries |-> 0]
Idle == repair = NoRepair
Endings == {"none", "done", "nothing", "unproved", "failed", "unchanged", "cancelled"}

(* What a module says of a part: what its check asks, which findings are   *)
(* advice, cleared only by a restart or the next update, or looked at      *)
(* again before their repair, and which settings are backed up, if the     *)
(* user wants it or always.                                                *)
AnyPart == [queries |-> {}, advice |-> {}, restart |-> {}, again |-> {}, backedUp |-> {},
            always |-> FALSE]

(* What a check found, if it did. *)
Finding(f, found) == IF found THEN {f} ELSE {}

---------------------------------------------------------------------------
(* The steps of a repair: each leads to another place in it, or ends it.   *)

At(place) == repair.at = place

(* Settings and backups become s and b, the repair goes on at place with   *)
(* left still to do.                                                       *)
Step(s, b, place, left) ==
  /\ setting' = s /\ saved' = b
  /\ repair' = [repair EXCEPT !.at = place, !.left = left]
  /\ UNCHANGED <<report, done>>

Go(place) == Step(setting, saved, place, repair.left)
Take(left, place) == Step(setting, saved, place, left)

(* Ok(..) is "done", "nothing" when there was nothing to remove, and, to   *)
(* tell them apart, "unproved" when what was read back at the end did not  *)
(* say whether it had worked; Err(..) is "failed", or "unchanged" when its *)
(* message says that nothing was changed.                                  *)
End(s, b, how) ==
  /\ setting' = s /\ saved' = b
  /\ repair' = NoRepair
  /\ report' = [finding |-> repair.finding, how |-> how]
  /\ done' = IF how \in {"done", "nothing"} THEN done \cup {repair.finding} ELSE done \ {repair.finding}

Return(how) == End(setting, saved, how)

With(i, v) == [setting EXCEPT ![i] = v]
Saving(items) == saved \cup {<<i, setting[i]>> : i \in items}

(* Mutant: an export that fails does not end the repair.                   *)
BackUpIfPossible(items, place) ==
  \/ Go(place)
  \/ config.auto_backup_registry /\ Step(setting, Saving(items), place, repair.left)

(* export_key, export_value: with the registry backups switched on, the    *)
(* repair does not go on without one.                                      *)
BackUp(items, place) ==
  \/ /\ ~config.auto_backup_registry
     /\ Go(place)
  \/ /\ config.auto_backup_registry
     /\ Step(setting, Saving(items), place, repair.left)
  \/ /\ config.auto_backup_registry
     /\ Return("unchanged")

(* A command that turns the settings into s: it works; Windows says so,    *)
(* but somebody has already put the old settings back; it fails, or has    *)
(* worked when its time is over. What is left to do is then left.          *)
CommandOf(s, place, left) ==
  \/ \E t \in {s, setting} : Step(t, saved, place, left)
  \/ \E t \in {s, setting} : End(t, saved, "failed")

Command(s, place) == CommandOf(s, place, repair.left)

(* The same for each item left, one after the other.                       *)
Each(Changed(_), place) ==
  \E i \in repair.left :
    CommandOf(Changed(i), IF repair.left = {i} THEN place ELSE repair.at, repair.left \ {i})

(* One whose outcome nobody looks at.                                      *)
Ignored(s, place) == \E t \in {s, setting} : Step(t, saved, place, repair.left)

(* One that ends the repair, and whose exit code is trusted.               *)
LastCommand(s) ==
  \/ End(s, saved, "done")
  \/ \E t \in {s, setting} : End(t, saved, "failed")

(* A query that ends the repair with an error when it is not answered; one *)
(* before the change, which has nothing to do when all is well by now; and *)
(* one after it, which decides what the repair reports.                    *)
NoAnswer == Return("failed")

LookAgain(well, place) ==
  \/ NoAnswer
  \/ well /\ Return("done")
  \/ ~well /\ Go(place)

ReadBack(right) ==
  \/ NoAnswer
  \/ right /\ Return("done")
  \/ ~right /\ Return("failed")
===========================================================================
