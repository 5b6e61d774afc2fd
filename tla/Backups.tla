------------------------------ MODULE Backups ------------------------------
(***************************************************************************)
(* safety/reg_backup.rs: the registry backups of repairs, and their way    *)
(* back. A repair exports a key, or one value of it, to a file that is     *)
(* named by the second and what it holds, anchors the file's hash in the   *)
(* registry, and changes a value. A rollback imports a file only while it  *)
(* is what was anchored. Files may be edited or deleted, WinMedic may be   *)
(* cut off at any moment, and rollbacks may overlap repairs.               *)
(***************************************************************************)
EXTENDS Naturals, FiniteSets, Functions

CONSTANTS
  Values,        \* the values of the key the repairs are about
  MaxSeconds, MaxRepairs, MaxRollbacks, MaxEdits   \* bounds

(* No value has the name of a field that tells what is not there.          *)
BackupsAssumption ==
  /\ {MaxSeconds, MaxRepairs, MaxRollbacks, MaxEdits} \subseteq Nat
  /\ {"nothing", "cut"} \cap Values = {}

WholeKey == "whole key"
Kinds == Values \cup {WholeKey}
Names == [second : 0..MaxSeconds, of : Kinds]

(* What the values hold; a file or an anchor holds some of them, or it is  *)
(* not there, or not written to its end. "odd" is text with a line break,  *)
(* and after it what an export would name another key with.                *)
Data == {"original", "odd", "fixed", "absent", "edited"}
Nothing == [nothing |-> "absent"]
Cut == [cut |-> "absent"]

VARIABLES
  registry,   \* what the key holds
  files,      \* the backup folder
  anchors,    \* HKLM\SOFTWARE\WinMedic\Backups: the hash of each file, here its content
  now,
  repair,     \* the repair at work
  rollback,   \* the rollback at work: the name of its file, held while it imports
  counts,     \* how many repairs and rollbacks were started, and files edited
  backedUp,   \* history: for each value, the backup and the data its last repair began
              \* with, and whether a later repair wrote to the same file since
  edited      \* history: the files somebody else touched

vars == <<registry, files, anchors, now, repair, rollback, counts, backedUp, edited>>

(* What a file of the whole key, or of one value, would hold now. A value  *)
(* is cut from an export of the key, which does not stay, and cannot be    *)
(* when its text goes on over a line break.                                *)
CutValue(export, v) == Restrict(export, {v})
Export(of) == IF of = WholeKey THEN registry ELSE CutValue(registry, of)
Exportable(of) == of # WholeKey => registry[of] # "odd"

Init ==
  /\ registry \in [Values -> {"original", "odd"}]
  /\ files = [n \in Names |-> Nothing] /\ anchors = [n \in Names |-> Nothing]
  /\ now = 0
  /\ repair = Nothing /\ rollback = Nothing
  /\ counts = [repairs |-> 0, rollbacks |-> 0, edits |-> 0]
  /\ backedUp = [v \in Values |-> Nothing] /\ edited = {}

---------------------------------------------------------------------------
(* A repair of value v.                                                    *)

StartRepair(v) ==
  /\ repair = Nothing /\ counts.repairs < MaxRepairs
  /\ \E of \in {v, WholeKey} :
       /\ registry[v] # "absent" \/ of = WholeKey
       /\ repair' = [value |-> v, name |-> [second |-> now, of |-> of], at |-> "export",
                     content |-> Nothing]
  /\ counts' = [counts EXCEPT !.repairs = @ + 1]
  /\ UNCHANGED <<registry, files, anchors, now, rollback, backedUp, edited>>

At(place) == repair # Nothing /\ repair.at = place

(* The file of the repair at work is written to: whatever was backed up in *)
(* it in the same second is no longer there.                               *)
Overwrite ==
  backedUp' = [v \in Values |->
    IF backedUp[v] # Nothing /\ backedUp[v].name = repair.name
    THEN [backedUp[v] EXCEPT !.file = "overwritten"] ELSE backedUp[v]]

(* reg export /y overwrites a file of that name, unless a rollback holds   *)
(* it; a file of one value is removed again when it cannot be written.     *)
Exported ==
  /\ At("export")
  /\ repair.name # rollback /\ Exportable(repair.name.of)
  /\ files' = [files EXCEPT ![repair.name] = Export(repair.name.of)]
  /\ repair' = [repair EXCEPT !.at = "keep", !.content = Export(repair.name.of)]
  /\ Overwrite
  /\ UNCHANGED <<registry, anchors, now, rollback, counts, edited>>

(* The folder cannot be used, the export fails, or its time is over, or    *)
(* the repair is cancelled: nothing has been changed.                      *)
ExportFails ==
  /\ At("export")
  /\ \E left \in {files[repair.name]} \cup
                 (IF repair.name = rollback THEN {}
                  ELSE IF repair.name.of = WholeKey THEN {Cut, Export(WholeKey)} ELSE {Nothing}) :
       /\ files' = [files EXCEPT ![repair.name] = left]
       /\ IF left = files[repair.name] THEN UNCHANGED backedUp ELSE Overwrite
  /\ repair' = Nothing
  /\ UNCHANGED <<registry, anchors, now, rollback, counts, edited>>

(* keep: the file is read back and its anchor made, then filled in.        *)
Keep ==
  /\ At("keep")
  /\ anchors' = [anchors EXCEPT ![repair.name] = Cut]
  /\ repair' = [repair EXCEPT !.at = "anchor"]
  /\ UNCHANGED <<registry, files, now, rollback, counts, backedUp, edited>>

Anchored ==
  /\ At("anchor")
  /\ anchors' = [anchors EXCEPT ![repair.name] = repair.content]
  /\ repair' = [repair EXCEPT !.at = "change"]
  /\ UNCHANGED <<registry, files, now, rollback, counts, backedUp, edited>>

(* Or neither of them stays.                                               *)
NotKept ==
  /\ At("keep") \/ At("anchor")
  /\ anchors' = [anchors EXCEPT ![repair.name] = Nothing]
  /\ files' = [files EXCEPT ![repair.name] = Nothing]
  /\ repair' = Nothing
  /\ UNCHANGED <<registry, now, rollback, counts, backedUp, edited>>

(* The value is deleted or rewritten, or the command fails having done so  *)
(* or not.                                                                 *)
Change ==
  /\ At("change")
  /\ \E d \in {"absent", "fixed", registry[repair.value]} :
       registry' = [registry EXCEPT ![repair.value] = d]
  /\ backedUp' = [backedUp EXCEPT ![repair.value] =
       [name |-> repair.name, data |-> repair.content[repair.value], file |-> "kept"]]
  /\ repair' = Nothing
  /\ UNCHANGED <<files, anchors, now, rollback, counts, edited>>

(* WinMedic is killed. Its reg.exe has written the file to some point.     *)
Killed ==
  /\ At("keep") \/ At("anchor") \/ At("change")
  /\ repair' = Nothing /\ rollback' = Nothing
  /\ UNCHANGED <<registry, files, anchors, now, counts, backedUp, edited>>

---------------------------------------------------------------------------
(* list_backups: what is anchored, whatever became of the files.           *)
ListBackups == {n \in Names : anchors[n] \notin {Nothing, Cut}}

(* check_contents: an export of nothing but this key. It reads the lines:  *)
(* odd text looks like another key to it, in a backup of WinMedic's too.   *)
CheckContents(content) ==
  DOMAIN content \subseteq Values /\ \A v \in DOMAIN content : content[v] # "odd"

(* Mutant: the file is not compared with its anchor.                       *)
ImportableIfAnchored(n) == n \in ListBackups /\ CheckContents(files[n])

(* restore_key_with: anchored, there, and the content that was anchored.   *)
Importable(n) == n \in ListBackups /\ files[n] = anchors[n] /\ CheckContents(files[n])

(* The user picks a backup; it is imported when it passes, held from the   *)
(* moment it is read.                                                      *)
StartRollback(n) ==
  /\ rollback = Nothing /\ counts.rollbacks < MaxRollbacks
  /\ n \in ListBackups
  /\ rollback' = IF Importable(n) THEN n ELSE Nothing
  /\ counts' = [counts EXCEPT !.rollbacks = @ + 1]
  /\ UNCHANGED <<registry, files, anchors, now, repair, backedUp, edited>>

(* reg import sets the values of the file and leaves the others alone. It  *)
(* may fail, or be ended, after some of them.                              *)
Import ==
  /\ rollback # Nothing
  /\ LET content == files[rollback]
     IN  \E written \in SUBSET {v \in DOMAIN content : content[v] # "absent"} :
           registry' = [v \in Values |-> IF v \in written THEN content[v] ELSE registry[v]]
  /\ rollback' = Nothing
  /\ UNCHANGED <<files, anchors, now, repair, counts, backedUp, edited>>

---------------------------------------------------------------------------
(* Somebody edits or deletes a file that nobody holds. Only Administrators *)
(* can: none does in the moment between an export and its anchor.          *)
Edit(n) ==
  /\ counts.edits < MaxEdits
  /\ ~(At("keep") /\ repair.name = n)
  /\ files[n] # Nothing /\ n # rollback
  /\ \E content \in {[v \in DOMAIN files[n] |-> "edited"], Nothing} : files' = [files EXCEPT ![n] = content]
  /\ edited' = edited \cup {n}
  /\ counts' = [counts EXCEPT !.edits = @ + 1]
  /\ UNCHANGED <<registry, anchors, now, repair, rollback, backedUp>>

(* --uninstall --purge: the user gives all backups up.                     *)
DeleteMachineAnchors ==
  /\ repair = Nothing /\ rollback = Nothing
  /\ anchors # [n \in Names |-> Nothing]
  /\ anchors' = [n \in Names |-> Nothing]
  /\ edited' = Names
  /\ UNCHANGED <<registry, files, now, repair, rollback, counts, backedUp>>

Tick ==
  /\ now < MaxSeconds
  /\ now' = now + 1
  /\ UNCHANGED <<registry, files, anchors, repair, rollback, counts, backedUp, edited>>

Next ==
  \/ \E v \in Values : StartRepair(v)
  \/ Exported
  \/ ExportFails
  \/ Keep
  \/ Anchored
  \/ NotKept
  \/ Change
  \/ Killed
  \/ \E n \in Names : StartRollback(n)
  \/ Import
  \/ \E n \in Names : Edit(n)
  \/ DeleteMachineAnchors
  \/ Tick

Spec == Init /\ [][Next]_vars

---------------------------------------------------------------------------
(* "backs up the registry keys it deletes from or rewrites; those can be   *)
(* rolled back under Settings" (README): what a repair found before it     *)
(* changed a value can be put back, unless somebody touched that file, a   *)
(* later repair wrote to it in the same second (reg export /y), or a value *)
(* in it holds text that the content check takes for another key.          *)
CanBeRolledBack ==
  \A v \in Values : backedUp[v] # Nothing =>
    LET b == backedUp[v]
    IN  \/ b.name \in edited
        \/ b.file = "overwritten"
        \/ b.data = "absent"
        \/ \E w \in DOMAIN files[b.name] : files[b.name][w] = "odd"
        \/ Importable(b.name) /\ files[b.name][v] = b.data

(* The README's sentence without the last two exceptions does not hold:    *)
(* two values of one key repaired one after the other share a file.        *)
EachCanBeRolledBack ==
  \A v \in Values : backedUp[v] # Nothing =>
    LET b == backedUp[v]
    IN  b.name \in edited \/ b.data = "absent" \/ (Importable(b.name) /\ files[b.name][v] = b.data)

(* A rollback imports what WinMedic wrote and nothing else.                *)
OnlyWhatWasBackedUp == \A v \in Values : registry[v] # "edited"
===========================================================================
