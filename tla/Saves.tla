------------------------------- MODULE Saves -------------------------------
(***************************************************************************)
(* The two files WinMedic keeps in the user's profile: the settings        *)
(* (config.rs) and the last scan (app/scan_state.rs), which the window and *)
(* the helper, or a WinMedic on the command line, both read and write.     *)
(* Each is written to a temporary file that is renamed over it. The last   *)
(* scan has one per process, the settings have one for all.                *)
(***************************************************************************)
EXTENDS Naturals, FiniteSets

CONSTANTS
  Processes,
  Lapses,               \* "together": two processes save the settings at once;
                        \* "locked": a broken file cannot be moved aside
  MaxSaves, MaxEdits    \* bounds

SavesAssumption == {MaxSaves, MaxEdits} \subseteq Nat

Kept == {"config", "scan"}
Anyone == "anyone"

(* What a file holds: the settings or findings of the n-th save, half of   *)
(* them, or what the user made of the settings with an editor.             *)
Missing == [what |-> "missing", save |-> 0]
Half == [what |-> "half", save |-> 0]
Whole(n) == [what |-> "whole", save |-> n]
ByHand(n) == [what |-> "broken by hand", save |-> n]
Readable(c) == c.what = "whole"

VARIABLES
  file,      \* config.json and last_scan.json
  temp,      \* the temporary files
  aside,     \* what was moved aside as config.json.corrupt-<time>
  process,   \* for each process: the save it is at, or none; whether it is open
  counts

vars == <<file, temp, aside, process, counts>>

(* path.with_extension: "json.tmp", or with the id of the process. Mutant: *)
(* the same one for every process.                                         *)
OneTemp(f, p) == <<f, Anyone>>
Temp(f, p) == <<f, IF f = "scan" THEN p ELSE Anyone>>
Temps == Kept \X (Processes \cup {Anyone})

Closed == [open |-> FALSE, at |-> "closed", save |-> 0, of |-> "config"]
Open == [open |-> TRUE, at |-> "idle", save |-> 0, of |-> "config"]

Init ==
  /\ file \in [Kept -> {Missing, Whole(0)}]
  /\ temp = [t \in Temps |-> Missing]
  /\ aside = {}
  /\ process = [p \in Processes |-> Closed]
  /\ counts = [saves |-> 0, edits |-> 0]

Sets(p, state) == process' = [process EXCEPT ![p] = state]

---------------------------------------------------------------------------
(* quarantine: the file is renamed to a name nothing has.                  *)
Quarantine(p) ==
  /\ Sets(p, Open)
  /\ \/ /\ file' = [file EXCEPT !.config = Missing]
        /\ aside' = aside \cup {file.config}
     \/ "locked" \in Lapses /\ UNCHANGED <<file, aside>>
  /\ UNCHANGED <<temp, counts>>

(* load_from, at the start of a process: the defaults for a file that is   *)
(* missing or moved aside. A last scan that cannot be read is none.        *)
Load(p) ==
  /\ ~process[p].open
  /\ \/ /\ Readable(file.config) \/ file.config = Missing
        /\ Sets(p, Open)
        /\ UNCHANGED <<file, temp, aside, counts>>
     \/ /\ ~Readable(file.config) /\ file.config # Missing
        /\ Quarantine(p)

(* save_to: the temporary file is created or emptied, ...                  *)
Create(p, f) ==
  /\ process[p].at = "idle" /\ counts.saves < MaxSaves
  /\ f = "config" /\ "together" \notin Lapses =>
       \A q \in Processes : ~(process[q].at \in {"write", "rename"} /\ process[q].of = "config")
  /\ Sets(p, [open |-> TRUE, at |-> "write", save |-> counts.saves + 1, of |-> f])
  /\ temp' = [temp EXCEPT ![Temp(f, p)] = Half]
  /\ counts' = [counts EXCEPT !.saves = @ + 1]
  /\ UNCHANGED <<file, aside>>

(* ... written to its end, or as far as there is room, ...                 *)
Write(p) ==
  /\ process[p].at = "write"
  /\ LET t == Temp(process[p].of, p)
     IN  \/ /\ temp' = [temp EXCEPT ![t] = Whole(process[p].save)]
            /\ Sets(p, [process[p] EXCEPT !.at = "rename"])
         \/ Sets(p, Open) /\ UNCHANGED temp
  /\ UNCHANGED <<file, aside, counts>>

(* ... and renamed over the file, or removed when that fails.              *)
Rename(p) ==
  /\ process[p].at = "rename"
  /\ LET t == Temp(process[p].of, p)
     IN  /\ temp' = [temp EXCEPT ![t] = Missing]
         /\ \/ temp[t] # Missing /\ file' = [file EXCEPT ![process[p].of] = temp[t]]
            \/ UNCHANGED file
  /\ Sets(p, Open)
  /\ UNCHANGED <<aside, counts>>

(* A process ends, in the middle of a save too.                            *)
Close(p) ==
  /\ process[p].open
  /\ Sets(p, Closed)
  /\ UNCHANGED <<file, temp, aside, counts>>

(* The user breaks the settings in an editor while no WinMedic is open.    *)
EditByHand ==
  /\ \A p \in Processes : ~process[p].open
  /\ counts.edits < MaxEdits
  /\ Readable(file.config)
  /\ file' = [file EXCEPT !.config = ByHand(counts.edits)]
  /\ counts' = [counts EXCEPT !.edits = @ + 1]
  /\ UNCHANGED <<temp, aside, process>>

Next ==
  \/ \E p \in Processes : Load(p)
  \/ \E p \in Processes, f \in Kept : Create(p, f)
  \/ \E p \in Processes : Write(p)
  \/ \E p \in Processes : Rename(p)
  \/ \E p \in Processes : Close(p)
  \/ EditByHand

Spec == Init /\ [][Next]_vars

---------------------------------------------------------------------------
(* "an interrupted save leaves the previous config intact rather than a    *)
(* half-written file" (config.rs), and nobody reads half a scan            *)
(* (scan_state.rs): both files are as some save made them, whoever saves   *)
(* and dies in between; and what a hand edit broke "costs the user their   *)
(* settings for this session but never the file itself".                   *)
SavedWhole ==
  /\ \A f \in Kept : file[f] # Half
  /\ \A n \in 0..MaxEdits : n < counts.edits => ByHand(n) \in aside \cup {file.config}
=============================================================================
