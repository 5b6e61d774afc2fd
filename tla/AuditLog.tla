------------------------------ MODULE AuditLog ------------------------------
(***************************************************************************)
(* safety/audit.rs: the record of what WinMedic did. Entries go to the end *)
(* of a file; one that is full becomes the first of MaxRotated older ones, *)
(* and the oldest of these is deleted. Any WinMedic writes, and nobody     *)
(* looks at what a step of a rotation returns. What versions before logged *)
(* in history.json is taken over by the first who writes or reads.         *)
(***************************************************************************)
EXTENDS Integers, FiniteSets, Sequences, SequencesExt

CONSTANTS
  Writers,        \* the WinMedics that log
  Full,           \* how many entries fill a file: MAX_LOG_FILE_BYTES
  MaxRotated,     \* MAX_ROTATED_FILES
  Tears,          \* "together": two rotations or takeovers at once; "cut": a WinMedic
                  \* ends in the middle of one; "held": another program keeps a file
                  \* open; "unread": history.json, or an entry of it, is not read or
                  \* taken over
  MaxEntries      \* bound

AuditLogAssumption == {Full, MaxRotated} \subseteq Nat \ {0} /\ MaxEntries \in Nat

Numbers == 0..MaxRotated     \* 0 is the file that is written to
Older == <<-1, 0>>           \* what an older version logged, before entry 1

VARIABLES
  entries,    \* the entries of each file
  writer,     \* what each WinMedic is about to do, and with which file
  written,    \* how many entries were written
  held,       \* the files another program keeps open
  legacy,     \* whether history.json is there
  taken       \* history: whether it was there when it all began

vars == <<entries, writer, written, held, legacy, taken>>

Writing == [at |-> "idle", file |-> 0]

Init ==
  /\ entries = [n \in Numbers |-> <<>>]
  /\ writer = [w \in Writers |-> Writing]
  /\ written = 0
  /\ held \in {{}} \cup (IF "held" \in Tears THEN {{n} : n \in Numbers} ELSE {})
  /\ legacy \in BOOLEAN /\ taken = legacy

Goes(w, place, n) == writer' = [writer EXCEPT ![w] = [at |-> place, file |-> n]]

---------------------------------------------------------------------------
IsFull == Len(entries[0]) >= Full

Alone(w, places) ==
  "together" \notin Tears => \A v \in Writers \ {w} : writer[v].at \notin places
Rotating == {"oldest", "shift"}
TakingOver == {"take over", "remove"}

(* rotate_if_needed                                                        *)
RotateIfNeeded(w) ==
  IF IsFull THEN Alone(w, Rotating) /\ Goes(w, "oldest", MaxRotated) ELSE Goes(w, "append", 0)

NotTakenOver == legacy /\ entries[0] = <<>>

(* log                                                                     *)
Log(w) ==
  /\ writer[w].at = "idle" /\ written < MaxEntries
  /\ Alone(w, TakingOver)
  /\ IF NotTakenOver THEN Goes(w, "take over", 1) ELSE RotateIfNeeded(w)
  /\ UNCHANGED <<entries, written, held, legacy, taken>>

GetHistory(w) ==
  /\ writer[w].at = "idle" /\ NotTakenOver
  /\ Alone(w, TakingOver)
  /\ Goes(w, "take over", 1)
  /\ UNCHANGED <<entries, written, held, legacy, taken>>

(* migrate_legacy_json_if_needed: all entries are read, appended one by    *)
(* one, and the file is removed, also when there was nothing to read.      *)
TakeOver(w) ==
  /\ writer[w].at = "take over"
  /\ LET i == writer[w].file
     IN  /\ \/ entries' = [entries EXCEPT ![0] = Append(@, Older[i])]
            \/ "unread" \in Tears /\ UNCHANGED entries
         /\ IF i < Len(Older) THEN Goes(w, "take over", i + 1) ELSE Goes(w, "remove", 0)
  /\ UNCHANGED <<written, held, legacy, taken>>

(* Then log goes on, and get_history reads.                                *)
RemoveLegacy(w) ==
  /\ writer[w].at = "remove"
  /\ legacy' = FALSE
  /\ Goes(w, "rotate", 0) \/ Goes(w, "idle", 0)
  /\ UNCHANGED <<entries, written, held, taken>>

Rotate(w) ==
  /\ writer[w].at = "rotate"
  /\ RotateIfNeeded(w)
  /\ UNCHANGED <<entries, written, held, legacy, taken>>

RemoveOldest(w) ==
  /\ writer[w].at = "oldest"
  /\ entries' = IF MaxRotated \in held THEN entries ELSE [entries EXCEPT ![MaxRotated] = <<>>]
  /\ Goes(w, "shift", MaxRotated - 1)
  /\ UNCHANGED <<written, held, legacy, taken>>

(* fs::rename replaces what has the new name.                              *)
Renamed(from, to) ==
  IF entries[from] = <<>> \/ {from, to} \cap held # {} THEN entries
  ELSE [entries EXCEPT ![to] = entries[from], ![from] = <<>>]

(* From the older to the newer, and the file itself in the end.            *)
Shift(w) ==
  /\ writer[w].at = "shift"
  /\ entries' = Renamed(writer[w].file, writer[w].file + 1)
  /\ IF writer[w].file = 0 THEN Goes(w, "append", 0) ELSE Goes(w, "shift", writer[w].file - 1)
  /\ UNCHANGED <<written, held, legacy, taken>>

(* append_entry: one write, or none when it fails.                         *)
AppendEntry(w) ==
  /\ writer[w].at = "append"
  /\ \/ /\ written' = written + 1
        /\ entries' = [entries EXCEPT ![0] = Append(@, written')]
     \/ UNCHANGED <<entries, written>>
  /\ Goes(w, "idle", 0)
  /\ UNCHANGED <<held, legacy, taken>>

(* A WinMedic ends, and the next one starts.                               *)
Ends(w) ==
  /\ writer[w].at \in {"rotate", "append"}
                      \cup (IF "cut" \in Tears THEN Rotating \cup TakingOver ELSE {})
  /\ Goes(w, "idle", 0)
  /\ UNCHANGED <<entries, written, held, legacy, taken>>

Next ==
  \/ \E w \in Writers : Log(w)
  \/ \E w \in Writers : GetHistory(w)
  \/ \E w \in Writers : TakeOver(w)
  \/ \E w \in Writers : RemoveLegacy(w)
  \/ \E w \in Writers : Rotate(w)
  \/ \E w \in Writers : RemoveOldest(w)
  \/ \E w \in Writers : Shift(w)
  \/ \E w \in Writers : AppendEntry(w)
  \/ \E w \in Writers : Ends(w)

Spec == Init /\ [][Next]_vars

---------------------------------------------------------------------------
(* All that the files hold.                                                *)
Recorded == UNION {ToSet(entries[n]) : n \in Numbers}

(* What was logged stays, by this version or by one before it, until as    *)
(* much as the rotated files are to hold was logged after it: a reader who *)
(* goes from the oldest file to the newest reads each entry once, in the   *)
(* order they were logged in, with none left out in between, the last one  *)
(* written among them.                                                     *)
EntriesStay ==
  /\ \A m, n \in Numbers : \A i \in DOMAIN entries[m], j \in DOMAIN entries[n] :
       entries[m][i] < entries[n][j] <=> m > n \/ (m = n /\ i < j)
  /\ \A e, d \in Recorded : e..d \subseteq Recorded
  /\ written > 0 => ~legacy /\ written \in Recorded
  /\ \A e \in Recorded : e <= written
  /\ ~legacy => \A e \in (IF taken THEN Older[1] ELSE 1)..written :
                  e \in Recorded \/ written - e >= MaxRotated * Full
=============================================================================
