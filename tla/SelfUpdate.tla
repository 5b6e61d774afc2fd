----------------------------- MODULE SelfUpdate -----------------------------
(***************************************************************************)
(* utils/self_update.rs: windows that replace their own executable by a    *)
(* newer release, which goes through a staging file beside it, and other   *)
(* starts of WinMedic, each of which sweeps what updates left there. The   *)
(* executable is moved aside, since a running image can be renamed but     *)
(* neither deleted nor overwritten.                                        *)
(***************************************************************************)
EXTENDS Naturals, FiniteSets

CONSTANTS
  Windows,      \* open windows, all of the old version
  Lapses,       \* "cut": WinMedic dies between the two renames; "stuck": what was
                \* moved aside cannot be put back; "slow": a window closes slowly;
                \* "ended": another start ends before its tries do
  Attempts,     \* RETIRED_ATTEMPTS
  MaxInstalls, MaxStarts    \* bounds

SelfUpdateAssumption == Attempts \in Nat \ {0} /\ {MaxInstalls, MaxStarts} \subseteq Nat

(* Beside each other: the executable, the name a release would have, what  *)
(* is downloaded, its checksum, and the executable that was moved aside.   *)
Paths == {"exe", "target", "staged", "manifest", "retired"}
Contents == {"none", "old", "new", "bad", "part", "sums"}

VARIABLES
  disk,       \* what is at each path
  renames,    \* the executable is named after its release
  at,         \* where each window's installation is
  image,      \* where the image of the windows' program is
  holder,     \* the window whose curl writes the staging file
  goal,       \* where each window's download is to go
  start,      \* another start of WinMedic: where it is, the tries it has left and
              \* where the image of its program is
  counts

vars == <<disk, renames, at, image, holder, goal, start, counts>>

NoOne == "no one"
NoStart == [at |-> "none", tries |-> 0, from |-> "exe"]
Places == {"idle", "download", "checksum", "verify", "signature", "swap", "swap2", "undo",
           "failed", "installed", "closed"}

Init ==
  /\ disk = [p \in Paths |-> IF p = "exe" THEN "old" ELSE "none"]
  /\ renames \in BOOLEAN
  /\ at = [w \in Windows |-> "idle"]
  /\ image = "exe" /\ holder = NoOne /\ goal = [w \in Windows |-> "exe"]
  /\ start = NoStart
  /\ counts = [installs |-> 0, starts |-> 0]

Goes(w, place) == at' = [at EXCEPT ![w] = place]
Write(p, content) == disk' = [disk EXCEPT ![p] = content]
Running == {w \in Windows : at[w] # "closed"}

(* fs::remove_file and fs::rename: not of a file that is in use.           *)
InUse(p) ==
  \/ p = "staged" /\ holder # NoOne
  \/ p = image /\ Running # {}
  \/ p = start.from /\ start # NoStart
Removed(d, ps) == [p \in Paths |-> IF p \in ps /\ ~InUse(p) THEN "none" ELSE d[p]]

---------------------------------------------------------------------------
(* install: any failure removes the manifest and what was staged.          *)

Fails(w) ==
  /\ Goes(w, "failed")
  /\ disk' = Removed(disk, {"staged", "manifest"})
  /\ UNCHANGED <<renames, image, holder, goal, start, counts>>

Begin(w) ==
  /\ at[w] \in {"idle", "failed"} /\ counts.installs < MaxInstalls
  /\ counts' = [counts EXCEPT !.installs = @ + 1]
  /\ Goes(w, "download")
  /\ UNCHANGED <<disk, renames, image, holder, goal, start>>

(* curl_download removes what is there; curl holds the file it writes.     *)
Download(w) ==
  /\ at[w] = "download" /\ holder = NoOne
  /\ Write("staged", "part") /\ holder' = w
  /\ UNCHANGED <<renames, at, image, goal, start, counts>>

(* It ends with the release's bytes, with others, or with none.            *)
Downloaded(w) ==
  /\ at[w] = "download" /\ holder = w
  /\ holder' = NoOne
  /\ \/ \E bytes \in {"new", "bad"} : Write("staged", bytes) /\ Goes(w, "checksum")
     \/ Goes(w, "failed") /\ disk' = [disk EXCEPT !.staged = "none", !.manifest = "none"]
  /\ UNCHANGED <<renames, image, goal, start, counts>>

FetchChecksum(w) ==
  /\ at[w] = "checksum"
  /\ \/ /\ Write("manifest", "sums") /\ Goes(w, "verify")
        /\ UNCHANGED <<renames, image, holder, goal, start, counts>>
     \/ Fails(w)

(* read_checksum_manifest and verify_staged.                               *)
Verify(w) ==
  /\ at[w] = "verify"
  /\ \/ /\ disk.manifest = "sums" /\ disk.staged = "new"
        /\ Goes(w, "signature")
        /\ UNCHANGED <<disk, renames, image, holder, goal, start, counts>>
     \/ ~(disk.manifest = "sums" /\ disk.staged = "new") /\ Fails(w)

(* install_target: the release's name, unless something has it.            *)
InstallTarget == IF renames /\ disk.target = "none" THEN "target" ELSE "exe"

(* Only a signature Windows rejects ends it; one it cannot read does not.  *)
CheckSignature(w) ==
  /\ at[w] = "signature"
  /\ \/ /\ goal' = [goal EXCEPT ![w] = InstallTarget]
        /\ Goes(w, "swap")
        /\ UNCHANGED <<disk, renames, image, holder, start, counts>>
     \/ Fails(w)

(* The images of running programs move with their file.                    *)
Moves(from, to) ==
  /\ image' = IF image = from THEN to ELSE image
  /\ start' = IF start # NoStart /\ start.from = from THEN [start EXCEPT !.from = to] ELSE start

(* swap_in_place: an older retired file goes, the executable becomes it.   *)
MoveAside(w) ==
  /\ at[w] = "swap"
  /\ LET d == Removed(disk, {"retired"})
     IN  \/ /\ d.retired = "none" /\ d.exe # "none"
            /\ disk' = [d EXCEPT !.retired = d.exe, !.exe = "none"]
            /\ Moves("exe", "retired")
            /\ Goes(w, "swap2")
            /\ UNCHANGED <<renames, holder, goal, counts>>
         \/ /\ disk' = [p \in Paths |-> IF p \in {"staged", "manifest"} /\ ~InUse(p)
                                        THEN "none" ELSE d[p]]
            /\ Goes(w, "failed")
            /\ UNCHANGED <<renames, image, holder, goal, start, counts>>

MoveIntoPlace(w) ==
  /\ at[w] = "swap2"
  /\ \/ /\ disk.staged # "none" /\ ~InUse("staged")
        /\ disk' = [disk EXCEPT ![goal[w]] = disk.staged, !.staged = "none",
                                !.manifest = "none"]
        /\ Goes(w, "installed")
     \/ Goes(w, "undo") /\ UNCHANGED disk
  /\ UNCHANGED <<renames, image, holder, goal, start, counts>>

(* Mutant: the executable is left where it was moved.                      *)
NotPutBack(w) == at[w] = "undo" /\ Fails(w)

PutBack(w) ==
  /\ at[w] = "undo"
  /\ \/ /\ disk' = Removed([disk EXCEPT !.exe = disk.retired, !.retired = "none"],
                           {"staged", "manifest"})
        /\ Moves("retired", "exe")
        /\ Goes(w, "failed")
        /\ UNCHANGED <<renames, holder, goal, counts>>
     \/ "stuck" \in Lapses /\ Fails(w)

(* The window starts what it installed and closes, or is closed or killed, *)
(* in the middle of an installation too.                                   *)
Close(w) ==
  /\ at[w] # "closed"
  /\ at[w] \in {"swap2", "undo"} => "cut" \in Lapses
  /\ Goes(w, "closed")
  /\ holder' = IF holder = w THEN NoOne ELSE holder
  /\ UNCHANGED <<disk, renames, image, goal, start, counts>>

---------------------------------------------------------------------------
(* Another start of WinMedic, of whatever program is there.                *)

Program == {p \in {"exe", "target"} : disk[p] \in {"old", "new"}}

StartAnother ==
  /\ start = NoStart /\ counts.starts < MaxStarts
  /\ \E p \in Program : start' = [at |-> "sweep", tries |-> Attempts, from |-> p]
  /\ counts' = [counts EXCEPT !.starts = @ + 1]
  /\ UNCHANGED <<disk, renames, at, image, holder, goal>>

(* clean_leftovers. *)
Sweep ==
  /\ start.at = "sweep"
  /\ disk' = Removed(disk, {"staged", "manifest", "retired"})
  /\ start' = [start EXCEPT !.at = IF disk'.retired = "none" THEN "on" ELSE "retry"]
  /\ UNCHANGED <<renames, at, image, holder, goal, counts>>

(* delete_retired: five seconds of tries, in which a closing window closes.*)
DeleteRetired ==
  /\ start.at = "retry"
  /\ start.tries > 1 \/ "slow" \in Lapses \/ \A w \in Windows : at[w] # "installed"
  /\ disk' = Removed(disk, {"retired"})
  /\ start' = IF disk'.retired = "none" \/ start.tries = 1
              THEN [start EXCEPT !.at = "on"] ELSE [start EXCEPT !.tries = @ - 1]
  /\ UNCHANGED <<renames, at, image, holder, goal, counts>>

EndOther ==
  /\ start.at \in IF "ended" \in Lapses THEN {"on", "retry"} ELSE {"on"}
  /\ start' = NoStart
  /\ UNCHANGED <<disk, renames, at, image, holder, goal, counts>>

WindowNext(w) ==
  \/ Begin(w)
  \/ Download(w)
  \/ Downloaded(w)
  \/ FetchChecksum(w)
  \/ Verify(w)
  \/ CheckSignature(w)
  \/ MoveAside(w)
  \/ MoveIntoPlace(w)
  \/ PutBack(w)
  \/ Close(w)

Next ==
  \/ \E w \in Windows : WindowNext(w)
  \/ StartAnother
  \/ Sweep
  \/ DeleteRetired
  \/ EndOther

(* An installation goes on, what it installed is started and the window    *)
(* closes, a start sweeps and tries; nobody has to start an installation   *)
(* or WinMedic.                                                            *)
Fairness ==
  /\ \A w \in Windows : WF_vars(at[w] = "installed" /\ Close(w))
  /\ WF_vars(Sweep)
  /\ WF_vars(DeleteRetired)

Spec == Init /\ [][Next]_vars /\ Fairness

---------------------------------------------------------------------------
(* "the update did not install" never also means "and now there is no      *)
(* WinMedic here" (swap_in_place), whenever it fails, whatever other       *)
(* starts sweep; and what is there has been verified or was there before.  *)
NeverWithoutWinMedic ==
  /\ (\A w \in Windows : at[w] \notin {"swap2", "undo"}) => Program # {}
  /\ \A p \in {"exe", "target"} : disk[p] \in {"none", "old", "new"}

(* "On any error the installed binary is exactly as it was and no staged   *)
(* file survives." (install)                                               *)
FailsCleanly ==
  [][\A w \in Windows : at[w] # "failed" /\ at'[w] = "failed" =>
       disk'.exe = "old" /\ disk'.staged = "none" /\ disk'.manifest = "none"]_vars

(* The binary an update replaced is deleted by the new version, once the   *)
(* process that ran it has exited.                                         *)
RetiredGoes ==
  start # NoStart /\ disk[start.from] = "new" ~> disk.retired = "none"
===========================================================================
