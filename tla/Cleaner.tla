------------------------------ MODULE Cleaner ------------------------------
(***************************************************************************)
(* Disks and what fills them: modules/storage.rs, system_cleaner.rs and    *)
(* the download cache of windows_updates.rs.                               *)
(***************************************************************************)
EXTENDS Fixes

Parts == {"dirty", "icons", "temp", "cache", "delivery", "downloads", "logs", "bin",
          "winsxs"}

---------------------------------------------------------------------------
(* The dirty bit of C: and the errors of its file system, which chkdsk can *)
(* fix while Windows runs, or only the check before the next start can;    *)
(* and whether a drive says that it wears out, which nothing repairs.      *)

Volume == [dirty : BOOLEAN, errors : {"none", "online", "offline"}, worn : BOOLEAN]

DirtyBit(s, answered) == Finding("dirty", answered \cap {"wmi", "fsutil"} # {} /\ s.dirty)

SmartWarning(s, answered) == Finding("smart", "disks" \in answered /\ s.worn)

RunChkdsk ==
  \/ Return("failed")
  \/ setting.errors # "offline"
     /\ \E dirty \in {setting.dirty, FALSE} :
          End([setting EXCEPT !.dirty = dirty, !.errors = "none"], saved, "done")

---------------------------------------------------------------------------
(* Explorer's icon cache; the script says how many of its files are left.  *)

Icons == [icons : {"small", "grown"}]

IconCache(s, answered) == Finding("icons", s.icons = "grown")

RebuildIconCache ==
  \/ End(With("icons", "small"), saved, "done")
  \/ \E icons \in {"small", "grown"} : End(With("icons", icons), saved, "failed")

---------------------------------------------------------------------------
(* A folder is the files in it, by what they are to a sweep: much or       *)
(* little that can be deleted, and what a program holds open, much or a    *)
(* zero-byte placeholder.                                                  *)

Held == {"held", "placeholder"}

Folder == SUBSET {"much", "little", "held", "placeholder"}

(* worth_reporting: at or above a floor.                                   *)
WorthReporting(files) == files \cap {"much", "held"} # {}

Swept(files) == files \cap Held

(* Mutant: what was in use is not told from what was deleted.              *)
CleanupResultAlways(files) == "done"

(* cleanup_result: nothing deleted while something was locked is an error, *)
(* unless the locked files are empty.                                      *)
CleanupResult(files) ==
  IF files \ Held = {} /\ "held" \in files THEN "failed" ELSE "done"

Cache == [cache : Folder]

(* The browser caches, and the cache of Delivery Optimization.             *)
CacheFindings(p, s) == Finding(p, WorthReporting(s[p]))

(* The temp folders, as storage.rs measures them.                          *)
Temp == [temp : Folder]

TempBloat(s) == Finding("temp", WorthReporting(s.temp))

CleanFolder(f) ==
  \/ At("begin") /\ Go("sweep")
  \/ At("sweep") /\ End(With(f, Swept(setting[f])), saved, CleanupResult(setting[f]))

(* Delivery Optimization is asked to empty its cache before the sweep; it  *)
(* lets go of the files then.                                              *)
Delivery == [delivery : Folder]

CleanDelivery ==
  \/ /\ At("begin")
     /\ \/ Step(With("delivery", setting.delivery \ {"much", "held"}), saved, "rest", {})
        \/ Go("sweep")
  \/ At("rest") /\ End(With("delivery", Swept(setting.delivery)), saved, "done")
  \/ At("sweep") /\ CleanFolder("delivery")

(* Windows Update's download cache: the services that use it are stopped   *)
(* for the sweep and started again, which ServiceRepairs is about.         *)
Downloads == [downloads : Folder]

UpdateCacheBloat(s) == Finding("downloads", WorthReporting(s.downloads))

CleanUpdateCache ==
  \/ ~config.auto_restart_services /\ Return("unchanged")
  \/ /\ config.auto_restart_services
     /\ \/ At("begin") /\ (Go("sweep") \/ Return("unchanged"))
        \/ At("sweep") /\ Step(With("downloads", Swept(setting.downloads)), saved, "start",
                                setting.downloads)
        \/ At("start") /\ (Return(CleanupResult(repair.left)) \/ Return("failed"))

---------------------------------------------------------------------------
(* The log folders: logs that can be deleted, that a service holds open,   *)
(* those System Integrity reads, and files that are no logs.               *)

Logs == [logs : SUBSET {"log", "heldlog", "cbs", "other"}]

IsReclaimableLog == {"log"}

SetupLogs(s, answered) == Finding("logs", s.logs \cap IsReclaimableLog # {})

CleanLogs ==
  \/ At("begin") /\ Go("sweep")
  \/ /\ At("sweep")
     /\ \/ End(With("logs", setting.logs \ IsReclaimableLog), saved, "done")
        \/ End(setting, saved, "failed")

---------------------------------------------------------------------------
(* The user's recycle bin on two drives, and somebody else's: deleted      *)
(* items, the index of one whose data is gone, and Explorer's desktop.ini. *)

Drives == {"C", "D"}
Bin == [C : SUBSET {"item", "index", "stub"}, D : {{}, {"item"}, {"index", "stub"}},
        somebodys : {{"item"}}]

RecycleBin(s, answered) == Finding("bin", \E d \in Drives : "item" \in s[d])

(* Clear-RecycleBin, drive by drive, then the sweep of what it left, which *)
(* decides when it cleared no drive.                                       *)
EmptyRecycleBin ==
  \/ /\ At("begin")
     /\ \E cleared \in SUBSET Drives :
          LET s == [d \in DOMAIN setting |->
                      IF d \in cleared THEN setting[d] \ {"item"} ELSE setting[d]]
          IN  Step(s, saved, "sweep", cleared) \/ End(s, saved, "failed")
  \/ /\ At("sweep")
     /\ LET swept == [d \in DOMAIN setting |->
                        IF d \in Drives THEN setting[d] \cap {"stub"} ELSE setting[d]]
        IN  End(swept, saved, IF repair.left # {} \/ swept # setting THEN "done" ELSE "failed")

---------------------------------------------------------------------------
(* WinSxS: the packages DISM counts as reclaimable, those of them it never *)
(* removes, and how many WinMedic noted that the last cleanup left.        *)

NoNote == 0
WinSxS == {s \in [packages : 0..2, stuck : 0..2, note : {NoNote, 1, 2}] : s.stuck <= s.packages}

ReclaimablePackages(s, answered) ==
  Finding("winsxs", "store" \in answered /\ s.packages > 0 /\ s.note # s.packages)

(* A count other than the one noted: the store has changed since.          *)
NoteDropped(s, answered) ==
  IF "store" \in answered /\ s.note # s.packages THEN [s EXCEPT !.note = NoNote] ELSE s

CleanComponentStore ==
  \/ /\ At("begin")
     /\ Take({setting.packages}, "cleanup") \/ Take({}, "cleanup")
  \/ /\ At("cleanup")
     /\ \/ Step(With("packages", setting.stuck), saved, "count", repair.left)
        \/ \E n \in setting.stuck..setting.packages : End(With("packages", n), saved, "failed")
  \/ /\ At("count")
     /\ \/ Return("unproved")
        \/ End(With("note", setting.packages), saved,
               IF setting.packages > 0 /\ \E n \in repair.left : setting.packages >= n
               THEN "nothing" ELSE "done")

---------------------------------------------------------------------------
Begin(p) ==
  CASE p = "dirty" -> Volume
    [] p = "icons" -> Icons
    [] p = "temp" -> Temp
    [] p = "cache" -> Cache
    [] p = "delivery" -> Delivery
    [] p = "downloads" -> Downloads
    [] p = "logs" -> Logs
    [] p = "bin" -> Bin
    [] p = "winsxs" -> WinSxS

About(p) ==
  CASE p = "dirty" -> [AnyPart EXCEPT !.queries = {"wmi", "fsutil", "disks"}, !.restart = {"dirty"},
                                    !.advice = {"smart"}]
    [] p = "winsxs" -> [AnyPart EXCEPT !.queries = {"store"}]
    [] OTHER -> AnyPart

Findings(p, s, answered) ==
  CASE p = "dirty" -> DirtyBit(s, answered) \cup SmartWarning(s, answered)
    [] p = "icons" -> IconCache(s, answered)
    [] p = "temp" -> TempBloat(s)
    [] p \in {"cache", "delivery"} -> CacheFindings(p, s)
    [] p = "downloads" -> UpdateCacheBloat(s)
    [] p = "logs" -> SetupLogs(s, answered)
    [] p = "bin" -> RecycleBin(s, answered)
    [] p = "winsxs" -> ReclaimablePackages(s, answered)

(* What a scan changes by itself.                                          *)
Scanned(p, s, answered) == IF p = "winsxs" THEN NoteDropped(s, answered) ELSE s

(* Windows checks the volume before it starts.                             *)
Restarted(p, s) == IF p = "dirty" THEN [s EXCEPT !.dirty = FALSE, !.errors = "none"] ELSE s

(* A program is closed or begins to hold its files; Windows cleans up.     *)
Elsewhere(p, s) ==
  CASE p = "logs" -> {[logs |-> {IF k = "log" THEN "heldlog" ELSE k : k \in s.logs}]}
    [] p = "winsxs" -> {[s EXCEPT !.packages = 0, !.stuck = 0]}
    [] p \in {"temp", "cache"} -> {[s EXCEPT ![p] = @ \ {"held"}]}
    [] OTHER -> {}

(* A sweep goes on on its thread when the repair is dropped.               *)
Dropped(p, s) ==
  {s} \cup IF p \in {"temp", "cache", "delivery", "downloads"} /\ repair.at = "sweep"
           THEN {[s EXCEPT ![p] = Swept(s[p])]} ELSE {}

(* Only what a sweep is for: not what System Integrity reads, what         *)
(* Explorer writes back at once or what belongs to somebody else.          *)
Kept(p, f, s) ==
  CASE p = "logs" -> s.logs \ {"log"}
    [] p = "bin" -> [d \in DOMAIN s |-> IF d \in Drives THEN s[d] \cap {"stub"} ELSE s[d]]
    [] p = "winsxs" -> s.stuck
    [] p = "dirty" -> s.worn
    [] OTHER -> {}

Fix(f) ==
  CASE part = "dirty" -> RunChkdsk
    [] part = "icons" -> RebuildIconCache
    [] part = "temp" -> CleanFolder("temp")
    [] part = "cache" -> CleanFolder("cache")
    [] part = "delivery" -> CleanDelivery
    [] part = "downloads" -> CleanUpdateCache
    [] part = "logs" -> CleanLogs
    [] part = "bin" -> EmptyRecycleBin
    [] part = "winsxs" -> CleanComponentStore
===========================================================================
