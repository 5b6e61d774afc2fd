------------------------------ MODULE Records ------------------------------
(***************************************************************************)
(* What WinMedic keeps, what it reads, and what it shows of both: registry *)
(* backups, settings and scans, the record of what it did and of its       *)
(* crashes; releases, the output of commands, logs of Windows; and the     *)
(* pages of the window. They share no state, so a behaviour is about one   *)
(* of them, and the others stay as they begin.                             *)
(***************************************************************************)
EXTENDS Naturals

CONSTANTS
  Subjects,                                             \* which of the ten
  Values, MaxSeconds, MaxRepairs, MaxRollbacks,         \* Backups
  Lapses, Processes, MaxSaves, MaxEdits,                \* Saves
  Writers, Full, MaxRotated, Tears, MaxEntries,         \* AuditLog
  MaxKept, Second, FirstLookBack, LookBack,             \* CrashOffers
  MaxTime, MaxCrashes, MaxUnsaved,
  Slips, MaxReleases, MaxChecks,                        \* Releases
  MaxText, MaxPiece, Scripts,                           \* Decoding
  Installers, TailLines, Mishaps, MaxLines,             \* Rollbacks
  Limit, Days, LogSize, MaxEvents, MaxDay,              \* StorageErrors
  MaxScans,                                             \* Pages
  Same, Week, Series, MaxChanges, Installs, Cleared, MaxDate, MaxHappenings  \* Timeline

VARIABLES
  subject,
  registry, files, anchors, now, repair, rollback, made, backedUp, edited,
  file, temp, aside, process, counts,
  entries, writer, written, held, legacy, taken,
  clock, logs, events, crashed, seenUntil, look, offered, unsaved, missed,
  current, latest, releases, offer, checks,
  output, arrived, utf16, pending, kept, redraws, ended,
  cbs, servicing, standing, reading, seen, told,
  day, log, logged, check, finding, then, unread,
  issues, hidden, before, archive, badges, score, busy, left, filter, cursor,
  simulate, scanned, forecast, narrowed, scans,
  date, recorded, begins, points, installed

B == INSTANCE Backups WITH counts <- made
S == INSTANCE Saves
A == INSTANCE AuditLog
C == INSTANCE CrashOffers
R == INSTANCE Releases
D == INSTANCE Decoding
G == INSTANCE Rollbacks
E == INSTANCE StorageErrors
P == INSTANCE Pages
T == INSTANCE Timeline

ASSUME RecordsAssumption ==
  /\ B!BackupsAssumption /\ S!SavesAssumption /\ A!AuditLogAssumption
  /\ C!CrashOffersAssumption /\ R!ReleasesAssumption /\ D!DecodingAssumption
  /\ G!RollbacksAssumption /\ E!StorageErrorsAssumption /\ P!PagesAssumption
  /\ T!TimelineAssumption

backupsVars == <<registry, files, anchors, now, repair, rollback, made, backedUp, edited>>
savesVars == <<file, temp, aside, process, counts>>
auditVars == <<entries, writer, written, held, legacy, taken>>
offersVars == <<clock, logs, events, crashed, seenUntil, look, offered, unsaved, missed>>
releasesVars == <<current, latest, releases, offer, checks>>
outputVars == <<output, arrived, utf16, pending, kept, redraws, ended>>
servicingVars == <<cbs, servicing, standing, reading, seen, told>>
disksVars == <<day, log, logged, check, finding, then, unread>>
pagesVars == <<issues, hidden, before, archive, badges, score, busy, left, filter, cursor,
               simulate, scanned, forecast, narrowed, scans>>
seriesVars == <<date, recorded, begins, points, installed>>
vars == <<subject, backupsVars, savesVars, auditVars, offersVars, releasesVars, outputVars,
          servicingVars, disksVars, pagesVars, seriesVars>>

Init ==
  /\ subject \in Subjects
  /\ IF subject = "backups" THEN TRUE ELSE registry = [v \in Values |-> "original"]
  /\ IF subject = "saves" THEN TRUE ELSE file = [f \in S!Kept |-> S!Missing]
  /\ IF subject = "audit" THEN TRUE ELSE held = {} /\ legacy = FALSE
  /\ IF subject = "releases" THEN TRUE ELSE current = R!Parsed(R!Highest)
  /\ IF subject = "output" THEN TRUE ELSE output = [text |-> <<D!LF, D!LF>>, encoding |-> "code page"]
  /\ B!Init /\ S!Init /\ A!Init /\ C!Init
  /\ R!Init /\ D!Init /\ G!Init /\ E!Init /\ P!Init /\ T!Init

Next ==
  \/ subject = "backups" /\ B!Next
     /\ UNCHANGED <<subject, savesVars, auditVars, offersVars, releasesVars,
                    outputVars, servicingVars, disksVars, pagesVars, seriesVars>>
  \/ subject = "saves" /\ S!Next
     /\ UNCHANGED <<subject, backupsVars, auditVars, offersVars, releasesVars,
                    outputVars, servicingVars, disksVars, pagesVars, seriesVars>>
  \/ subject = "audit" /\ A!Next
     /\ UNCHANGED <<subject, backupsVars, savesVars, offersVars, releasesVars,
                    outputVars, servicingVars, disksVars, pagesVars, seriesVars>>
  \/ subject = "crashes" /\ C!Next
     /\ UNCHANGED <<subject, backupsVars, savesVars, auditVars, releasesVars,
                    outputVars, servicingVars, disksVars, pagesVars, seriesVars>>
  \/ subject = "releases" /\ R!Next
     /\ UNCHANGED <<subject, backupsVars, savesVars, auditVars, offersVars,
                    outputVars, servicingVars, disksVars, pagesVars, seriesVars>>
  \/ subject = "output" /\ D!Next
     /\ UNCHANGED <<subject, backupsVars, savesVars, auditVars, offersVars,
                    releasesVars, servicingVars, disksVars, pagesVars, seriesVars>>
  \/ subject = "servicing" /\ G!Next
     /\ UNCHANGED <<subject, backupsVars, savesVars, auditVars, offersVars,
                    releasesVars, outputVars, disksVars, pagesVars, seriesVars>>
  \/ subject = "disks" /\ E!Next
     /\ UNCHANGED <<subject, backupsVars, savesVars, auditVars, offersVars,
                    releasesVars, outputVars, servicingVars, pagesVars, seriesVars>>
  \/ subject = "pages" /\ P!Next
     /\ UNCHANGED <<subject, backupsVars, savesVars, auditVars, offersVars,
                    releasesVars, outputVars, servicingVars, disksVars, seriesVars>>
  \/ subject = "series" /\ T!Next
     /\ UNCHANGED <<subject, backupsVars, savesVars, auditVars, offersVars,
                    releasesVars, outputVars, servicingVars, disksVars, pagesVars>>

Spec == Init /\ [][Next]_vars

---------------------------------------------------------------------------
(* Backups: what a repair found before it changed a value can be put back  *)
(* by a rollback, however repairs, rollbacks and edits follow each other,  *)
(* and no rollback imports what WinMedic did not write.                    *)
RollsBack ==
  subject = "backups" => B!CanBeRolledBack /\ B!OnlyWhatWasBackedUp

(* Saves, AuditLog, CrashOffers: settings and scans are never half written *)
(* and a broken file is never lost, what was logged stays in order, and    *)
(* each crash is offered once, whoever writes and dies in between, with    *)
(* the exceptions named there.                                             *)
NothingIsLost ==
  /\ subject = "saves" => S!SavedWhole
  /\ subject = "audit" => A!EntriesStay
  /\ subject = "crashes" => C!OfferedOnce

(* Decoding: however the output of a command is cut into pieces, its lines *)
(* come out whole, in order and all of them.                               *)
LinesHoweverCut == subject = "output" => D!LinesHoweverCut

(* Releases: an update is a higher version by SemVer and was vouched for,  *)
(* and no final release that is newer is kept back.                        *)
UpdatesGoForward == R!UpdatesGoForward

(* Pages: the score, the badges, the cursor and what Easy mode says agree  *)
(* with the findings.                                                      *)
PagesAgree == subject = "pages" => P!PagesAgree

(* Rollbacks, StorageErrors, Timeline, Pages: what is told of a log is     *)
(* what Windows wrote, although only ends, newest events or what was not   *)
(* cleared is read while it goes on being written; and what the page       *)
(* promised of Repair comes true.                                          *)
TellsTheTruth ==
  /\ G!CheckTellsWhatStands /\ E!NoLossIsHidden /\ P!PromiseIsKept
  /\ [][subject = "series" => T!WhatChangedIsTrue]_vars
============================================================================
