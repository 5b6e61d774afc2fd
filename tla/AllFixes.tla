----------------------------- MODULE AllFixes -----------------------------
(***************************************************************************)
(* The checks and repairs of modules/*.rs, one part of Windows per         *)
(* behaviour: scans and repairs of what they found, in any order, with     *)
(* cancellations, and with Windows restarting and somebody else putting    *)
(* things right in between.                                                *)
(***************************************************************************)
EXTENDS Fixes

CONSTANT Looked   \* the parts to look at

T == INSTANCE Tweaks
N == INSTANCE Network
S == INSTANCE Startup
H == INSTANCE Hardware
C == INSTANCE Cleaner
I == INSTANCE Integrity
U == INSTANCE Upkeep
K == INSTANCE Crashes

Parts == T!Parts \cup N!Parts \cup S!Parts \cup H!Parts \cup C!Parts
         \cup I!Parts \cup U!Parts \cup K!Parts

ASSUME LookedAssumption == Looked \subseteq Parts

---------------------------------------------------------------------------
(* What each module says of its parts.                                     *)

Begin(p) ==
  CASE p \in T!Parts -> T!Begin(p)
    [] p \in N!Parts -> N!Begin(p)
    [] p \in S!Parts -> S!Begin(p)
    [] p \in H!Parts -> H!Begin(p)
    [] p \in C!Parts -> C!Begin(p)
    [] p \in I!Parts -> I!Begin(p)
    [] p \in U!Parts -> U!Begin(p)
    [] p \in K!Parts -> K!Begin(p)

About ==
  CASE part \in T!Parts -> T!About(part)
    [] part \in N!Parts -> N!About(part)
    [] part \in S!Parts -> S!About(part)
    [] part \in H!Parts -> H!About(part)
    [] part \in C!Parts -> C!About(part)
    [] part \in I!Parts -> I!About(part)
    [] part \in U!Parts -> U!About(part)
    [] part \in K!Parts -> K!About(part)

Findings(s, answered) ==
  CASE part \in T!Parts -> T!Findings(part, s, answered)
    [] part \in N!Parts -> N!Findings(part, s, answered)
    [] part \in S!Parts -> S!Findings(part, s, answered)
    [] part \in H!Parts -> H!Findings(part, s, answered)
    [] part \in C!Parts -> C!Findings(part, s, answered)
    [] part \in I!Parts -> I!Findings(part, s, answered)
    [] part \in U!Parts -> U!Findings(part, s, answered)
    [] part \in K!Parts -> K!Findings(part, s, answered)

Found(s) == Findings(s, About.queries)

(* What is wrong with Windows, though a scan that hears less may put it    *)
(* less exactly; a finding that is not among it is invented.               *)
Faults(s) ==
  Found(s)
  \cup CASE part \in N!Parts -> N!LessExactly(part, s)
         [] part \in S!Parts -> S!LessExactly(part, s)
         [] part \in H!Parts -> H!LessExactly(part, s)
         [] part \in K!Parts -> K!LessExactly(part, s)
         [] OTHER -> {}

Restarted(s) ==
  CASE part \in T!Parts -> T!Restarted(part, s)
    [] part \in N!Parts -> N!Restarted(part, s)
    [] part \in S!Parts -> S!Restarted(part, s)
    [] part \in H!Parts -> H!Restarted(part, s)
    [] part \in C!Parts -> C!Restarted(part, s)
    [] part \in I!Parts -> I!Restarted(part, s)
    [] part \in U!Parts -> U!Restarted(part, s)
    [] part \in K!Parts -> K!Restarted(part, s)

Elsewhere(s) ==
  CASE part \in T!Parts -> T!Elsewhere(part, s)
    [] part \in N!Parts -> N!Elsewhere(part, s)
    [] part \in S!Parts -> S!Elsewhere(part, s)
    [] part \in H!Parts -> H!Elsewhere(part, s)
    [] part \in C!Parts -> C!Elsewhere(part, s)
    [] part \in I!Parts -> I!Elsewhere(part, s)
    [] part \in U!Parts -> U!Elsewhere(part, s)
    [] part \in K!Parts -> K!Elsewhere(part, s)

Touches(f) ==
  CASE part \in T!Parts -> T!Touches(part, f)
    [] part \in N!Parts -> N!Touches(part, f)
    [] part \in S!Parts -> S!Touches(part, f)
    [] part \in H!Parts -> H!Touches(part, f)
    [] part \in U!Parts -> U!Touches(part, f)

(* What a scan changes by itself, and what a repair still does that is     *)
(* dropped where it is.                                                    *)
Scanned(s, answered) == IF part \in C!Parts THEN C!Scanned(part, s, answered) ELSE s

Dropped(s) ==
  CASE part \in H!Parts -> {H!Dropped(part, s)}
    [] part \in C!Parts -> C!Dropped(part, s)
    [] part \in I!Parts -> I!Dropped(part, s)
    [] OTHER -> {s}

(* What a repair borrows and gives back when it ends.                      *)
Lent(s) == IF part \in I!Parts THEN I!Lent(part, s) ELSE {}

(* What the repair of f must leave alone.                                  *)
Kept(f, s) ==
  CASE part = "hosts" -> T!KeptHosts(s)
    [] part \in C!Parts -> C!Kept(part, f, s)
    [] part \in I!Parts -> I!Kept(part, f, s)
    [] part \in K!Parts -> K!Kept(part, f, s)
    [] OTHER -> [i \in DOMAIN s \ Touches(f) |-> s[i]]

FixIt(f) ==
  \/ part \in T!Parts /\ T!Fix(f)
  \/ part \in N!Parts /\ N!Fix(f)
  \/ part \in S!Parts /\ S!Fix(f)
  \/ part \in H!Parts /\ H!Fix(f)
  \/ part \in C!Parts /\ C!Fix(f)
  \/ part \in I!Parts /\ I!Fix(f)
  \/ part \in U!Parts /\ U!Fix(f)
  \/ part \in K!Parts /\ K!Fix(f)

---------------------------------------------------------------------------
Init ==
  /\ part \in Looked
  /\ config \in Configs
  /\ setting \in Begin(part)
  /\ saved = {} /\ reported = {} /\ repair = NoRepair /\ count = 0
  /\ report = [finding |-> NoFinding, how |-> "none"]
  /\ before = setting /\ first = setting /\ done = {}

(* A scan, in which some queries are not answered.                         *)
Scan ==
  /\ Idle
  /\ \E answered \in SUBSET About.queries :
       /\ reported' = Findings(setting, answered)
       /\ setting' = Scanned(setting, answered)
  /\ UNCHANGED <<part, config, saved, repair, count, report, before, first, done>>

StartRepair(f) ==
  /\ Idle /\ count < MaxRepairs
  /\ f \notin About.advice
  /\ repair' = [NoRepair EXCEPT !.finding = f]
  /\ count' = count + 1
  /\ reported' = reported \ {f}
  /\ before' = setting
  /\ UNCHANGED <<part, config, setting, saved, report, first, done>>

Fix ==
  /\ ~Idle
  /\ FixIt(repair.finding)
  /\ UNCHANGED around

(* The run of repairs is cancelled: the repair is dropped where it awaits. *)
Cancel ==
  /\ ~Idle
  /\ \E s \in Dropped(setting) : End(s, saved, "cancelled")
  /\ UNCHANGED around

(* Windows becomes s by itself, while no repair is at work.                *)
Becomes(s) ==
  /\ Idle /\ s # setting
  /\ setting' = s
  /\ first' = [i \in DOMAIN s |-> IF s[i] # setting[i] THEN s[i] ELSE first[i]]
  /\ UNCHANGED <<part, config, saved, repair, count, report, before, done>>

Restart == Becomes(Restarted(setting)) /\ reported' = {}

(* Somebody changes what was reported before it is repaired.               *)
SomebodyElse ==
  /\ reported # {}
  /\ \E s \in Elsewhere(setting) : Becomes(s)
  /\ UNCHANGED reported

Next ==
  \/ Scan
  \/ \E f \in reported : StartRepair(f)
  \/ Fix
  \/ Cancel
  \/ Restart
  \/ SomebodyElse

Spec == Init /\ [][Next]_vars

---------------------------------------------------------------------------
(* What a finding that waits for a restart, or the next update, is judged  *)
(* by.                                                                     *)
Later(f) == IF f \in About.restart THEN Restarted(setting) ELSE setting

(* Where the repair may have done all it can and is reported done, though  *)
(* what was found is still there: a program held open some of the files    *)
(* that others were deleted beside; the memory is smaller than the default *)
(* threshold; it fails its test, or it is not known whether the test came  *)
(* after the crashes.                                                      *)
BeyondRepair(f) ==
  CASE part \in {"temp", "cache", "delivery", "downloads"} ->
         setting[part] \subseteq C!Held /\ (Idle => before[part] \ C!Held # {})
    [] part = "threshold" -> setting.memory = "small"
    [] part = "whea" -> f # "pcie" /\ setting.ram # "good"
    [] part = "bluescreen" -> setting.ram # "good" \/ setting.time = "unknown"
    [] OTHER -> FALSE

(* docs/how-it-works.md, "A repaired finding stays repaired": what a       *)
(* repair reported done, and what advice leaves to a restart, is not found *)
(* by a scan that hears every answer, if need be after that restart or     *)
(* update, whatever was repaired since - but for BeyondRepair, and but for *)
(* "unproved" repairs, which are not in done.                              *)
RepairedStaysRepaired ==
  \A f \in done \cup (About.advice \cap About.restart) :
    f \in Found(Later(f)) => BeyondRepair(f)

(* As the document and system_cleaner.rs ("A sweep that removed nothing    *)
(* while every candidate was locked is not a successful repair") have it.  *)
(* The code does not keep it, nor do the updates, whose next scan finds    *)
(* them until one installs.                                                *)
EveryRepairedStaysRepaired ==
  \A f \in done \cup Finding(report.finding, report.how = "unproved") :
    f \notin Found(IF part = "updates" THEN setting ELSE Later(f))

(* A query that is not answered leads to a missed finding rather than an   *)
(* invented one (docs/how-it-works.md).                                    *)
NothingInvented == [][~(reported' \subseteq reported) => reported' \subseteq Faults(setting)]_vars

(* Whatever a repair has changed of what it backs up can be put back to    *)
(* what it was before WinMedic came, also when the repair failed or was    *)
(* cancelled halfway.                                                      *)
BackedUpFirst ==
  \A i \in About.backedUp :
    (config.auto_backup_registry \/ About.always) /\ setting[i] # first[i]
      => <<i, first[i]>> \in saved

(* A repair changes nothing but what its finding named, at no time, and    *)
(* gives back what it borrowed, however it ends.                           *)
OnlyWhatWasReported ==
  [][~Idle => /\ Kept(repair.finding, setting') = Kept(repair.finding, before)
              /\ repair' = NoRepair => Lent(setting') = Lent(before)]_vars

(* A repair that looks again changes nothing when somebody has put its     *)
(* finding right since the scan.                                           *)
PutRightIsLeftAlone ==
  [][~Idle /\ repair.finding \in About.again \ Faults(before) => setting' = before]_vars

(* A repair that reports that nothing was changed has changed nothing.     *)
UnchangedMeansUnchanged ==
  [][~Idle /\ repair' = NoRepair /\ report'.how = "unchanged" => setting' = before]_vars

(* What WinMedic says is so: what it finds is there, and of a repair that  *)
(* says so nothing was changed (runner.rs, RepairError::unchanged).        *)
ReportsAreTrue == NothingInvented /\ UnchangedMeansUnchanged
===========================================================================
