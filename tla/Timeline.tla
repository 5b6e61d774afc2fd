------------------------------ MODULE Timeline ------------------------------
(***************************************************************************)
(* modules/crash_timeline.rs and what crash_analysis.rs reads for it: what *)
(* changed in the week before a series of crashes began, and the restore   *)
(* point to go back to. It is read from logs that go on being written and  *)
(* may have been cleared, on a PC where a tool may register its driver     *)
(* again at every start.                                                   *)
(***************************************************************************)
EXTENDS Integers, FiniteSets, FiniteSetsExt

CONSTANTS
  Same,          \* SAME_CRASH_MINUTES
  Week,          \* WEEK_DAYS
  Series,        \* SERIES_DAYS
  MaxChanges,    \* MAX_CHANGES
  Installs,      \* what is installed, of InstallKinds
  Cleared,       \* the logs somebody may clear
  MaxDate,       \* bound
  MaxHappenings  \* bound

MinSeries == 2
InstallKinds == {"update", "signature", "driver", "program"}
EventLogs == {"system", "application"}

TimelineAssumption ==
  /\ {Same, Week, Series, MaxChanges, MaxDate, MaxHappenings} \subseteq Nat
  /\ Installs \subseteq InstallKinds /\ Cleared \subseteq EventLogs

VARIABLES
  date,
  recorded,   \* per log, its events
  begins,     \* per log, when its oldest event was logged
  points,     \* when restore points were made
  installed   \* history: when each of Installs was installed, or registered again,
              \* whatever became of the log

vars == <<date, recorded, begins, points, installed>>

Never == -1
LogOf(what) == IF what = "program" THEN "application" ELSE "system"

Init ==
  /\ date = 0 /\ points = {}
  /\ recorded = [l \in EventLogs |-> {}]
  /\ begins = [l \in EventLogs |-> -(Week + 1)]
  /\ installed = [i \in Installs |-> {}]

(* Bound: what is still on record.                                         *)
Happenings ==
  Cardinality(recorded["system"]) + Cardinality(recorded["application"]) + Cardinality(points)
  + Cardinality({l \in EventLogs : begins[l] >= 0})

Record(what) ==
  recorded' = [recorded EXCEPT ![LogOf(what)] = @ \cup {[what |-> what, at |-> date]}]

---------------------------------------------------------------------------
DatePasses ==
  /\ date < MaxDate /\ date' = date + 1
  /\ UNCHANGED <<recorded, begins, points, installed>>

WindowsCrashes ==
  /\ Happenings < MaxHappenings
  /\ Record("crash")
  /\ UNCHANGED <<date, begins, points, installed>>

(* An update or a program, once; a driver, at every start of its program;  *)
(* signatures, again and again.                                            *)
Install(i) ==
  /\ Happenings < MaxHappenings
  /\ i \in {"update", "program"} => installed[i] = {}
  /\ Record(i)
  /\ installed' = [installed EXCEPT ![i] = IF i = "signature" THEN @ ELSE @ \cup {date}]
  /\ UNCHANGED <<date, begins, points>>

MakePoint ==
  /\ Happenings < MaxHappenings
  /\ points' = points \cup {date}
  /\ UNCHANGED <<date, recorded, begins, installed>>

Clear(l) ==
  /\ begins[l] < 0                                            \* bound: once
  /\ recorded' = [recorded EXCEPT ![l] = {}]
  /\ begins' = [begins EXCEPT ![l] = date]
  /\ UNCHANGED <<date, points, installed>>

Next ==
  \/ DatePasses
  \/ WindowsCrashes
  \/ \E i \in Installs : Install(i)
  \/ MakePoint
  \/ \E l \in Cleared : Clear(l)

Spec == Init /\ [][Next]_vars

---------------------------------------------------------------------------
(* When events of one kind were logged.                                    *)
Logged(what) == {e.at : e \in {e \in recorded[LogOf(what)] : e.what = what}}

(* first_of_series: crash events closer together than Same are one crash.  *)
CrashesOf(times) ==
  Cardinality({t \in times : \A u \in times : u < t => t - u > Same})

FirstOfSeries ==
  LET times == {t \in Logged("crash") : date - t <= Series}
  IN  IF CrashesOf(times) >= MinSeries THEN Min(times) ELSE Never

WeekBefore(first) == first - Week

(* Defender's signatures and the apps of the Store are no updates.         *)
Updates == [what : {"update"}, at : Logged("update")]

(* new_drivers, new_programs: each at its first install up to the crash.   *)
FirstInstall(what, first) ==
  LET times == {t \in Logged(what) : t <= first}
  IN  IF times = {} THEN {} ELSE {[what |-> what, at |-> Min(times)]}

(* Only a log that began before the week can tell a new driver.            *)
NewDrivers(first) ==
  IF begins["system"] < WeekBefore(first) THEN FirstInstall("driver", first) ELSE {}

NewPrograms(first) == FirstInstall("program", first)

(* before: of the week before the first crash, those closest to it; of the *)
(* same time, those read last.                                             *)
ReadIn == [update |-> 1, driver |-> 2, program |-> 3]

Before(first, changes) ==
  LET week == {c \in changes : c.at >= WeekBefore(first) /\ c.at <= first}
      Behind(d, c) == d.at > c.at \/ (d.at = c.at /\ ReadIn[d.what] > ReadIn[c.what])
  IN  {c \in week : Cardinality({d \in week : Behind(d, c)}) < MaxChanges}

(* None when the list could not be read.                                   *)
RestorePoints(answered) == IF "points" \in answered THEN points ELSE {}

(* The newest from before the first crash; with no change listed, none     *)
(* that is older than the week.                                            *)
PointBefore(first, readable, changes) ==
  LET older == {p \in readable : p < first /\ (changes = {} => p >= WeekBefore(first))}
  IN  IF older = {} THEN Never ELSE Max(older)

(* finding: lays the week out, and names the point.                        *)
Told(first, changes, point) == [first |-> first, changes |-> changes, point |-> point]

Nothing == Told(Never, {}, Never)

(* what_changed, when these queries are answered.                          *)
WhatChanged(answered) ==
  LET first == FirstOfSeries
      changes == Before(first, (IF "updates" \in answered THEN Updates ELSE {})
                               \cup (IF "drivers" \in answered THEN NewDrivers(first) ELSE {})
                               \cup (IF "programs" \in answered THEN NewPrograms(first) ELSE {}))
      point == PointBefore(first, RestorePoints(answered), changes)
  IN  IF first = Never \/ (changes = {} /\ point = Never) THEN Nothing
      ELSE Told(first, changes, point)

Answered == {"updates", "drivers", "programs", "points"}

---------------------------------------------------------------------------
(* crash_timeline.rs "Tools that load a driver while they run register it  *)
(* again on every start, so only the first event of a service is a         *)
(* change": nothing is listed that was there before, as far as the logs    *)
(* still tell; a driver not even when its earlier events were cleared, but *)
(* for one whose program was not started in the whole week before. And     *)
(* with all queries answered nothing of the week is missing that the log   *)
(* was not too short for.                                                  *)
OnlyNewIsListed ==
  \A answered \in SUBSET Answered :
    LET told == WhatChanged(answered)
    IN  \A c \in told.changes :
          /\ Min(installed[c.what]) > begins[LogOf(c.what)] => Min(installed[c.what]) = c.at
          /\ c.what = "driver" =>
               \A t \in installed["driver"] : t < c.at => t < WeekBefore(told.first)

NothingNewIsMissing ==
  LET told == WhatChanged(Answered)
      New(i) == LET first == Min(installed[i])
                IN  /\ first > begins[LogOf(i)]
                    /\ first >= WeekBefore(told.first) /\ first <= told.first
                    /\ i = "driver" => begins["system"] < WeekBefore(told.first)
  IN  told # Nothing =>
        \A i \in {i \in Installs : installed[i] # {}} :
          New(i) => \/ \E c \in told.changes : c.what = i
                    \/ Cardinality(told.changes) >= MaxChanges

(* What a scan told stays what scans tell, whatever is installed, made or  *)
(* crashes after the first crash, until that is too long ago or a log is   *)
(* cleared.                                                                *)
StaysTold ==
  LET told == WhatChanged(Answered)
  IN  (/\ told # Nothing
       /\ date > told.first /\ date' - told.first <= Series
       /\ begins' = begins) => WhatChanged(Answered)' = told

WhatChangedIsTrue == OnlyNewIsListed' /\ NothingNewIsMissing' /\ StaysTold
=============================================================================
