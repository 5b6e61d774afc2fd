------------------------------ MODULE Crashes ------------------------------
(***************************************************************************)
(* What crashes leave behind: modules/crash_analysis.rs, event_log.rs,     *)
(* crash_timeline.rs and shell_extensions.rs.                              *)
(***************************************************************************)
EXTENDS Fixes

Parts == {"bluescreen", "dumps", "addon"}

---------------------------------------------------------------------------
(* Blue screens by the class of their stop code, and a loss of power       *)
(* without one; when the memory crashes were, next to the last memory      *)
(* test; whether the memory would pass the next one; what changed in the   *)
(* week before. Of some crashes the time is not known.                     *)

Classes == {"memory", "video", "other", "power"}

BlueScreens ==
  [crashes : SUBSET Classes, time : {"before", "after", "unknown"},
   test : {"none", "passed", "failed"}, ram : {"good", "defective"}, changed : BOOLEAN]

(* A test that passed after all of the crashes has been run, so the        *)
(* finding is advice.                                                      *)
MemoryTestFinding(s, answered) ==
  IF "test" \in answered /\ s.test = "passed" /\ s.time = "before" THEN "memoryadvice" ELSE "memory"

Advice == [video |-> "gpu", other |-> "history", power |-> "shutdown"]

(* What is known of crashes, from the log and the dumps.                   *)
Collected(s, answered) == IF "crashes" \in answered THEN s.crashes ELSE {}

(* What changed before the first of at least two crashes.                  *)
Changed(s, answered) ==
  "changes" \in answered /\ s.changed /\ Cardinality(Collected(s, answered)) >= 2

CrashFindings(s, answered) ==
  LET crashes == Collected(s, answered)
  IN  {Advice[c] : c \in crashes \cap DOMAIN Advice}
      \cup (IF "memory" \in crashes THEN {MemoryTestFinding(s, answered)} ELSE {})
      \cup Finding("changed", Changed(s, answered))

ScheduleMemoryTest == LastCommand(With("test", "scheduled"))

Tested(s) ==
  IF s.test # "scheduled" THEN s
  ELSE [s EXCEPT !.test = IF s.ram = "good" THEN "passed" ELSE "failed",
                 !.time = IF @ = "unknown" THEN "unknown" ELSE "before"]

---------------------------------------------------------------------------
(* Crash dumps: old ones, those of them a program holds open, and ones new *)
(* enough to be evidence. Above TooMany old ones they are a finding.       *)

TooMany == 1
OldDumps == {"kernel1", "kernel2", "user"}
Dumps == {s \in [old : SUBSET OldDumps, held : SUBSET {"user"}, recent : {{}, {"new"}}] :
            s.held \subseteq s.old}

StaleDumps(s, answered) == Finding("dumps", Cardinality(s.old) > TooMany)

(* The script goes on past one it cannot delete and says how many it left. *)
DeleteStaleDumps ==
  \/ End(With("old", setting.held), saved, IF setting.held = {} THEN "done" ELSE "failed")
  \/ \E rest \in SUBSET setting.old :
       setting.held \subseteq rest /\ End(With("old", rest), saved, "failed")

---------------------------------------------------------------------------
(* A program's add-on that crashed Explorer at least twice in 30 days; the *)
(* classes it is registered under, and the list of blocked ones, which may *)
(* not be there yet and may hold what somebody else put in.                *)

NoKey == {"no key"}
Addon == [crashed : BOOLEAN, registered : SUBSET {"a", "b"},
          blocked : {NoKey, {}, {"a"}, {"other"}, {"a", "other"}}]

LeftToBlock(s) == s.registered \ s.blocked

(* A registry that cannot be read leaves the crashes standing.             *)
ShellExtensions(s, answered) ==
  Finding("addon", /\ "crashes" \in answered /\ s.crashed
                   /\ "registry" \in answered => LeftToBlock(s) # {})

Blocking(c) == With("blocked", (setting.blocked \ NoKey) \cup {c})

(* Asks again, backs up a list that is there whatever the user chose, adds *)
(* class after class and reads the list back.                              *)
BlockAddon ==
  \/ At("begin") /\ NoAnswer
  \/ At("begin") /\ (~setting.crashed \/ LeftToBlock(setting) = {}) /\ Return("unchanged")
  \/ At("begin") /\ setting.crashed /\ LeftToBlock(setting) # {}
     /\ Take(LeftToBlock(setting), IF setting.blocked = NoKey THEN "block" ELSE "backup")
  \/ At("backup") /\ Return("unchanged")
  \/ At("backup") /\ Step(setting, Saving({"blocked"}), "block", repair.left)
  \/ At("block") /\ Each(Blocking, "read")
  \/ At("read") /\ ReadBack(LeftToBlock(setting) = {})

---------------------------------------------------------------------------
Begin(p) ==
  CASE p = "bluescreen" -> BlueScreens
    [] p = "dumps" -> Dumps
    [] p = "addon" -> Addon

About(p) ==
  CASE p = "bluescreen" ->
         [AnyPart EXCEPT !.queries = {"crashes", "test", "changes"}, !.restart = {"memory"},
                         !.advice = {"memoryadvice", "gpu", "history", "shutdown", "changed"}]
    [] p = "dumps" -> AnyPart
    [] p = "addon" ->
         [AnyPart EXCEPT !.queries = {"crashes", "registry"}, !.again = {"addon"}, !.always = TRUE,
                         !.backedUp = IF first.blocked = NoKey THEN {} ELSE {"blocked"}]

Findings(p, s, answered) ==
  CASE p = "bluescreen" -> CrashFindings(s, answered)
    [] p = "dumps" -> StaleDumps(s, answered)
    [] p = "addon" -> ShellExtensions(s, answered)

(* What stays on offer when it is not known whether it was done.           *)
LessExactly(p, s) ==
  CASE p = "bluescreen" -> Finding("memory", "memory" \in s.crashes)
    [] p = "addon" -> Finding("addon", s.crashed)
    [] OTHER -> {}

Restarted(p, s) == IF p = "bluescreen" THEN Tested(s) ELSE s

(* The program is uninstalled, or its crashes leave the log.               *)
Elsewhere(p, s) ==
  CASE p = "dumps" -> {[s EXCEPT !.held = {}]}
    [] p = "addon" -> {[s EXCEPT !.registered = {}], [s EXCEPT !.crashed = FALSE]}
    [] OTHER -> {}

(* New dumps are evidence, and what somebody else blocked stays blocked.   *)
Kept(p, f, s) ==
  CASE p = "bluescreen" -> s.crashes
    [] p = "dumps" -> s.recent
    [] p = "addon" -> s.blocked \ (before.registered \cup NoKey)

Fix(f) ==
  CASE part = "bluescreen" -> ScheduleMemoryTest
    [] part = "dumps" -> DeleteStaleDumps
    [] part = "addon" -> BlockAddon
===========================================================================
