------------------------------ MODULE Startup ------------------------------
(***************************************************************************)
(* What Windows starts with: modules/page_file.rs, registry_startup.rs and *)
(* clock_restart.rs.                                                       *)
(***************************************************************************)
EXTENDS Fixes

Parts == {"pagefile", "autostart", "clock", "restart"}

---------------------------------------------------------------------------
(* files: what PagingFiles and the page file's sizes say, of one drive;    *)
(* active: a page file is in use since the start; full: its drive is.      *)

PageFile == [files : {"missing", "none", "automatic", "managed", "small", "inverted", "fine"},
             active : BOOLEAN, full : BOOLEAN]

(* PagingFiles is there and empty; one that is missing says nothing.       *)
NoPageFile(s) == s.files = "none"

FullDrive(s, answered) == {"usage", "disks"} \subseteq answered /\ s.active /\ s.full

(* A size of its own whose limit is below what the memory calls for, or    *)
(* below its own start.                                                    *)
UnusableSize(s, answered) == "settings" \in answered /\ s.files \in {"small", "inverted"}

PageFileFindings(s, answered) ==
  IF "registry" \notin answered THEN {}
  ELSE Finding("disabled", NoPageFile(s))
       \cup Finding("lowspace", FullDrive(s, answered))
       \cup Finding("fixedsize", UnusableSize(s, answered))

EnableAutomaticManagement == LastCommand(With("files", "automatic"))

(* Whatever sizes the page file of the drive has by now.                   *)
SetSystemManaged ==
  LastCommand(With("files", IF setting.files \in {"small", "inverted", "fine"}
                            THEN "managed" ELSE setting.files))

---------------------------------------------------------------------------
(* Run values of the user, My_Tool and "My Tool", whose findings share one *)
(* id, and one of the machine. unproven: its program is not there, but on  *)
(* no fixed drive of this PC.                                              *)

RunKeys == [user |-> {"My_Tool", "My Tool"}, machine |-> {"Updater"}]

Autostart == [{"My_Tool", "My Tool", "Updater"} -> {"none", "works", "orphaned", "unproven"}]

MissingTargets(s, key) == {name \in RunKeys[key] : s[name] = "orphaned"}

OrphanedStarts(s, answered) ==
  {key \in {"user", "machine"} \cap answered : MissingTargets(s, key) # {}}

RemoveOrphans(key) ==
  \/ /\ At("begin")
     /\ \/ NoAnswer
        \/ MissingTargets(setting, key) = {} /\ Return("done")
        \/ /\ MissingTargets(setting, key) # {}
           /\ Take(MissingTargets(setting, key), "backup")
  \/ At("backup") /\ BackUp(RunKeys[key], "delete")
  \/ At("delete") /\ LET Deleted(name) == With(name, "none") IN Each(Deleted, "read")
  \/ At("read") /\ ReadBack(MissingTargets(setting, key) = {})

---------------------------------------------------------------------------
(* The clock and the time service that sets it, if the time server answers *)
(* then.                                                                   *)

Clock == [clock : {"right", "off"}, start : {"auto", "disabled"}, running : BOOLEAN]

ClockFindings(s, answered) == Finding("clock", "server" \in answered /\ s.clock = "off")

FixClock ==
  \/ /\ At("begin")
     /\ \/ NoAnswer
        \/ setting.start = "disabled" /\ Return("unchanged")
        \/ /\ setting.start # "disabled"
           /\ IF config.auto_restart_services THEN Go("start") ELSE Go("state")
  \/ At("start") /\ Ignored(With("running", TRUE), "resync")
  \/ /\ At("state")
     /\ \/ NoAnswer
        \/ ~setting.running /\ Return("unchanged")
        \/ setting.running /\ Go("resync")
  \/ At("resync") /\ Ignored(With("clock", IF setting.running THEN "right" ELSE setting.clock),
                             "measure")
  \/ At("measure") /\ ReadBack(setting.clock = "right")

---------------------------------------------------------------------------
(* Windows up for two weeks. Without Fast Startup that is only advice.     *)

Uptime == [up : {"short", "long"}, hiberboot : BOOLEAN, policy : BOOLEAN, hibernation : BOOLEAN]

FastStartup(s) == (s.policy \/ s.hiberboot) /\ s.hibernation

RestartFindings(s, answered) ==
  IF s.up = "short" THEN {}
  ELSE IF "registry" \in answered /\ FastStartup(s) THEN {"overdue"} ELSE {"restartadvice"}

FixRestart ==
  \/ /\ At("begin")
     /\ \/ NoAnswer
        \/ ~FastStartup(setting) /\ Return("done")
        \/ FastStartup(setting) /\ setting.policy /\ Return("unchanged")
        \/ FastStartup(setting) /\ ~setting.policy /\ Go("backup")
  \/ At("backup") /\ BackUp({"hiberboot"}, "write")
  \/ At("write") /\ Command(With("hiberboot", FALSE), "read")
  \/ At("read") /\ ReadBack(~FastStartup(setting))

---------------------------------------------------------------------------
Begin(p) ==
  CASE p = "pagefile" -> PageFile
    [] p = "autostart" -> Autostart
    [] p = "clock" -> Clock
    [] p = "restart" -> Uptime

About(p) ==
  CASE p = "pagefile" ->
         [AnyPart EXCEPT !.queries = {"registry", "usage", "settings", "disks"},
                         !.advice = {"lowspace"},
                         !.restart = {"disabled", "fixedsize"}]
    [] p = "autostart" ->
         [AnyPart EXCEPT !.queries = {"user", "machine"},
                         !.again = {"user", "machine"},
                         !.backedUp = {"My_Tool", "My Tool", "Updater"}]
    [] p = "clock" ->
         [AnyPart EXCEPT !.queries = {"server"}]
    [] p = "restart" ->
         [AnyPart EXCEPT !.queries = {"registry"}, !.advice = {"restartadvice"},
                         !.restart = {"overdue"}, !.again = {"overdue"},
                         !.backedUp = {"hiberboot"}]

Findings(p, s, answered) ==
  CASE p = "pagefile" -> PageFileFindings(s, answered)
    [] p = "autostart" -> OrphanedStarts(s, answered)
    [] p = "clock" -> ClockFindings(s, answered)
    [] p = "restart" -> RestartFindings(s, answered)

(* That the restart is overdue is true also when it is not known why.      *)
LessExactly(p, s) == IF p = "restart" /\ s.up = "long" THEN {"restartadvice"} ELSE {}

Restarted(p, s) ==
  CASE p = "pagefile" -> [s EXCEPT !.active = s.files # "none"]
    [] p = "restart" -> [s EXCEPT !.up = "short"]
    [] OTHER -> s

(* Somebody sets a page file up, installs a program again or deletes its   *)
(* value, or turns Fast Startup off.                                       *)
Elsewhere(p, s) ==
  CASE p = "pagefile" -> {[s EXCEPT !.files = "fine"]}
    [] p = "autostart" -> {[s EXCEPT !["My Tool"] = "works"], [s EXCEPT !["Updater"] = "none"]}
    [] p = "clock" -> {[s EXCEPT !.clock = "right"]}
    [] p = "restart" -> {[s EXCEPT !.hiberboot = FALSE]}

(* A Run value whose program is there, or may be, is not touched.          *)
Touches(p, f) ==
  CASE p = "pagefile" -> {"files"}
    [] p = "autostart" -> MissingTargets(before, f)
    [] p = "clock" -> {"clock", "running"}
    [] p = "restart" -> {"hiberboot"}

Fix(f) ==
  CASE part = "pagefile" -> IF f = "disabled" THEN EnableAutomaticManagement ELSE SetSystemManaged
    [] part = "autostart" -> RemoveOrphans(f)
    [] part = "clock" -> FixClock
    [] part = "restart" -> FixRestart
===========================================================================
