----------------------------- MODULE Hardware -----------------------------
(***************************************************************************)
(* Devices: modules/devices.rs and opengl_driver.rs, and the errors        *)
(* Windows logs of its hardware: whea_logger.rs and event_log.rs.          *)
(***************************************************************************)
EXTENDS Fixes

Parts == {"opengl", "device", "printing", "whea"}

---------------------------------------------------------------------------
(* A graphics card and the files its two OpenGL entries name: there, gone, *)
(* or not where this check would judge it. beside: the entries with a file *)
(* of the same name beside the Direct3D driver.                            *)

Entries == {"wide", "wow"}
Card == [wide : {"there", "gone", "unjudged"}, wow : {"there", "gone"},
         beside : SUBSET Entries, card : {"works", "problem"}]

BrokenEntries(s) == {e \in Entries : s[e] = "gone"}

OpenGlFindings(s, answered) ==
  IF ~({"devices", "key"} \subseteq answered /\ s.card = "works" /\ BrokenEntries(s) # {}) THEN {}
  ELSE IF BrokenEntries(s) \subseteq s.beside THEN {"opengl"} ELSE {"install"}

(* A failed reg add counts as one that changed nothing, also one whose     *)
(* time was over.                                                          *)
SetEntry(e) ==
  LET set == With(e, "there")
      rest == repair.left \ {e}
      isFirst == repair.left = BrokenEntries(before)
  IN  \/ \E s \in {set, setting} : Step(s, saved, IF rest = {} THEN "read" ELSE "set", rest)
      \/ isFirst /\ Return("unchanged")
      \/ isFirst /\ "late" \in Lapses /\ End(set, saved, "unchanged")
      \/ ~isFirst /\ \E s \in {set, setting} : End(s, saved, "failed")

RepairOpenGl ==
  \/ /\ At("begin")
     /\ \/ NoAnswer
        \/ setting.card # "works" /\ Return("done")
        \/ setting.card = "works" /\ Go("key")
  \/ /\ At("key")
     /\ \/ Return("unchanged")
        \/ BrokenEntries(setting) = {} /\ Return("done")
        \/ ~(BrokenEntries(setting) \subseteq setting.beside) /\ Return("unchanged")
        \/ /\ BrokenEntries(setting) # {} /\ BrokenEntries(setting) \subseteq setting.beside
           /\ Take(BrokenEntries(setting), "backup")
  \/ At("backup") /\ BackUp(repair.left, "set")
  \/ At("set") /\ SetEntry(IF "wide" \in repair.left THEN "wide" ELSE "wow")
  \/ At("read") /\ ReadBack(BrokenEntries(setting) = {})

---------------------------------------------------------------------------
(* A device and its problem by what helps against it (remedy): restarting  *)
(* it, finding a driver, only advice, or nothing needs to. An old pnputil  *)
(* can do neither of the first two.                                        *)

Problems == {"none", "restart", "driver", "advice", "gone"}
Device == [problem : Problems \ {"gone"}, excluded : BOOLEAN, pnputil : {"old", "new"}]

DeviceFindings(s, answered) ==
  IF "devices" \notin answered THEN {}
  ELSE LET old == "build" \in answered /\ s.pnputil = "old"
       IN  Finding(IF old THEN "devicemanager" ELSE s.problem, s.problem \in {"restart", "driver"})
           \cup Finding("advice", s.problem = "advice")
           \cup Finding("excluded", s.problem = "driver" /\ "policy" \in answered /\ s.excluded)

(* pnputil says nothing; what the device manager says afterwards counts.   *)
RepairDevice(remedy) ==
  \/ At("begin") /\ LookAgain(setting.problem # remedy, "build")
  \/ /\ At("build")
     /\ \/ setting.pnputil = "old" /\ Return("failed")
        \/ Go("pnputil")
  \/ At("pnputil") /\ \E p \in Problems : Step(With("problem", p), saved, "read", {})
  \/ At("read") /\ ReadBack(setting.problem \in {"none", "gone"})

---------------------------------------------------------------------------
(* The print queue: jobs waiting for a while or for over an hour.          *)
(* ServiceRepairs follows the services step by step.                       *)

Printing == [start : {"auto", "manual", "disabled"}, spooler : {"running", "stopped"},
             jobs : {"none", "fresh", "stuck"}]

PrintingFindings(s, answered) ==
  Finding("queue", /\ {"start", "state"} \subseteq answered
                   /\ s.start # "disabled"
                   /\ \/ "jobs" \in answered /\ s.jobs = "stuck"
                      \/ s.start = "auto" /\ s.spooler = "stopped")

ClearPrintQueue ==
  \/ /\ At("begin")
     /\ IF config.auto_restart_services THEN Go("stop") ELSE Return("unchanged")
  \/ /\ At("stop")
     /\ \/ \E spooler \in {setting.spooler, "running"} : End(With("spooler", spooler), saved, "failed")
        \/ Step(With("spooler", "stopped"), saved, "delete", {})
  \/ /\ At("delete")
     /\ \E left \in {"none", setting.jobs} : Step(With("jobs", left), saved, "start", {})
  \/ At("start") /\ Ignored(With("spooler", "running"), "read")
  \/ At("read") /\ ReadBack(setting.spooler = "running" /\ setting.jobs = "none")

---------------------------------------------------------------------------
(* Hardware errors logged in the last week: of the processor, the memory,  *)
(* PCIe, fatal ones. The last memory test passed after them, found errors, *)
(* waits for the restart or is none that counts. The evidence stays in the *)
(* log whatever is repaired, so what was done makes the finding advice.    *)

ErrorKinds == {"cpu", "memory", "pcie", "fatal"}

Errors == [logged : SUBSET ErrorKinds, ac : {"on", "off"}, dc : {"on", "off"},
           test : {"none", "passed", "failed"},
           ram : {"good", "defective"}]

AspmOff(s) == s.ac = "off" /\ s.dc = "off"

(* Errors a passed memory test answers.                                    *)
TestFindings(s, answered) ==
  LET suspected == s.logged \cap {"cpu", "memory"}
  IN  IF "test" \in answered /\ s.test = "passed"
      THEN Finding("memoryadvice", suspected # {}) ELSE suspected

BusFindings(s, answered) ==
  Finding(IF "aspm" \in answered /\ AspmOff(s) THEN "pcieadvice" ELSE "pcie", "pcie" \in s.logged)

FatalFindings(s) == s.logged \cap {"fatal"}

(* A log that does not answer fails the check; a test that failed is a     *)
(* finding of the events' module.                                          *)
WheaFindings(s, answered) ==
  Finding("memoryfailed", "test" \in answered /\ s.test = "failed")
  \cup IF "events" \in answered
       THEN TestFindings(s, answered) \cup BusFindings(s, answered) \cup FatalFindings(s)
       ELSE {}

ScheduleMemoryTest == LastCommand(With("test", "scheduled"))

SwitchAspmOff ==
  \/ /\ At("begin")
     /\ \/ NoAnswer
        \/ AspmOff(setting) /\ Return("unchanged")
        \/ ~AspmOff(setting) /\ Go("ac")
  \/ At("ac") /\ Command(With("ac", "off"), "dc")
  \/ At("dc") /\ Command(With("dc", "off"), "active")
  \/ At("active") /\ Command(setting, "read")
  \/ At("read") /\ ReadBack(AspmOff(setting))

---------------------------------------------------------------------------
Begin(p) ==
  CASE p = "opengl" -> Card
    [] p = "device" -> Device
    [] p = "printing" -> Printing
    [] p = "whea" -> Errors

About(p) ==
  CASE p = "opengl" ->
         [AnyPart EXCEPT !.queries = {"devices", "key"}, !.advice = {"install"},
                         !.restart = {"opengl"}, !.again = {"opengl"}, !.backedUp = Entries]
    [] p = "device" ->
         [AnyPart EXCEPT !.queries = {"devices", "build", "policy"},
                         !.advice = {"devicemanager", "advice", "excluded"},
                         !.again = {"restart", "driver"}]
    [] p = "printing" ->
         [AnyPart EXCEPT !.queries = {"start", "state", "jobs"}]
    [] p = "whea" ->
         [AnyPart EXCEPT !.queries = {"events", "test", "aspm"},
                         !.advice = {"memoryadvice", "pcieadvice", "fatal", "memoryfailed"},
                         !.restart = {"cpu", "memory"}]

Findings(p, s, answered) ==
  CASE p = "opengl" -> OpenGlFindings(s, answered)
    [] p = "device" -> DeviceFindings(s, answered)
    [] p = "printing" -> PrintingFindings(s, answered)
    [] p = "whea" -> WheaFindings(s, answered)

(* What stays on offer when it is not known whether it was done.           *)
LessExactly(p, s) ==
  CASE p = "device" -> {s.problem} \cap {"restart", "driver"}
    [] p = "whea" -> s.logged \ {"fatal"}
    [] OTHER -> {}

Restarted(p, s) ==
  IF p = "whea" /\ s.test = "scheduled"
  THEN [s EXCEPT !.test = IF s.ram = "good" THEN "passed" ELSE "failed"] ELSE s

(* A driver is installed again, a device unplugged, ASPM switched off.     *)
Elsewhere(p, s) ==
  CASE p = "opengl" -> {[s EXCEPT !.wide = "there", !.wow = "there"], [s EXCEPT !.card = "problem"]}
    [] p = "device" -> {[s EXCEPT !.problem = "gone"], [s EXCEPT !.problem = "advice"]}
    [] p = "printing" -> {[s EXCEPT !.jobs = "none"]}
    [] p = "whea" -> {[s EXCEPT !.ac = "off", !.dc = "off"]}

(* StartAgain: a repair that is dropped starts the spooler again.          *)
Dropped(p, s) ==
  IF p = "printing" /\ repair.at \in {"delete", "start"} THEN [s EXCEPT !.spooler = "running"] ELSE s

(* An entry that names a file, or may, is not touched.                     *)
Touches(p, f) ==
  CASE p = "opengl" -> BrokenEntries(before)
    [] p = "device" -> {"problem"}
    [] p = "printing" -> {"jobs", "spooler"}
    [] p = "whea" -> IF f = "pcie" THEN {"ac", "dc"} ELSE {"test"}

Fix(f) ==
  CASE part = "opengl" -> RepairOpenGl
    [] part = "device" -> RepairDevice(f)
    [] part = "printing" -> ClearPrintQueue
    [] part = "whea" -> IF f = "pcie" THEN SwitchAspmOff ELSE ScheduleMemoryTest
===========================================================================
