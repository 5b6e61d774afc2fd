----------------------------- MODULE Integrity -----------------------------
(***************************************************************************)
(* Windows' own files and what they stand on: modules/system_integrity.rs  *)
(* and install_media.rs.                                                   *)
(***************************************************************************)
EXTENDS Fixes

Parts == {"store", "sfc", "vss", "winre", "wmi", "apps"}

---------------------------------------------------------------------------
(* The component store: what is damaged in it, which Windows Update or an  *)
(* ISO can deliver ("files"), neither can ("newer"), or nobody ever had    *)
(* ("backups"); what DISM's last report in CBS.log and its archives left   *)
(* unrepaired, "cut" when that run did not come to its summary; whether    *)
(* Windows has marked the store corrupt since; and which of the ISOs in    *)
(* Downloads are mounted. CheckHealth repeats what was found last.         *)

Damage == {"files", "newer", "backups"}
NoReport == {"none"}
CutReport == {"cut"}
Isos == {"latest", "older"}

Store ==
  {s \in [damage : SUBSET Damage, report : {NoReport, CutReport} \cup SUBSET Damage,
          marked : BOOLEAN, isos : {{}, {"older"}}] :
     /\ s.marked \/ s.report \notin {NoReport, CutReport} => s.damage # {}
     /\ s.report \cap Damage \subseteq s.damage}

CheckHealth(s) ==
  IF s.marked \/ s.report \notin {NoReport, {}} THEN "repairable" ELSE "healthy"

OnlyBackupsLeft(unrepaired) == unrepaired = {"backups"}

ComponentStore(s, answered) ==
  Finding("store", /\ "dism" \in answered /\ CheckHealth(s) = "repairable"
                   /\ s.marked \/ ~OnlyBackupsLeft(s.report))

(* DISM /RestoreHealth, with what its source delivers: done, the source    *)
(* lacks a file, or anything else.                                         *)
Restored(s, delivered) ==
  [s EXCEPT !.damage = s.damage \ delivered, !.report = s.damage \ delivered, !.marked = FALSE]

(* Mutant: also what was mounted before is unmounted.                      *)
UnmountedAll(s, kept) == [s EXCEPT !.isos = {}]

Unmounted(s, kept) == [s EXCEPT !.isos = @ \cap kept]

RestoreHealth(kept, Missing(_)) ==
  \E delivered \in {{}, {"files"}} :
    LET s == Restored(setting, delivered)
    IN  \/ s.damage = {} /\ End(Unmounted(s, kept), saved, "done")
        \/ OnlyBackupsLeft(s.report) /\ End(Unmounted(s, kept), saved, "done")
        \/ ~OnlyBackupsLeft(s.report) /\ s.damage # {} /\ Missing(s)
        \/ End(Unmounted([setting EXCEPT !.damage = s.damage, !.report = CutReport], kept),
               saved, "failed")

(* From an ISO, when Windows Update cannot deliver. The repair keeps in    *)
(* left which ISOs are not its own to unmount: those mounted before, or    *)
(* all when that is not answered. The search mounts the others and names   *)
(* them. That it fails then, after no answer, is the circumstance "unsaid".*)
RepairStore ==
  \/ At("begin") /\ RestoreHealth(Isos, LAMBDA s : Step(s, saved, "attached", {}))
  \/ At("attached") /\ (Take(setting.isos, "search") \/ Take(Isos, "search"))
  \/ /\ At("search")
     /\ \/ Step([setting EXCEPT !.isos = Isos], saved, "media", setting.isos)
        \/ /\ repair.left # Isos \/ "unsaid" \in Lapses
           /\ End(Unmounted([setting EXCEPT !.isos = Isos], repair.left), saved, "failed")
        \/ Return("failed")
  \/ /\ At("media")
     /\ \/ RestoreHealth(repair.left,
                         LAMBDA s : End(Unmounted(s, repair.left), saved, "failed"))
        \/ End(Unmounted(setting, repair.left), saved, "failed")

---------------------------------------------------------------------------
(* Files SFC checks: those damaged, of which it cannot repair the stuck;   *)
(* those its last run in CBS.log left so; and whether the log still ends   *)
(* in a summary of DISM's that counts more than it repaired.               *)

Sfc == {s \in [damaged : SUBSET {"system", "driver"}, stuck : SUBSET {"system"},
               left : SUBSET {"system", "driver"}, summary : BOOLEAN] :
          s.stuck \cup s.left \subseteq s.damaged}

LogEvidence(s) == s.left # {} \/ s.summary
SfcEvidence(s, answered) == Finding("sfc", LogEvidence(s))

(* What the run of SFC logged: files it could not repair, or none.         *)
SfcOutcome(left) == IF left = {} THEN "done" ELSE "failed"

(* /scannow writes more than the end that is searched for the summary; its *)
(* exit code is left alone, what it logged decides: nothing, or its run.   *)
RunSfc ==
  \/ Return("failed")
  \/ LET s == [setting EXCEPT !.damaged = setting.stuck, !.left = setting.stuck, !.summary = FALSE]
     IN  End(s, saved, SfcOutcome(s.left))
  \/ \E d \in SUBSET setting.damaged :
       /\ setting.stuck \subseteq d
       /\ End([setting EXCEPT !.damaged = d, !.left = @ \cap d], saved, "failed")

---------------------------------------------------------------------------
(* The start type of Volume Shadow Copy, the recovery environment, and the *)
(* classes of WMI that fail.                                               *)

Vss == [vss : {"disabled", "manual"}, running : BOOLEAN]

VssDisabled(s, answered) == Finding("vss", answered # {} /\ s.vss = "disabled")

EnableVss ==
  \/ At("begin") /\ Command(With("vss", "manual"), "start")
  \/ /\ At("start") /\ config.auto_restart_services
     /\ Ignored(With("running", setting.vss # "disabled" \/ setting.running), "read")
  \/ At("start") /\ ~config.auto_restart_services /\ Go("read")
  \/ At("read") /\ ReadBack(setting.vss # "disabled")

WinRe == [winre : {"on", "off", "unread"}]

WinReDisabled(s, answered) == Finding("winre", s.winre = "off")

EnableWinRe ==
  \/ At("begin") /\ Ignored(With("winre", "on"), "read")
  \/ At("begin") /\ NoAnswer
  \/ At("read") /\ Return(IF setting.winre = "on" THEN "done" ELSE "failed")

Wmi == [failing : SUBSET {"system", "volume"}]

WmiFailures(s, answered) == Finding("wmi", answered # {} /\ s.failing # {})

SalvageWmi ==
  \/ At("begin") /\ (NoAnswer \/ \E left \in SUBSET setting.failing :
                                   Step(With("failing", left), saved, "probe", {}))
  \/ At("probe") /\ ReadBack(setting.failing = {})

---------------------------------------------------------------------------
(* The user's app packages, each with its status.                          *)

Apps == [{"store", "start"} -> {"ok", "damaged", "offline", "busy"}]

BrokenPackages(s) == {a \in DOMAIN s : s[a] = "damaged"}

AppPackages(s, answered) ==
  IF "packages" \in answered
  THEN Finding("apps", BrokenPackages(s) # {})
       \cup Finding("offline", \E a \in DOMAIN s : s[a] = "offline")
  ELSE {}

(* Every broken one is registered again, whatever becomes of the others;   *)
(* those that were broken then decide.                                     *)
ReregisterPackages ==
  \/ At("begin") /\ BrokenPackages(setting) = {} /\ Return("done")
  \/ At("begin") /\ BrokenPackages(setting) # {} /\ Take(BrokenPackages(setting), "register")
  \/ At("begin") /\ NoAnswer
  \/ At("register") /\ (\E fixed \in SUBSET repair.left :
       LET s == [a \in DOMAIN setting |-> IF a \in fixed THEN "ok" ELSE setting[a]]
       IN  Step(s, saved, "read", repair.left) \/ End(s, saved, "failed"))
  \/ At("read") /\ ReadBack(repair.left \cap BrokenPackages(setting) = {})

---------------------------------------------------------------------------
Begin(p) ==
  CASE p = "store" -> Store
    [] p = "sfc" -> Sfc
    [] p = "vss" -> Vss
    [] p = "winre" -> WinRe
    [] p = "wmi" -> Wmi
    [] p = "apps" -> Apps

About(p) ==
  CASE p = "store" -> [AnyPart EXCEPT !.queries = {"dism"}]
    [] p = "vss" -> [AnyPart EXCEPT !.queries = {"sc"}]
    [] p = "wmi" -> [AnyPart EXCEPT !.queries = {"probe"}]
    [] p = "apps" -> [AnyPart EXCEPT !.queries = {"packages"}, !.advice = {"offline"},
                                     !.again = {"apps"}]
    [] OTHER -> AnyPart

Findings(p, s, answered) ==
  CASE p = "store" -> ComponentStore(s, answered)
    [] p = "sfc" -> SfcEvidence(s, answered)
    [] p = "vss" -> VssDisabled(s, answered)
    [] p = "winre" -> WinReDisabled(s, answered)
    [] p = "wmi" -> WmiFailures(s, answered)
    [] p = "apps" -> AppPackages(s, answered)

Restarted(p, s) == s

(* The user mounts the newest ISO, or an update of an app begins.          *)
Elsewhere(p, s) ==
  CASE p = "store" -> {[s EXCEPT !.isos = @ \cup {"latest"}]}
    [] p = "vss" -> {[s EXCEPT !.vss = "manual"]}
    [] p = "apps" -> {[s EXCEPT !["store"] = "busy"], [s EXCEPT !["store"] = "ok"]}
    [] OTHER -> {}

(* A DISM that is dropped leaves a report without a summary; the ISOs the  *)
(* repair mounted are unmounted all the same (Dismount).                   *)
Dropped(p, s) ==
  IF p = "store"
  THEN LET t == IF repair.at \in {"search", "media"} THEN Unmounted(s, repair.left) ELSE s
       IN  {t, [t EXCEPT !.report = CutReport]}
  ELSE {s}

(* What a repair leaves alone: the ISOs the user mounted, and apps that    *)
(* are not damaged.                                                        *)
Kept(p, f, s) ==
  CASE p = "store" -> s.isos \cap before.isos
    [] p = "apps" -> [a \in DOMAIN s \ BrokenPackages(before) |-> s[a]]
    [] p = "sfc" -> s.stuck
    [] OTHER -> {}

(* What a repair only borrows: given back however it ends.                 *)
Lent(p, s) == IF p = "store" THEN s.isos ELSE {}

Fix(f) ==
  CASE part = "store" -> RepairStore
    [] part = "sfc" -> RunSfc
    [] part = "vss" -> EnableVss
    [] part = "winre" -> EnableWinRe
    [] part = "wmi" -> SalvageWmi
    [] part = "apps" -> ReregisterPackages
===========================================================================
