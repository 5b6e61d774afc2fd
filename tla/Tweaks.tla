------------------------------ MODULE Tweaks ------------------------------
(***************************************************************************)
(* modules/tweaks.rs: what tweak and debloat tools leave behind. Five      *)
(* parts of Windows: core services, system devices, the threshold from     *)
(* which on services get processes of their own, policies, the hosts file. *)
(***************************************************************************)
EXTENDS Fixes

Parts == {"services", "devices", "threshold", "policies", "hosts"}

---------------------------------------------------------------------------
(* Core services: one that starts with Windows, one on demand, and one sc  *)
(* config may not change. Of that the service manager keeps what it read   *)
(* when Windows started, and start is what the registry says now.          *)

Restore == [auto |-> "auto", demand |-> "manual", guarded |-> "auto"]

Services == [auto : {"auto", "disabled"}, demand : {"manual", "disabled"},
             guarded : {"auto", "disabled"}, start : {"auto", "disabled", "absent"},
             running : {FALSE}]

DisabledServices(s, answered) ==
  {svc \in {"auto", "demand", "guarded"} : svc \in answered /\ s[svc] = "disabled"}

FixService(svc) ==
  \/ /\ At("begin")
     /\ Command(With(svc, Restore[svc]), "read")
  \/ /\ At("read")
     /\ \/ NoAnswer
        \/ setting[svc] = "disabled" /\ Return("failed")
        \/ /\ setting[svc] # "disabled"
           /\ IF Restore[svc] = "manual" \/ ~config.auto_restart_services
              THEN Return("done") ELSE Go("start")
  \/ /\ At("start")
     /\ \E up \in {setting.running, TRUE} : End(With("running", up), saved, "done")

FixServiceInRegistry ==
  \/ /\ At("begin")
     /\ \/ NoAnswer
        \/ setting.start = Restore.guarded /\ Return("done")
        \/ setting.start = "absent" /\ Return("unchanged")
        \/ setting.start \notin {Restore.guarded, "absent"} /\ Go("backup")
  \/ At("backup") /\ BackUp({"start"}, "write")
  \/ At("write") /\ Command(With("start", Restore.guarded), "read")
  \/ At("read") /\ ReadBack(setting.start = Restore.guarded)

---------------------------------------------------------------------------
(* System devices, by Device Manager's problem: two of CORE_DEVICES, and   *)
(* one that is none. chained are those at the end of a chain of services   *)
(* that cannot start (service_chain.rs).                                   *)

CoreDevices == {"hvservice", "timer"}
Problems == {"works", "disabled", "restart", "broken", "gone"}

Devices == [hvservice : {"works", "disabled"}, timer : {"works", "disabled"},
            adapter : {"works", "disabled", "broken"},
            chained : {{}, {"hvservice"}, {"adapter"}}]

DisabledDevices(s, answered) ==
  IF "devices" \notin answered THEN {}
  ELSE {d \in CoreDevices : s[d] = "disabled"}
       \cup {"advice" : d \in {d \in s.chained : "chains" \in answered /\ s[d] # "works"
                               /\ ~(d \in CoreDevices /\ s[d] = "disabled")}}

(* Mutant: the device is enabled without another look at its problem.      *)
FixDeviceReported(d) ==
  \/ At("begin") /\ Go("backup")
  \/ At("backup") /\ BackUp({d}, "enable")
  \/ At("enable") /\ \E p \in Problems : Step(With(d, p), saved, "read", {})
  \/ At("read") /\ ReadBack(setting[d] = "works")

FixDevice(d) ==
  \/ At("begin") /\ LookAgain(setting[d] # "disabled", "backup")
  \/ At("backup") /\ BackUp({d}, "enable")
  \/ At("enable") /\ \E p \in Problems : Step(With(d, p), saved, "read", {})
  \/ At("read") /\ ReadBack(setting[d] = "works")

---------------------------------------------------------------------------
(* SvcHostSplitThresholdInKB: unset, 3.5 GB, or raised above the memory    *)
(* there is; and whether that is more than 3.5 GB.                         *)

Threshold == [threshold : {"unset", "default", "raised"},
              memory : {"large", "small"}]

KeepsServicesGrouped(s) ==
  s.threshold = "raised" \/ (s.threshold = "default" /\ s.memory = "small")

GroupedServices(s, answered) ==
  IF "threshold" \in answered /\ KeepsServicesGrouped(s) THEN {"grouped"} ELSE {}

FixSplitThreshold ==
  \/ At("begin") /\ LookAgain(~KeepsServicesGrouped(setting), "backup")
  \/ At("backup") /\ BackUp({"threshold"}, "write")
  \/ At("write") /\ Command(With("threshold", "default"), "read")
  \/ At("read") /\ ReadBack(setting.threshold = "default")

---------------------------------------------------------------------------
(* Policies: which values are on. Two of Defender's seven stand for all.   *)

WsusValues == {"WUServer", "UseWUServer", "WUStatusServer", "DoNotConnect"}
StoreValues == {"RemoveWindowsStore", "DisableStoreApps"}
DefenderValues == {"DisableAntiSpyware", "DisableRealtimeMonitoring"}
SingleValues == [blocked |-> "DisableWindowsUpdateAccess", hidden |-> "SetDisableUXWUAccess",
                 noAutoUpdate |-> "NoAutoUpdate"]
PolicyValues == WsusValues \cup StoreValues \cup DefenderValues
                \cup {SingleValues[f] : f \in DOMAIN SingleValues}
PolicyIds == DOMAIN SingleValues \cup {"wsus", "store", "defender"}

PolicyFacts == {"domain", "storeEdition", "realtime", "otherAntivirus", "localPolicy"}

(* What tools and companies set: any of WSUS's values, and pairs of others *)
SetTogether ==
  SUBSET WsusValues
  \cup {DefenderValues, {"DisableAntiSpyware", "DisableWindowsUpdateAccess"},
        StoreValues, {"DisableStoreApps", "NoAutoUpdate"}, WsusValues \cup {"NoAutoUpdate"},
        {"SetDisableUXWUAccess", "NoAutoUpdate"}}

Policies ==
  {[i \in PolicyValues \cup PolicyFacts |->
      CASE i \in PolicyValues -> i \in on
        [] i = "localPolicy" -> local
        [] OTHER -> i \in facts] :
     on \in SetTogether,
     local \in {{}, {"NoAutoUpdate", "UseWUServer"}},
     facts \in {{"storeEdition"}, {"domain"}, {"otherAntivirus"}, {"realtime"}}}

(* policy_hits and defender_policy_hit: the values of each policy in force *)
PolicyHit(f, s, edition) ==
  LET On(V) == {v \in V : s[v]}
  IN  CASE f = "wsus" -> IF s.WUServer /\ s.UseWUServer THEN On(WsusValues) ELSE {}
        [] f = "store" -> IF edition /\ s.storeEdition THEN On(StoreValues) ELSE {}
        [] f = "defender" -> On(DefenderValues)
        [] OTHER -> On({SingleValues[f]})

(* Mutant: a PC that does not say whether it is in a domain is in none.    *)
JudgedUnlessDomain(s, answered) == ~("domain" \in answered /\ s.domain)

Judged(s, answered) == "domain" \in answered /\ ~s.domain

HarmfulPolicies(s, answered) ==
  IF Judged(s, answered) /\ "policies" \in answered
  THEN {f \in PolicyIds :
          /\ PolicyHit(f, s, "edition" \in answered) # {}
          /\ f = "defender" => "defender" \in answered /\ ~s.realtime /\ ~s.otherAntivirus}
  ELSE {}

(* defender_came_on: looks three times.                                    *)
DefenderCameOn ==
  \E on \in {setting.realtime, TRUE} :
    LET now == With("realtime", on)
    IN  \/ on /\ End(now, saved, "done")
        \/ /\ repair.tries < 2
           /\ setting' = now /\ repair' = [repair EXCEPT !.tries = @ + 1]
           /\ UNCHANGED <<saved, report, done>>
        \/ repair.tries = 2 /\ End(now, saved, "failed")

(* The edition of Windows may be read or not; what depends on it then is   *)
(* not in force.                                                           *)
FixPolicy(f) ==
  \/ /\ At("begin")
     /\ \/ NoAnswer
        \/ \E edition \in BOOLEAN :
             LET values == PolicyHit(f, setting, edition)
             IN  CASE values = {} -> Return("unchanged")
                   [] values \cap setting.localPolicy # {} -> Return("unchanged")
                   [] OTHER -> Take(values, "backup")
  \/ At("backup") /\ BackUp(repair.left, "delete")
  \/ At("delete") /\ LET Deleted(v) == With(v, FALSE) IN Each(Deleted, "check")
  \/ /\ At("check")
     /\ \/ NoAnswer
        \/ \E edition \in BOOLEAN :
             IF PolicyHit(f, setting, edition) # {} THEN Return("failed")
             ELSE IF f = "defender" THEN Go("wait")
             ELSE Return(IF PolicyHit(f, setting, TRUE) = {} THEN "done" ELSE "unproved")
  \/ At("wait") /\ DefenderCameOn

---------------------------------------------------------------------------
(* The hosts file: a set of lines, each a set of names.                    *)

Needed == {"update", "activation"}
Hosts == [hosts : {file \in SUBSET ((SUBSET {"update", "activation", "tracker"}) \ {{}}) :
                     Cardinality(file) <= 2}]

HostsBlocks(file) == {line \in file : line \cap Needed # {}}

BlockingHosts(s, answered) ==
  IF "hosts" \in answered /\ HostsBlocks(s.hosts) # {} THEN {"blocks"} ELSE {}

(* A blocking line is commented out; its other names stay on a line of     *)
(* their own.                                                              *)
UnblockHosts(file) ==
  (file \ HostsBlocks(file)) \cup ({line \ Needed : line \in HostsBlocks(file)} \ {{}})

(* The copy was made: the file is replaced and read back; if it is not     *)
(* what was written, or cannot be read, the old one is put back.           *)
ReplaceHosts(copy) ==
  LET fixed == With("hosts", UnblockHosts(setting.hosts))
  IN  \/ Step(fixed, copy, "flush", {})
      \/ End(setting, copy, "unchanged")
      \/ \E s \in {fixed, With("hosts", setting.hosts \cup {{"update"}})} :
           End(s, copy, "failed")

(* No cancellation comes in between: it awaits nothing before the flush.   *)
FixHosts ==
  \/ /\ At("begin")
     /\ \/ Return("unchanged")
        \/ HostsBlocks(setting.hosts) = {} /\ Go("flush")
        \/ HostsBlocks(setting.hosts) # {} /\ ReplaceHosts(Saving({"hosts"}))
  \/ At("flush") /\ Return("done")

---------------------------------------------------------------------------
Begin(p) ==
  CASE p = "services" -> Services
    [] p = "devices" -> Devices
    [] p = "threshold" -> Threshold
    [] p = "policies" -> Policies
    [] p = "hosts" -> Hosts

About(p) ==
  CASE p = "services" ->
         [AnyPart EXCEPT !.queries = {"auto", "demand", "guarded"},
                         !.restart = {"guarded"}, !.again = {"guarded"},
                         !.backedUp = {"start"}]
    [] p = "devices" ->
         [AnyPart EXCEPT !.queries = {"devices", "chains"}, !.advice = {"advice"},
                         !.again = CoreDevices, !.backedUp = CoreDevices]
    [] p = "threshold" ->
         [AnyPart EXCEPT !.queries = {"threshold"}, !.restart = {"grouped"},
                         !.again = {"grouped"}, !.backedUp = {"threshold"}]
    [] p = "policies" ->
         [AnyPart EXCEPT !.queries = {"domain", "policies", "edition", "defender"},
                         !.again = PolicyIds \ {"defender"}, !.backedUp = PolicyValues]
    [] p = "hosts" ->
         [AnyPart EXCEPT !.queries = {"hosts"}, !.again = {"blocks"},
                         !.backedUp = {"hosts"}, !.always = TRUE]

Findings(p, s, answered) ==
  CASE p = "services" -> DisabledServices(s, answered)
    [] p = "devices" -> DisabledDevices(s, answered)
    [] p = "threshold" -> GroupedServices(s, answered)
    [] p = "policies" -> HarmfulPolicies(s, answered)
    [] p = "hosts" -> BlockingHosts(s, answered)

Restarted(p, s) ==
  IF p = "services" /\ s.start # "absent" THEN [s EXCEPT !.guarded = s.start] ELSE s

(* The user, or another program, has put something right since.            *)
Elsewhere(p, s) ==
  CASE p = "services" -> {[s EXCEPT !.start = "auto"]}
    [] p = "devices" -> {[s EXCEPT !.hvservice = "works"], [s EXCEPT !.timer = "gone"]}
    [] p = "threshold" -> {[s EXCEPT !.threshold = "unset"]}
    [] p = "policies" -> {[s EXCEPT ![v] = FALSE] : v \in {"UseWUServer", "DisableStoreApps"}}
    [] p = "hosts" -> {[hosts |-> {}]}

(* What a repair may change, by what its finding says; the hosts file      *)
(* keeps every name that Windows does not need.                            *)
Touches(p, f) ==
  CASE p = "services" -> IF f = "guarded" THEN {"start"} ELSE {f, "running"}
    [] p = "devices" -> {f}
    [] p = "threshold" -> {"threshold"}
    [] p = "policies" ->
         CASE f = "wsus" -> WsusValues [] f = "store" -> StoreValues
           [] f = "defender" -> DefenderValues \cup {"realtime"}
           [] OTHER -> {SingleValues[f]}
    [] p = "hosts" -> {"hosts"}

KeptHosts(s) == (UNION s.hosts) \ Needed

Fix(f) ==
  CASE part = "services" -> IF f = "guarded" THEN FixServiceInRegistry ELSE FixService(f)
    [] part = "devices" -> FixDevice(f)
    [] part = "threshold" -> FixSplitThreshold
    [] part = "policies" -> FixPolicy(f)
    [] part = "hosts" -> FixHosts
===========================================================================
