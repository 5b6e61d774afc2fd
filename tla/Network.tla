------------------------------ MODULE Network ------------------------------
(***************************************************************************)
(* modules/network.rs: the adapter, its address and DNS servers, whether   *)
(* names resolve; the proxies and the Winsock catalog.                     *)
(***************************************************************************)
EXTENDS Fixes

Parts == {"adapter", "connections"}

---------------------------------------------------------------------------
(* One adapter, maybe another beside it, and the router. dns: the servers  *)
(* typed in for it, none or ones that answer or do not; cache: what        *)
(* Windows remembers of names.                                             *)

Adapter == {s \in [admin : {"on", "off"}, address : {"none", "standin", "lease"},
                   dns : {"none", "dead", "alive"}, other : BOOLEAN, router : BOOLEAN,
                   cache : {"good", "stale"}] : s.admin = "off" <=> s.address = "none"}

DhcpFailed(s) == s.admin = "on" /\ s.address = "standin"
SwitchedOff(s) == s.admin = "off"
Connected(s) == s.other \/ (s.admin = "on" /\ s.address = "lease")
IpReachable(s) == s.router /\ Connected(s)
Resolves(s) == IpReachable(s) /\ s.cache = "good" /\ (s.dns # "dead" \/ s.other)

DeadStaticDns(s) == s.admin = "on" /\ s.dns = "dead" /\ IpReachable(s)

(* What a scan says when names do not resolve, less what explains it.      *)
Resolution(s, answered, dead) ==
  LET connected == "addresses" \in answered /\ Connected(s)
      explained == /\ ~connected
                   /\ \/ "addresses" \in answered /\ DhcpFailed(s)
                      \/ "physical" \in answered /\ SwitchedOff(s)
      reachable == "ping" \in answered /\ IpReachable(s)
      asked == "names" \in answered \/ "names" \notin Lapses
  IN  IF asked /\ Resolves(s) THEN {}
      ELSE IF reachable THEN Finding("names", ~dead)
      ELSE IF explained THEN {} ELSE {"advice"}

AdapterFindings(s, answered) ==
  LET dead == /\ {"physical", "servers", "ping"} \subseteq answered
              /\ DeadStaticDns(s)
  IN  Finding("dhcp", "addresses" \in answered /\ DhcpFailed(s))
      \cup Finding("off", "physical" \in answered /\ SwitchedOff(s))
      \cup Finding("servers", dead)
      \cup Resolution(s, answered, dead)

FixAdapterOff ==
  \/ At("begin") /\ LookAgain(~SwitchedOff(setting), "enable")
  \/ At("enable") /\ \E address \in {"none", "standin", "lease"} :
                        Command([setting EXCEPT !.admin = "on", !.address = address], "read")
  \/ At("read") /\ ReadBack(~SwitchedOff(setting))

FixNoDhcp ==
  \/ At("begin") /\ LookAgain(~DhcpFailed(setting), "renew")
  \/ At("renew") /\ Ignored(With("address", "lease"), "read")
  \/ At("read") /\ ReadBack(setting.address = "lease")

(* Backed up whatever the settings say.                                    *)
FixDeadDns ==
  \/ At("begin") /\ LookAgain(setting.dns = "none", "backup")
  \/ /\ At("backup")
     /\ \/ Step(setting, Saving({"dns"}), "reset", {})
        \/ Return("unchanged")
  \/ At("reset") /\ Command(With("dns", "none"), "read")
  \/ /\ At("read")
     /\ \/ NoAnswer
        \/ setting.dns # "none" /\ Return("failed")
        \/ setting.dns = "none" /\ Go("names")
  \/ /\ At("names")
     /\ \/ Resolves(setting) /\ Return("done")
        \/ Return("failed")

FixNames ==
  \/ At("begin") /\ Ignored(With("cache", "good"), "register")
  \/ At("register") /\ Go("names")
  \/ /\ At("names")
     /\ \/ Resolves(setting) /\ Return("done")
        \/ Return("failed")

---------------------------------------------------------------------------
(* The user's proxy, that of WinHTTP, and the catalog of Winsock, whose    *)
(* reset is used once Windows has restarted.                               *)

Connections == [user : {"none", "dead", "alive"}, winhttp : {"none", "dead", "alive"},
                catalog : {"intact", "damaged"}]

ConnectionFindings(s, answered) ==
  {p \in {"user", "winhttp"} : p \in answered /\ s[p] = "dead"}
  \cup {c \in {"catalog"} : \/ c \in answered /\ s[c] = "damaged"
                            \/ c \notin answered /\ "netsh" \in Lapses}

(* reg add or netsh, whichever switches this proxy off.                    *)
FixProxy(p) ==
  \/ At("begin") /\ LookAgain(setting[p] = "none", "off")
  \/ At("off") /\ Command(With(p, "none"), "read")
  \/ At("read") /\ ReadBack(setting[p] = "none")

FixCatalog == LastCommand(With("catalog", "reset"))

---------------------------------------------------------------------------
Begin(p) == IF p = "adapter" THEN Adapter ELSE Connections

About(p) ==
  IF p = "adapter"
  THEN [AnyPart EXCEPT !.queries = {"addresses", "physical", "servers", "ping", "names"},
                         !.advice = {"advice"}, !.again = {"dhcp", "off"},
                         !.backedUp = {"dns"}, !.always = TRUE]
  ELSE [AnyPart EXCEPT !.queries = {"user", "winhttp", "catalog"},
                         !.restart = {"catalog"}]

Findings(p, s, answered) ==
  IF p = "adapter" THEN AdapterFindings(s, answered) ELSE ConnectionFindings(s, answered)

(* Not invented, though less exact than what a scan with every answer      *)
(* would say.                                                              *)
LessExactly(p, s) == IF p = "adapter" /\ ~Resolves(s) THEN {"names", "advice"} ELSE {}

Restarted(p, s) ==
  IF p = "connections" /\ s.catalog = "reset" THEN [s EXCEPT !.catalog = "intact"] ELSE s

(* Somebody types in servers that answer, or uses a proxy that does.       *)
Elsewhere(p, s) ==
  IF p = "adapter" THEN {[s EXCEPT !.dns = "alive"], [s EXCEPT !.cache = "good"]}
  ELSE {[s EXCEPT !.user = "alive"], [s EXCEPT !.winhttp = "none"]}

Touches(p, f) ==
  CASE f = "dhcp" -> {"address"} [] f = "off" -> {"admin", "address"}
    [] f = "servers" -> {"dns"} [] f = "names" -> {"cache"} [] OTHER -> {f}

Fix(f) ==
  CASE f = "dhcp" -> FixNoDhcp [] f = "off" -> FixAdapterOff
    [] f = "servers" -> FixDeadDns [] f = "names" -> FixNames
    [] f \in {"user", "winhttp"} -> FixProxy(f)
    [] f = "catalog" -> FixCatalog
===========================================================================
