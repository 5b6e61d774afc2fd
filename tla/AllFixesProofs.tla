--------------------------- MODULE AllFixesProofs ---------------------------
(***************************************************************************)
(* Three proofs about the checks and repairs, for every set of parts,      *)
(* configurations and circumstances and any number of repairs.             *)
(*                                                                         *)
(* Repairs change nothing of what they back up before it is backed up.     *)
(* BackedUpFirst is not inductive: a repair writes some steps after it has *)
(* backed up, and what it writes over must then be in a backup. Owed says  *)
(* so at the place before each change; Remaining, what is left to change   *)
(* there. Backups are taken of what Windows holds then, which is what it   *)
(* held at first, or else an earlier repair has changed it and what it     *)
(* held at first is in an earlier backup.                                  *)
(*                                                                         *)
(* A repaired finding stays repaired, but for BeyondRepair.                *)
(* That it is not found again is not inductive either: the checks do not   *)
(* say why. Cured says what Windows holds after a repair that is reported  *)
(* done; Sound, that every step keeps it so (Lasting), with what a repair  *)
(* under way relies on (Underway, Once) and what none changes (World).     *)
(*                                                                         *)
(* What is said is so, what somebody has put right is left alone, and only *)
(* what was found is repaired. Each step of a repair changes nothing when  *)
(* nothing was wrong as it began (Heeds) and keeps the rest (Spares);      *)
(* Upright says which places come before the first change and what is left *)
(* to change at the others, WrongIsFound that what a repair looks at again *)
(* is what its check looks at.                                             *)
(***************************************************************************)
EXTENDS AllFixes, FiniteSetTheorems, TLAPS

BackedParts == {"services", "devices", "threshold", "policies", "hosts", "adapter",
                "autostart", "restart", "opengl", "addon"}

Autostarts == {"My_Tool", "My Tool", "Updater"}

(* What the repairs of a part back up, and whether they do here. A list of *)
(* blocked add-ons that was not there cannot be backed up.                 *)
Backable ==
  CASE part = "services" -> {"start"}
    [] part = "devices" -> T!CoreDevices
    [] part = "threshold" -> {"threshold"}
    [] part = "policies" -> T!PolicyValues
    [] part = "hosts" -> {"hosts"}
    [] part = "adapter" -> {"dns"}
    [] part = "autostart" -> Autostarts
    [] part = "restart" -> {"hiberboot"}
    [] part = "opengl" -> H!Entries
    [] part = "addon" -> {"blocked"}
    [] OTHER -> {}

Wanted ==
  /\ config.auto_backup_registry \/ part \in {"hosts", "adapter", "addon"}
  /\ part = "addon" => first.blocked # K!NoKey

(* What a repair is about to change.                                       *)
Due ==
  CASE part = "services" /\ repair.at = "write" -> {"start"}
    [] part = "devices" /\ repair.at = "enable" -> {repair.finding} \cap Backable
    [] part = "threshold" /\ repair.at = "write" -> {"threshold"}
    [] part = "policies" /\ repair.at = "delete" -> repair.left \cap Backable
    [] part = "adapter" /\ repair.at = "reset" -> {"dns"}
    [] part = "autostart" /\ repair.at = "delete" -> repair.left \cap Backable
    [] part = "restart" /\ repair.at = "write" -> {"hiberboot"}
    [] part = "opengl" /\ repair.at = "set" -> repair.left \cap Backable
    [] part = "addon" /\ repair.at = "block" -> {"blocked"}
    [] OTHER -> {}

Formed == DOMAIN repair = {"finding", "at", "left", "tries"}
Shape == Backable \subseteq DOMAIN setting

(* Repairs are of what their module finds.                                 *)
Known ==
  /\ part = "services" =>
       /\ reported \subseteq {"auto", "demand", "guarded"}
       /\ Idle \/ repair.finding \in {"auto", "demand", "guarded"}
  /\ part = "adapter" =>
       /\ reported \subseteq {"dhcp", "off", "servers", "names", "advice"}
       /\ Idle \/ repair.finding \in {"dhcp", "off", "servers", "names"}

Remaining ==
  /\ part = "autostart" /\ repair.at \in {"backup", "delete"}
       => repair.left \subseteq S!RunKeys[repair.finding]
  /\ part = "opengl" /\ repair.at \in {"backup", "set"}
       => repair.left \subseteq H!Entries /\ repair.left # {}
  /\ part = "addon" =>
       /\ setting.registered \subseteq {"a", "b"}
       /\ repair.left \subseteq {"a", "b"}
       /\ "blocked" \in DOMAIN setting /\ "registered" \in DOMAIN setting
       /\ setting.blocked = K!NoKey => first.blocked = K!NoKey

Backed == Wanted => \A i \in Backable : setting[i] # first[i] => <<i, first[i]>> \in saved
Owed == Wanted => \A i \in Due : <<i, first[i]>> \in saved

BInv == part \in BackedParts => Formed /\ Shape /\ Known /\ Remaining /\ Backed /\ Owed

---------------------------------------------------------------------------
(* What the modules say of their parts, in one place.                      *)

LEMMA OneModule ==
  /\ part \in T!Parts => About = T!About(part)
  /\ part \in N!Parts => About = N!About(part)
  /\ part \in S!Parts => About = S!About(part)
  /\ part \in H!Parts => About = H!About(part)
  /\ part \in C!Parts => About = C!About(part)
  /\ part \in I!Parts => About = I!About(part)
  /\ part \in U!Parts => About = U!About(part)
  /\ part \in K!Parts => About = K!About(part)
  BY DEF About, T!Parts, N!Parts, S!Parts, H!Parts, C!Parts, I!Parts, U!Parts, K!Parts

LEMMA NothingIsBackedUp ==
  ASSUME part \in Parts \ BackedParts
  PROVE  About.backedUp = {}
<1> USE DEF T!Parts, N!Parts, S!Parts, H!Parts, C!Parts, I!Parts, U!Parts, K!Parts, N!AnyPart, S!AnyPart,
            H!AnyPart, C!AnyPart, I!AnyPart, U!AnyPart, K!AnyPart
<1>1. CASE part \in N!Parts
  <2>1. part = "connections"
    BY <1>1 DEF BackedParts
  <2>2. QED BY <1>1, <2>1, OneModule DEF N!About
<1>2. CASE part \in S!Parts
  <2>1. part \in {"pagefile", "clock"}
    BY <1>2 DEF BackedParts
  <2>2. S!About(part).backedUp = {}
    BY <2>1, Zenon DEF S!About
  <2>3. QED BY <1>2, <2>2, OneModule
<1>3. CASE part \in H!Parts
  <2>1. part \in {"device", "printing", "whea"}
    BY <1>3 DEF BackedParts
  <2>2. QED BY <1>3, <2>1, OneModule DEF H!About
<1>4. CASE part \in K!Parts
  <2>1. part \in {"bluescreen", "dumps"}
    BY <1>4 DEF BackedParts
  <2>2. K!About(part).backedUp = {}
    BY <2>1, Zenon DEF K!About
  <2>3. QED BY <1>4, <2>2, OneModule
<1>5. CASE part \in C!Parts
  <2>1. C!About(part).backedUp = {}
    BY <1>5 DEF C!About
  <2>2. QED BY <1>5, <2>1, OneModule
<1>6. CASE part \in I!Parts
  <2>1. I!About(part).backedUp = {}
    BY <1>6 DEF I!About
  <2>2. QED BY <1>6, <2>1, OneModule
<1>7. CASE part \in U!Parts
  BY <1>7, OneModule DEF U!About
<1>8. part \notin T!Parts
  BY DEF BackedParts
<1>9. QED BY <1>1, <1>2, <1>3, <1>4, <1>5, <1>6, <1>7, <1>8 DEF Parts

LEMMA WhatIsBackedUp ==
  ASSUME part \in BackedParts
  PROVE  /\ About.backedUp = IF part = "addon" /\ first.blocked = K!NoKey THEN {} ELSE Backable
         /\ About.always <=> part \in {"hosts", "adapter", "addon"}
<1>1. CASE part \in {"services", "devices", "threshold", "policies", "hosts"}
  <2>1. About = T!About(part)
    BY <1>1, OneModule DEF T!Parts
  <2>2. T!About(part).backedUp = Backable
    BY <1>1 DEF T!About, T!AnyPart, Backable
  <2>3. T!About(part).always <=> part = "hosts"
    BY <1>1 DEF T!About, T!AnyPart
  <2>4. QED BY <1>1, <2>1, <2>2, <2>3
<1>2. CASE part = "adapter"
  <2>1. About = N!About(part)
    BY <1>2, OneModule DEF N!Parts
  <2>2. N!About(part).backedUp = Backable /\ N!About(part).always
    BY <1>2 DEF N!About, N!AnyPart, Backable
  <2>3. QED BY <1>2, <2>1, <2>2
<1>3. CASE part \in {"autostart", "restart"}
  <2>1. About = S!About(part)
    BY <1>3, OneModule DEF S!Parts
  <2>2. part = "autostart" => S!About(part).backedUp = Autostarts
    BY Zenon DEF S!About, S!AnyPart, Autostarts
  <2>3. part = "restart" => S!About(part).backedUp = {"hiberboot"}
    BY Zenon DEF S!About, S!AnyPart
  <2>4. S!About(part).backedUp = Backable
    BY <1>3, <2>2, <2>3 DEF Backable
  <2>5. part = "autostart" => ~S!About(part).always
    BY DEF S!About, S!AnyPart
  <2>6. part = "restart" => ~S!About(part).always
    BY DEF S!About, S!AnyPart
  <2>7. QED BY <1>3, <2>1, <2>4, <2>5, <2>6
<1>4. CASE part = "opengl"
  <2>1. About = H!About(part)
    BY <1>4, OneModule DEF H!Parts
  <2>2. H!About(part).backedUp = Backable /\ ~H!About(part).always
    BY <1>4 DEF H!About, H!AnyPart, Backable
  <2>3. QED BY <1>4, <2>1, <2>2
<1>5. CASE part = "addon"
  <2>1. About = K!About(part)
    BY <1>5, OneModule DEF K!Parts
  <2>2. K!About(part).backedUp = (IF first.blocked = K!NoKey THEN {} ELSE {"blocked"})
        /\ K!About(part).always
    BY <1>5 DEF K!About, K!AnyPart
  <2>3. Backable = {"blocked"}
    BY <1>5 DEF Backable
  <2>4. QED BY <1>5, <2>1, <2>2, <2>3
<1>6. QED BY <1>1, <1>2, <1>3, <1>4, <1>5 DEF BackedParts

LEMMA BackedMeans ==
  ASSUME part \in Parts, BInv
  PROVE  BackedUpFirst
<1>1. CASE part \in BackedParts
  BY <1>1, WhatIsBackedUp DEF BInv, Backed, Wanted, BackedUpFirst
<1>2. CASE part \notin BackedParts
  BY <1>2, NothingIsBackedUp DEF BackedUpFirst
<1>3. QED BY <1>1, <1>2

---------------------------------------------------------------------------
(* Between repairs.                                                        *)

LEMMA AtFirst ==
  ASSUME part \in BackedParts, setting \in Begin(part)
  PROVE  /\ Shape
         /\ part = "addon" => /\ setting.registered \subseteq {"a", "b"}
                              /\ "blocked" \in DOMAIN setting /\ "registered" \in DOMAIN setting
<1> USE DEF T!Parts, N!Parts, S!Parts, H!Parts, C!Parts, I!Parts, U!Parts, K!Parts
<1>1. CASE part \in {"services", "devices", "threshold", "policies", "hosts"}
  <2>1. setting \in T!Begin(part)
    BY <1>1 DEF Begin
  <2>2. CASE part = "services"
    BY <2>1, <2>2 DEF T!Begin, T!Services, Shape, Backable
  <2>3. CASE part = "devices"
    BY <2>1, <2>3 DEF T!Begin, T!Devices, Shape, Backable, T!CoreDevices
  <2>4. CASE part = "threshold"
    BY <2>1, <2>4 DEF T!Begin, T!Threshold, Shape, Backable
  <2>5. CASE part = "policies"
    BY <2>1, <2>5 DEF T!Begin, T!Policies, Shape, Backable
  <2>6. CASE part = "hosts"
    BY <2>1, <2>6 DEF T!Begin, T!Hosts, Shape, Backable
  <2>7. QED BY <1>1, <2>2, <2>3, <2>4, <2>5, <2>6
<1>2. CASE part = "adapter"
  <2>1. setting \in N!Begin(part)
    BY <1>2 DEF Begin
  <2>2. QED BY <1>2, <2>1 DEF N!Begin, N!Adapter, Shape, Backable
<1>3. CASE part \in {"autostart", "restart"}
  <2>1. setting \in S!Begin(part)
    BY <1>3 DEF Begin
  <2>2. part = "autostart" => S!Begin(part) = S!Autostart
    BY DEF S!Begin
  <2>3. S!Autostart = [Autostarts -> {"none", "works", "orphaned", "unproven"}]
    BY Zenon DEF S!Autostart, Autostarts
  <2>4. part = "restart" => S!Begin(part) = S!Uptime
    BY DEF S!Begin
  <2>5. part = "autostart" => DOMAIN setting = Autostarts
    BY <2>1, <2>2, <2>3
  <2>6. part = "restart" => "hiberboot" \in DOMAIN setting
    <3>1. \A z \in S!Uptime : DOMAIN z = {"up", "hiberboot", "policy", "hibernation"}
      BY DEF S!Uptime
    <3>2. QED BY <2>1, <2>4, <3>1
  <2>7. QED BY <1>3, <2>5, <2>6 DEF Shape, Backable
<1>4. CASE part = "opengl"
  <2>1. setting \in H!Begin(part)
    BY <1>4 DEF Begin
  <2>2. QED BY <1>4, <2>1 DEF H!Begin, H!Card, H!Entries, Shape, Backable
<1>5. CASE part = "addon"
  <2>1. setting \in K!Begin(part)
    BY <1>5 DEF Begin
  <2>2. QED BY <1>5, <2>1 DEF K!Begin, K!Addon, Shape, Backable
<1>6. QED BY <1>1, <1>2, <1>3, <1>4, <1>5 DEF BackedParts

LEMMA InitHolds == Init => BInv
<1>1. SUFFICES ASSUME Init, part \in BackedParts
               PROVE  Formed /\ Shape /\ Known /\ Remaining /\ Backed /\ Owed
  BY DEF BInv
<1>2. repair = NoRepair /\ first = setting /\ reported = {} /\ setting \in Begin(part)
  BY <1>1 DEF Init
<1>3. Formed
  BY <1>2 DEF Formed, NoRepair
<1>4. repair.at = "begin" /\ repair.left = {}
  BY <1>2 DEF NoRepair
<1>5. Known /\ Remaining
  BY <1>1, <1>2, <1>4, AtFirst DEF Known, Idle, Remaining
<1>6. Backed
  BY <1>2 DEF Backed
<1>7. Owed
  <2>1. Due = {}
    BY <1>4 DEF Due
  <2>2. QED BY <2>1 DEF Owed
<1>8. QED BY <1>1, <1>2, <1>3, <1>5, <1>6, <1>7, AtFirst

(* What a repair is given as its finding is one its module can make.       *)
LEMMA ScanKnown ==
  ASSUME NEW answered
  PROVE  /\ part = "services" => Findings(setting, answered) \subseteq {"auto", "demand", "guarded"}
         /\ part = "adapter" => Findings(setting, answered)
                                  \subseteq {"dhcp", "off", "servers", "names", "advice"}
<1> USE DEF T!Parts, N!Parts, S!Parts, H!Parts, C!Parts, I!Parts, U!Parts, K!Parts
<1>1. CASE part = "services"
  <2>1. Findings(setting, answered) = T!Findings(part, setting, answered)
    BY <1>1 DEF Findings
  <2>2. T!Findings(part, setting, answered) = T!DisabledServices(setting, answered)
    BY <1>1 DEF T!Findings
  <2>3. QED BY <1>1, <2>1, <2>2 DEF T!DisabledServices
<1>2. CASE part = "adapter"
  <2>1. Findings(setting, answered) = N!Findings(part, setting, answered)
    BY <1>2 DEF Findings
  <2>2. N!Findings(part, setting, answered) = N!AdapterFindings(setting, answered)
    BY <1>2 DEF N!Findings
  <2>3. \A dead : N!Resolution(setting, answered, dead) \subseteq {"names", "advice"}
    BY DEF N!Resolution, N!Finding
  <2>4. N!AdapterFindings(setting, answered)
          \subseteq {"dhcp", "off", "servers"} \cup {"names", "advice"}
    BY <2>3 DEF N!AdapterFindings, N!Finding
  <2>5. QED BY <1>2, <2>1, <2>2, <2>4
<1>3. QED BY <1>1, <1>2

LEMMA ScanKeeps == BInv /\ Scan => BInv'
<1>1. SUFFICES ASSUME BInv, Scan, part \in BackedParts
               PROVE  (Formed /\ Shape /\ Known /\ Remaining /\ Backed /\ Owed)'
  BY DEF BInv, Scan
<1>2. PICK answered : reported' = Findings(setting, answered) /\ setting' = Scanned(setting, answered)
  BY <1>1 DEF Scan
<1>3. setting' = setting
  BY <1>1, <1>2 DEF Scanned, BackedParts, C!Parts
<1>4. UNCHANGED <<part, config, setting, saved, repair, first>>
  BY <1>1, <1>3 DEF Scan
<1>5. Formed /\ Shape /\ Remaining /\ Backed /\ Owed /\ Idle
  BY <1>1 DEF BInv, Scan
<1>6. Due' = Due /\ Backable' = Backable /\ (Wanted' <=> Wanted)
  BY <1>4 DEF Due, Backable, Wanted
<1>7. Known'
  BY <1>2, <1>4, <1>5, ScanKnown DEF Known, Idle
<1>8. QED BY <1>4, <1>5, <1>6, <1>7 DEF Formed, Shape, Remaining, Backed, Owed

LEMMA StartRepairKeeps ==
  ASSUME NEW f \in reported, BInv, StartRepair(f)
  PROVE  BInv'
<1>1. SUFFICES ASSUME part \in BackedParts
               PROVE  (Formed /\ Shape /\ Known /\ Remaining /\ Backed /\ Owed)'
  BY DEF BInv, StartRepair
<1>2. UNCHANGED <<part, config, setting, saved, first>>
  BY DEF StartRepair
<1>3. repair' = [finding |-> f, at |-> "begin", left |-> {}, tries |-> 0]
  BY DEF StartRepair, NoRepair
<1>4. Formed /\ Shape /\ Known /\ Remaining /\ Backed
  BY <1>1 DEF BInv
<1>5. Backable' = Backable /\ (Wanted' <=> Wanted)
  BY <1>2 DEF Backable, Wanted
<1>6. Known'
  <2>1. reported' \subseteq reported
    BY DEF StartRepair
  <2>2. repair'.finding = f
    BY <1>3
  <2>3. part = "adapter" => f # "advice"
    <3>1. SUFFICES ASSUME part = "adapter" PROVE About.advice = {"advice"}
      BY DEF StartRepair
    <3>2. QED BY <3>1, OneModule DEF N!Parts, N!About, N!AnyPart
  <2>4. QED BY <1>2, <1>4, <2>1, <2>2, <2>3 DEF Known
<1>7. Remaining'
  BY <1>2, <1>3, <1>4 DEF Remaining
<1>8. Owed'
  <2>1. Due' = {}
    BY <1>3 DEF Due
  <2>2. QED BY <2>1 DEF Owed
<1>9. QED BY <1>2, <1>3, <1>4, <1>5, <1>6, <1>7, <1>8 DEF Formed, Shape, Backed

LEMMA CancelKeeps == BInv /\ Cancel => BInv'
<1>1. SUFFICES ASSUME BInv, Cancel, part \in BackedParts
               PROVE  (Formed /\ Shape /\ Known /\ Remaining /\ Backed /\ Owed)'
  BY DEF BInv, Cancel, around
<1>2. Dropped(setting) = {setting}
  <2>1. CASE part = "opengl"
    BY <2>1 DEF Dropped, H!Dropped, H!Parts, C!Parts, I!Parts
  <2>2. CASE part = "restart" \/ part = "autostart" \/ part = "adapter" \/ part = "addon"
    BY <2>2 DEF Dropped, H!Parts, C!Parts, I!Parts
  <2>3. CASE part \in {"services", "devices", "threshold", "policies", "hosts"}
    BY <2>3 DEF Dropped, H!Parts, C!Parts, I!Parts
  <2>4. QED BY <1>1, <2>1, <2>2, <2>3 DEF BackedParts
<1>3. /\ UNCHANGED <<part, config, reported, first, setting, saved>>
      /\ repair' = [finding |-> NoFinding, at |-> "begin", left |-> {}, tries |-> 0]
      /\ Idle'
  BY <1>1, <1>2 DEF Cancel, End, around, NoRepair, Idle
<1>4. Formed /\ Shape /\ Known /\ Remaining /\ Backed
  BY <1>1 DEF BInv
<1>5. Backable' = Backable /\ (Wanted' <=> Wanted)
  BY <1>3 DEF Backable, Wanted
<1>6. Known' /\ Remaining'
  BY <1>3, <1>4 DEF Known, Remaining
<1>7. Owed'
  <2>1. Due' = {}
    BY <1>3 DEF Due
  <2>2. QED BY <2>1 DEF Owed
<1>8. QED BY <1>3, <1>4, <1>5, <1>6, <1>7 DEF Formed, Shape, Backed

(* What Windows becomes by itself.                                         *)
ByItself == {Restarted(setting)} \cup Elsewhere(setting)

LEMMA ByItselfKeepsItems ==
  ASSUME part \in BackedParts, Shape, NEW s \in ByItself
  PROVE  /\ Backable \subseteq DOMAIN s
         /\ part = "addon" /\ "blocked" \in DOMAIN setting /\ "registered" \in DOMAIN setting
              => /\ "blocked" \in DOMAIN s /\ "registered" \in DOMAIN s
                 /\ s.blocked = setting.blocked /\ s.registered \subseteq setting.registered
<1> USE DEF T!Parts, N!Parts, S!Parts, H!Parts, C!Parts, I!Parts, U!Parts, K!Parts
<1>1. CASE part \in {"services", "devices", "threshold", "policies"}
  <2>1. /\ Restarted(setting) = T!Restarted(part, setting)
        /\ Elsewhere(setting) = T!Elsewhere(part, setting)
    BY <1>1 DEF Restarted, Elsewhere
  <2>2. \A z \in {T!Restarted(part, setting)} \cup T!Elsewhere(part, setting) :
          DOMAIN z = DOMAIN setting
    BY <1>1 DEF T!Restarted, T!Elsewhere
  <2>3. QED BY <1>1, <2>1, <2>2 DEF Shape, ByItself
<1>2. CASE part = "hosts"
  <2>1. /\ Restarted(setting) = T!Restarted(part, setting)
        /\ Elsewhere(setting) = T!Elsewhere(part, setting)
    BY <1>2 DEF Restarted, Elsewhere
  <2>2. T!Restarted(part, setting) = setting /\ T!Elsewhere(part, setting) = {[hosts |-> {}]}
    BY <1>2 DEF T!Restarted, T!Elsewhere
  <2>3. QED BY <1>2, <2>1, <2>2 DEF Shape, Backable, ByItself
<1>3. CASE part = "adapter"
  <2>1. /\ Restarted(setting) = N!Restarted(part, setting)
        /\ Elsewhere(setting) = N!Elsewhere(part, setting)
    BY <1>3 DEF Restarted, Elsewhere
  <2>2. \A z \in {N!Restarted(part, setting)} \cup N!Elsewhere(part, setting) :
          DOMAIN z = DOMAIN setting
    BY <1>3 DEF N!Restarted, N!Elsewhere
  <2>3. QED BY <1>3, <2>1, <2>2 DEF Shape, ByItself
<1>4. CASE part \in {"autostart", "restart"}
  <2>1. /\ Restarted(setting) = S!Restarted(part, setting)
        /\ Elsewhere(setting) = S!Elsewhere(part, setting)
    BY <1>4 DEF Restarted, Elsewhere
  <2>2. DOMAIN S!Restarted(part, setting) = DOMAIN setting
    BY <1>4 DEF S!Restarted
  <2>3. \A f, i, v : DOMAIN [f EXCEPT ![i] = v] = DOMAIN f
    OBVIOUS
  <2>4. part = "autostart" => \A z \in S!Elsewhere(part, setting) : DOMAIN z = DOMAIN setting
    BY <2>3, Zenon DEF S!Elsewhere
  <2>5. part = "restart" => \A z \in S!Elsewhere(part, setting) : DOMAIN z = DOMAIN setting
    BY <2>3, Zenon DEF S!Elsewhere
  <2>6. QED BY <1>4, <2>1, <2>2, <2>4, <2>5 DEF Shape, ByItself
<1>5. CASE part = "opengl"
  <2>1. /\ Restarted(setting) = H!Restarted(part, setting)
        /\ Elsewhere(setting) = H!Elsewhere(part, setting)
    BY <1>5 DEF Restarted, Elsewhere
  <2>2. \A z \in {H!Restarted(part, setting)} \cup H!Elsewhere(part, setting) :
          DOMAIN z = DOMAIN setting
    BY <1>5 DEF H!Restarted, H!Elsewhere
  <2>3. QED BY <1>5, <2>1, <2>2 DEF Shape, ByItself
<1>6. CASE part = "addon"
  <2>1. /\ Restarted(setting) = K!Restarted(part, setting)
        /\ Elsewhere(setting) = K!Elsewhere(part, setting)
    BY <1>6 DEF Restarted, Elsewhere
  <2>2. s \in {setting, [setting EXCEPT !.registered = {}], [setting EXCEPT !.crashed = FALSE]}
    BY <1>6, <2>1 DEF K!Restarted, K!Elsewhere, ByItself
  <2>3. QED BY <1>6, <2>2 DEF Shape
<1>7. QED BY <1>1, <1>2, <1>3, <1>4, <1>5, <1>6 DEF BackedParts

(* What changes by itself is what Windows first held of it.                *)
LEMMA BecomesKeeps ==
  ASSUME BInv, NEW s \in ByItself, Becomes(s), reported' \subseteq reported
  PROVE  BInv'
<1>1. SUFFICES ASSUME part \in BackedParts
               PROVE  (Formed /\ Shape /\ Known /\ Remaining /\ Backed /\ Owed)'
  BY DEF BInv, Becomes
<1>2. /\ UNCHANGED <<part, config, saved, repair>>
      /\ Idle /\ setting' = s
      /\ first' = [i \in DOMAIN s |-> IF s[i] # setting[i] THEN s[i] ELSE first[i]]
  BY DEF Becomes
<1>3. Formed /\ Shape /\ Known /\ Remaining /\ Backed
  BY <1>1 DEF BInv
<1>4. Backable \subseteq DOMAIN s
  BY <1>1, <1>3, ByItselfKeepsItems
<1>5. Backable' = Backable
  BY <1>2 DEF Backable
<1>6. part = "addon" => first'.blocked = first.blocked
  <2>1. SUFFICES ASSUME part = "addon" PROVE first'.blocked = first.blocked
    OBVIOUS
  <2>2. "blocked" \in DOMAIN s /\ s.blocked = setting.blocked
    BY <1>1, <1>3, <2>1, ByItselfKeepsItems DEF Remaining
  <2>3. QED BY <1>2, <2>2
<1>7. Wanted' <=> Wanted
  BY <1>2, <1>6 DEF Wanted
<1>8. Formed' /\ Shape' /\ Known'
  BY <1>2, <1>3, <1>4, <1>5 DEF Formed, Shape, Known, Idle
<1>9. Remaining'
  <2>1. repair.at = "begin"
    BY <1>2 DEF Idle, NoRepair
  <2>2. part = "addon" => /\ "blocked" \in DOMAIN s /\ "registered" \in DOMAIN s
                          /\ s.blocked = setting.blocked /\ s.registered \subseteq setting.registered
    BY <1>1, <1>3, ByItselfKeepsItems DEF Remaining
  <2>3. QED BY <1>2, <1>3, <1>6, <2>1, <2>2 DEF Remaining
<1>10. Backed'
  BY <1>2, <1>3, <1>4, <1>5, <1>7 DEF Backed
<1>11. Owed'
  <2>1. repair'.at = "begin"
    BY <1>2 DEF Idle, NoRepair
  <2>2. Due' = {}
    BY <2>1 DEF Due
  <2>3. QED BY <2>2 DEF Owed
<1>12. QED BY <1>8, <1>9, <1>10, <1>11

LEMMA OutsideKeeps == BInv /\ (Restart \/ SomebodyElse) => BInv'
<1>1. ASSUME BInv, Restart PROVE BInv'
  <2>1. Restarted(setting) \in ByItself /\ reported' \subseteq reported
    BY <1>1 DEF Restart, ByItself
  <2>2. QED BY <1>1, <2>1, BecomesKeeps DEF Restart
<1>2. ASSUME BInv, SomebodyElse PROVE BInv'
  <2>1. PICK s \in Elsewhere(setting) : Becomes(s)
    BY <1>2 DEF SomebodyElse
  <2>2. s \in ByItself /\ reported' \subseteq reported
    BY <1>2, <2>1 DEF SomebodyElse, ByItself
  <2>3. QED BY <1>2, <2>1, <2>2, BecomesKeeps
<1>3. QED BY <1>1, <1>2

---------------------------------------------------------------------------
(* A step of a repair keeps the invariant if what it changes is in a       *)
(* backup, and so is what it is about to change next.                      *)

Follows == repair' = NoRepair \/ (DOMAIN repair' = DOMAIN repair /\ repair'.finding = repair.finding)

(* It ends, or goes on at place with left still to do.                     *)
Comes(place, left) ==
  repair' = NoRepair \/ repair' = [repair EXCEPT !.at = place, !.left = left]

LEMMA Coming ==
  ASSUME NEW place, NEW left, Formed, Comes(place, left)
  PROVE  /\ Follows
         /\ \/ repair'.at = "begin" /\ repair'.left = {}
            \/ repair'.at = place /\ repair'.left = left /\ repair'.finding = repair.finding
<1>1. CASE repair' = NoRepair
  BY <1>1 DEF Follows, NoRepair
<1>2. CASE repair' = [repair EXCEPT !.at = place, !.left = left]
  BY <1>2 DEF Follows, Formed
<1>3. QED BY <1>1, <1>2 DEF Comes

LEMMA StepKeeps ==
  ASSUME part \in BackedParts, BInv, UNCHANGED around, ~Idle, Follows, Remaining',
         DOMAIN setting' = DOMAIN setting, saved \subseteq saved',
         \A i \in Backable : setting'[i] = setting[i] \/ (Wanted => <<i, first[i]>> \in saved'),
         \A i \in Due' : i \in Due \/ (Wanted => <<i, first[i]>> \in saved')
  PROVE  BInv'
<1>1. UNCHANGED <<part, config, reported, first>>
  BY DEF around
<1>2. Backable' = Backable /\ (Wanted' <=> Wanted)
  BY <1>1 DEF Backable, Wanted
<1>3. Formed /\ Shape /\ Known /\ Backed /\ Owed
  BY DEF BInv
<1>4. Formed' /\ Known'
  <2>1. CASE repair' = NoRepair
    BY <1>1, <1>3, <2>1 DEF Formed, Known, Idle, NoRepair
  <2>2. CASE repair' # NoRepair
    <3>1. DOMAIN repair' = DOMAIN repair /\ repair'.finding = repair.finding
      BY <2>2 DEF Follows
    <3>2. Formed'
      BY <1>3, <3>1 DEF Formed
    <3>3. QED BY <1>1, <1>3, <3>1, <3>2 DEF Known
  <2>3. QED BY <2>1, <2>2
<1>5. Shape'
  BY <1>2, <1>3 DEF Shape
<1>6. Backed'
  BY <1>1, <1>2, <1>3 DEF Backed
<1>7. Owed'
  BY <1>1, <1>2, <1>3 DEF Owed
<1>8. QED BY <1>4, <1>5, <1>6, <1>7 DEF BInv

(* The three sorts of steps: one that looks, one that backs up, and one    *)
(* that changes an item, or fails to.                                      *)
Looks(place, left) ==
  setting' = setting /\ saved' = saved /\ Comes(place, left)

BacksUp(items, place, left) ==
  /\ setting' = setting /\ saved \subseteq saved' /\ Comes(place, left)
  /\ repair' = NoRepair \/ (Wanted => \A i \in items : <<i, setting[i]>> \in saved')

Changes(item, place, left) ==
  /\ (\E v : setting' = [setting EXCEPT ![item] = v]) \/ setting' = setting
  /\ saved' = saved /\ Comes(place, left)

LEMMA LookKeeps ==
  ASSUME part \in BackedParts, BInv, UNCHANGED around, ~Idle,
         NEW place, NEW left, Looks(place, left), Due' = {}, Remaining'
  PROVE  BInv'
<1>1. Follows
  BY Coming DEF Looks, BInv
<1>2. setting' = setting /\ saved' = saved
  BY DEF Looks
<1>3. QED BY <1>1, <1>2, StepKeeps

LEMMA BackUpKeeps ==
  ASSUME part \in BackedParts, BInv, UNCHANGED around, ~Idle,
         NEW items, NEW place, NEW left, BacksUp(items, place, left),
         Due' \subseteq items \cap Backable, Remaining'
  PROVE  BInv'
<1>1. Follows
  BY Coming DEF BacksUp, BInv
<1>2. setting' = setting /\ saved \subseteq saved'
  BY DEF BacksUp
<1>3. \A i \in Due' : Wanted => <<i, first[i]>> \in saved'
  <2>1. CASE repair' = NoRepair
    BY <2>1 DEF Due, NoRepair
  <2>2. CASE repair' # NoRepair
    <3>1. Wanted => \A i \in items : <<i, setting[i]>> \in saved'
      BY <2>2 DEF BacksUp
    <3>2. QED BY <1>2, <3>1 DEF Backed, BInv
  <2>3. QED BY <2>1, <2>2
<1>4. QED BY <1>1, <1>2, <1>3, StepKeeps

LEMMA ChangeKeeps ==
  ASSUME part \in BackedParts, BInv, UNCHANGED around, ~Idle,
         NEW item, NEW place, NEW left, Changes(item, place, left),
         item \in Due \/ item \notin Backable, Due' \subseteq Due, Remaining'
  PROVE  BInv'
<1>1. Follows
  BY Coming DEF Changes, BInv
<1>2. DOMAIN setting' = DOMAIN setting /\ saved' = saved
  BY DEF Changes
<1>3. Backable \subseteq DOMAIN setting /\ (Wanted => \A i \in Due : <<i, first[i]>> \in saved)
  BY DEF BInv, Shape, Owed
<1>4. \A i \in Backable : setting'[i] = setting[i] \/ (Wanted => <<i, first[i]>> \in saved')
  BY <1>2, <1>3 DEF Changes
<1>5. QED BY <1>1, <1>2, <1>4, StepKeeps

(* Where the invariant says nothing of what is left.                       *)
LEMMA NothingRemains ==
  ASSUME part \in BackedParts, part \notin {"autostart", "opengl", "addon"}, UNCHANGED around
  PROVE  Remaining' /\ part' = part /\ Backable' = Backable
  BY DEF Remaining, around, Backable

(* One that changes what is not backed up.                                 *)
LEMMA BesideKeeps ==
  ASSUME part \in BackedParts, BInv, UNCHANGED around, ~Idle, Follows, Remaining', Due' = {},
         DOMAIN setting' = DOMAIN setting, saved' = saved,
         \A i \in Backable : setting'[i] = setting[i]
  PROVE  BInv'
  BY StepKeeps

(* System devices.                                                         *)
LEMMA DevicesKeep ==
  ASSUME part = "devices", BInv, UNCHANGED around, ~Idle, T!FixDevice(repair.finding)
  PROVE  BInv'
<1>. DEFINE d == repair.finding
<1>1. part \in BackedParts /\ Formed
  BY DEF BackedParts, BInv
<1>2. Remaining' /\ part' = part /\ Backable' = Backable
  BY <1>1, NothingRemains
<1>3. CASE T!At("begin")
  <2>1. Looks("backup", repair.left)
    BY <1>3 DEF T!FixDevice, T!At, T!LookAgain, T!NoAnswer, T!Return, T!End, T!Go, T!Step,
                Looks, Comes, NoRepair, T!NoRepair, T!NoFinding, NoFinding
  <2>2. repair'.at \in {"begin", "backup"}
    BY <1>1, <2>1, Coming DEF Looks
  <2>3. QED BY <1>1, <1>2, <2>1, <2>2, LookKeeps DEF Due
<1>4. CASE T!At("backup")
  <2>1. BacksUp({d}, "enable", repair.left)
    BY <1>2, <1>4 DEF T!FixDevice, T!At, T!BackUp, T!Saving, T!Return, T!End, T!Go, T!Step,
                BacksUp, Comes, NoRepair, T!NoRepair, T!NoFinding, NoFinding, Wanted
  <2>2. repair'.at = "begin" \/ repair'.finding = d
    BY <1>1, <2>1, Coming DEF BacksUp
  <2>3. Due' \subseteq {d} \cap Backable
    BY <1>2, <2>2 DEF Due
  <2>4. QED BY <1>1, <1>2, <2>1, <2>3, BackUpKeeps
<1>5. CASE T!At("enable")
  <2>1. Changes(d, "read", {})
    BY <1>5 DEF T!FixDevice, T!At, T!With, T!Step, Changes, Comes
  <2>2. repair'.at \in {"begin", "read"}
    BY <1>1, <2>1, Coming DEF Changes
  <2>3. Due' = {} /\ Due = {d} \cap Backable
    BY <1>2, <1>5, <2>2 DEF Due, T!At
  <2>4. QED BY <1>1, <1>2, <2>1, <2>3, ChangeKeeps
<1>6. CASE T!At("read")
  <2>1. Looks("read", repair.left)
    BY <1>6 DEF T!FixDevice, T!At, T!ReadBack, T!NoAnswer, T!Return, T!End,
                Looks, Comes, NoRepair, T!NoRepair, T!NoFinding, NoFinding
  <2>2. repair'.at \in {"begin", "read"}
    BY <1>1, <2>1, Coming DEF Looks
  <2>3. QED BY <1>1, <1>2, <2>1, <2>2, LookKeeps DEF Due
<1>7. QED BY <1>3, <1>4, <1>5, <1>6 DEF T!FixDevice

(* The threshold of services of their own.                                 *)
LEMMA ThresholdKeeps ==
  ASSUME part = "threshold", BInv, UNCHANGED around, ~Idle, T!FixSplitThreshold
  PROVE  BInv'
<1>1. part \in BackedParts /\ Formed
  BY DEF BackedParts, BInv
<1>2. Remaining' /\ part' = part /\ Backable' = Backable
  BY <1>1, NothingRemains
<1>3. CASE T!At("begin")
  <2>1. Looks("backup", repair.left)
    BY <1>3 DEF T!FixSplitThreshold, T!At, T!LookAgain, T!NoAnswer, T!Return, T!End, T!Go, T!Step,
                Looks, Comes, NoRepair, T!NoRepair, T!NoFinding, NoFinding
  <2>2. repair'.at \in {"begin", "backup"}
    BY <1>1, <2>1, Coming DEF Looks
  <2>3. QED BY <1>1, <1>2, <2>1, <2>2, LookKeeps DEF Due
<1>4. CASE T!At("backup")
  <2>1. BacksUp({"threshold"}, "write", repair.left)
    BY <1>2, <1>4 DEF T!FixSplitThreshold, T!At, T!BackUp, T!Go, T!Return, T!End, T!Step, T!Saving,
                      BacksUp, Comes, NoRepair, T!NoRepair, T!NoFinding, NoFinding, Wanted
  <2>2. repair'.at = "begin" \/ (repair'.left = repair.left /\ repair'.finding = repair.finding)
    BY <1>1, <2>1, Coming DEF BacksUp
  <2>3. Due' \subseteq {"threshold"} \cap Backable
    BY <1>2, <2>2 DEF Due, Backable
  <2>4. QED BY <1>1, <1>2, <2>1, <2>3, BackUpKeeps
<1>5. CASE T!At("write")
  <2>1. Changes("threshold", "read", repair.left)
    BY <1>5 DEF T!FixSplitThreshold, T!At, T!Command, T!CommandOf, T!With, T!End, T!Step, Changes,
                Comes, NoRepair, T!NoRepair, T!NoFinding, NoFinding
  <2>2. repair'.at \in {"begin", "read"}
    BY <1>1, <2>1, Coming DEF Changes
  <2>3. Due' = {} /\ ("threshold" \in Due \/ "threshold" \notin Backable)
    BY <1>2, <1>5, <2>2 DEF Due, Backable, T!At
  <2>4. QED BY <1>1, <1>2, <2>1, <2>3, ChangeKeeps
<1>6. CASE T!At("read")
  <2>1. Looks("read", repair.left)
    BY <1>6 DEF T!FixSplitThreshold, T!At, T!ReadBack, T!NoAnswer, T!Return, T!End, Looks, Comes,
                NoRepair, T!NoRepair, T!NoFinding, NoFinding
  <2>2. repair'.at \in {"begin", "read"}
    BY <1>1, <2>1, Coming DEF Looks
  <2>3. QED BY <1>1, <1>2, <2>1, <2>2, LookKeeps DEF Due
<1>7. QED BY <1>3, <1>4, <1>5, <1>6 DEF T!FixSplitThreshold

(* The service that only the registry can change.                          *)
LEMMA GuardedServiceKeeps ==
  ASSUME part = "services", BInv, UNCHANGED around, ~Idle, T!FixServiceInRegistry
  PROVE  BInv'
<1>1. part \in BackedParts /\ Formed
  BY DEF BackedParts, BInv
<1>2. Remaining' /\ part' = part /\ Backable' = Backable
  BY <1>1, NothingRemains
<1>3. CASE T!At("begin")
  <2>1. Looks("backup", repair.left)
    BY <1>3 DEF T!FixServiceInRegistry, T!At, T!NoAnswer, T!Return, T!End, T!Go, T!Step, Looks,
                Comes, NoRepair, T!NoRepair, T!NoFinding, NoFinding
  <2>2. repair'.at \in {"begin", "backup"}
    BY <1>1, <2>1, Coming DEF Looks
  <2>3. QED BY <1>1, <1>2, <2>1, <2>2, LookKeeps DEF Due
<1>4. CASE T!At("backup")
  <2>1. BacksUp({"start"}, "write", repair.left)
    BY <1>2, <1>4 DEF T!FixServiceInRegistry, T!At, T!BackUp, T!Go, T!Return, T!End, T!Step,
                      T!Saving, BacksUp, Comes, NoRepair, T!NoRepair, T!NoFinding, NoFinding, Wanted
  <2>2. repair'.at = "begin" \/ (repair'.left = repair.left /\ repair'.finding = repair.finding)
    BY <1>1, <2>1, Coming DEF BacksUp
  <2>3. Due' \subseteq {"start"} \cap Backable
    BY <1>2, <2>2 DEF Due, Backable
  <2>4. QED BY <1>1, <1>2, <2>1, <2>3, BackUpKeeps
<1>5. CASE T!At("write")
  <2>1. Changes("start", "read", repair.left)
    BY <1>5 DEF T!FixServiceInRegistry, T!At, T!Command, T!CommandOf, T!With, T!End, T!Step,
                Changes, Comes, NoRepair, T!NoRepair, T!NoFinding, NoFinding
  <2>2. repair'.at \in {"begin", "read"}
    BY <1>1, <2>1, Coming DEF Changes
  <2>3. Due' = {} /\ ("start" \in Due \/ "start" \notin Backable)
    BY <1>2, <1>5, <2>2 DEF Due, Backable, T!At
  <2>4. QED BY <1>1, <1>2, <2>1, <2>3, ChangeKeeps
<1>6. CASE T!At("read")
  <2>1. Looks("read", repair.left)
    BY <1>6 DEF T!FixServiceInRegistry, T!At, T!ReadBack, T!NoAnswer, T!Return, T!End, Looks, Comes,
                NoRepair, T!NoRepair, T!NoFinding, NoFinding
  <2>2. repair'.at \in {"begin", "read"}
    BY <1>1, <2>1, Coming DEF Looks
  <2>3. QED BY <1>1, <1>2, <2>1, <2>2, LookKeeps DEF Due
<1>7. QED BY <1>3, <1>4, <1>5, <1>6 DEF T!FixServiceInRegistry

(* Fast Startup.                                                           *)
LEMMA RestartKeeps ==
  ASSUME part = "restart", BInv, UNCHANGED around, ~Idle, S!FixRestart
  PROVE  BInv'
<1>1. part \in BackedParts /\ Formed
  BY DEF BackedParts, BInv
<1>2. Remaining' /\ part' = part /\ Backable' = Backable
  BY <1>1, NothingRemains
<1>3. CASE S!At("begin")
  <2>1. Looks("backup", repair.left)
    BY <1>3 DEF S!FixRestart, S!At, S!NoAnswer, S!Return, S!End, S!Go, S!Step, Looks, Comes,
                NoRepair, S!NoRepair, S!NoFinding, NoFinding
  <2>2. repair'.at \in {"begin", "backup"}
    BY <1>1, <2>1, Coming DEF Looks
  <2>3. QED BY <1>1, <1>2, <2>1, <2>2, LookKeeps DEF Due
<1>4. CASE S!At("backup")
  <2>1. BacksUp({"hiberboot"}, "write", repair.left)
    BY <1>2, <1>4 DEF S!FixRestart, S!At, S!BackUp, S!Go, S!Return, S!End, S!Step, S!Saving,
                      BacksUp, Comes, NoRepair, S!NoRepair, S!NoFinding, NoFinding, Wanted
  <2>2. repair'.at = "begin" \/ (repair'.left = repair.left /\ repair'.finding = repair.finding)
    BY <1>1, <2>1, Coming DEF BacksUp
  <2>3. Due' \subseteq {"hiberboot"} \cap Backable
    BY <1>2, <2>2 DEF Due, Backable
  <2>4. QED BY <1>1, <1>2, <2>1, <2>3, BackUpKeeps
<1>5. CASE S!At("write")
  <2>1. Changes("hiberboot", "read", repair.left)
    BY <1>5 DEF S!FixRestart, S!At, S!Command, S!CommandOf, S!With, S!End, S!Step, Changes, Comes,
                NoRepair, S!NoRepair, S!NoFinding, NoFinding
  <2>2. repair'.at \in {"begin", "read"}
    BY <1>1, <2>1, Coming DEF Changes
  <2>3. Due' = {} /\ ("hiberboot" \in Due \/ "hiberboot" \notin Backable)
    BY <1>2, <1>5, <2>2 DEF Due, Backable, S!At
  <2>4. QED BY <1>1, <1>2, <2>1, <2>3, ChangeKeeps
<1>6. CASE S!At("read")
  <2>1. Looks("read", repair.left)
    BY <1>6 DEF S!FixRestart, S!At, S!ReadBack, S!NoAnswer, S!Return, S!End, Looks, Comes, NoRepair,
                S!NoRepair, S!NoFinding, NoFinding
  <2>2. repair'.at \in {"begin", "read"}
    BY <1>1, <2>1, Coming DEF Looks
  <2>3. QED BY <1>1, <1>2, <2>1, <2>2, LookKeeps DEF Due
<1>7. QED BY <1>3, <1>4, <1>5, <1>6 DEF S!FixRestart

(* The name servers of an adapter, backed up whatever the user chose.      *)
LEMMA DeadDnsKeeps ==
  ASSUME part = "adapter", BInv, UNCHANGED around, ~Idle, N!FixDeadDns
  PROVE  BInv'
<1>1. part \in BackedParts /\ Formed
  BY DEF BackedParts, BInv
<1>2. Remaining' /\ part' = part /\ Backable' = Backable
  BY <1>1, NothingRemains
<1>3. CASE N!At("begin")
  <2>1. Looks("backup", repair.left)
    BY <1>3 DEF N!FixDeadDns, N!At, N!LookAgain, N!NoAnswer, N!Return, N!End, N!Go, N!Step, Looks,
                Comes, NoRepair, N!NoRepair, N!NoFinding, NoFinding
  <2>2. repair'.at \in {"begin", "backup"}
    BY <1>1, <2>1, Coming DEF Looks
  <2>3. QED BY <1>1, <1>2, <2>1, <2>2, LookKeeps DEF Due
<1>4. CASE N!At("backup")
  <2>1. BacksUp({"dns"}, "reset", {})
    BY <1>2, <1>4 DEF N!FixDeadDns, N!At, N!Return, N!End, N!Step, N!Saving, BacksUp, Comes,
                      NoRepair, N!NoRepair, N!NoFinding, NoFinding, Wanted
  <2>2. repair'.at = "begin" \/ (repair'.left = {} /\ repair'.finding = repair.finding)
    BY <1>1, <2>1, Coming DEF BacksUp
  <2>3. Due' \subseteq {"dns"} \cap Backable
    BY <1>2, <2>2 DEF Due, Backable
  <2>4. QED BY <1>1, <1>2, <2>1, <2>3, BackUpKeeps
<1>5. CASE N!At("reset")
  <2>1. Changes("dns", "read", repair.left)
    BY <1>5 DEF N!FixDeadDns, N!At, N!Command, N!CommandOf, N!With, N!End, N!Step, Changes, Comes,
                NoRepair, N!NoRepair, N!NoFinding, NoFinding
  <2>2. repair'.at \in {"begin", "read"}
    BY <1>1, <2>1, Coming DEF Changes
  <2>3. Due' = {} /\ ("dns" \in Due \/ "dns" \notin Backable)
    BY <1>2, <1>5, <2>2 DEF Due, Backable, N!At
  <2>4. QED BY <1>1, <1>2, <2>1, <2>3, ChangeKeeps
<1>6. CASE N!At("read")
  <2>1. Looks("names", repair.left)
    BY <1>6 DEF N!FixDeadDns, N!At, N!NoAnswer, N!Return, N!End, N!Go, N!Step, Looks, Comes,
                NoRepair, N!NoRepair, N!NoFinding, NoFinding
  <2>2. repair'.at \in {"begin", "names"}
    BY <1>1, <2>1, Coming DEF Looks
  <2>3. QED BY <1>1, <1>2, <2>1, <2>2, LookKeeps DEF Due
<1>7. CASE N!At("names")
  <2>1. Looks("names", repair.left)
    BY <1>7 DEF N!FixDeadDns, N!At, N!Return, N!End, Looks, Comes, NoRepair, N!NoRepair,
                N!NoFinding, NoFinding
  <2>2. repair'.at \in {"begin", "names"}
    BY <1>1, <2>1, Coming DEF Looks
  <2>3. QED BY <1>1, <1>2, <2>1, <2>2, LookKeeps DEF Due
<1>8. QED BY <1>3, <1>4, <1>5, <1>6, <1>7 DEF N!FixDeadDns

(* What else is done to services and the adapter changes nothing of them   *)
(* that is backed up.                                                      *)
LEMMA ServiceKeeps ==
  ASSUME part = "services", BInv, UNCHANGED around, ~Idle,
         NEW svc \in {"auto", "demand", "guarded"}, T!FixService(svc)
  PROVE  BInv'
<1>1. part \in BackedParts /\ Formed /\ Backable = {"start"}
  BY DEF BackedParts, BInv, Backable
<1>2. Remaining' /\ part' = part
  BY <1>1, NothingRemains
<1>3. /\ DOMAIN setting' = DOMAIN setting /\ saved' = saved
      /\ \A i \in Backable : setting'[i] = setting[i]
      /\ Comes("read", repair.left) \/ Comes("start", repair.left)
  <2>1. CASE T!At("begin")
    BY <1>1, <2>1 DEF T!FixService, T!At, T!Command, T!CommandOf, T!With, T!End, T!Step, Shape, BInv,
                Comes, NoRepair, T!NoRepair, T!NoFinding, NoFinding
  <2>2. CASE T!At("read")
    BY <1>1, <2>2 DEF T!FixService, T!At, T!NoAnswer, T!Return, T!End, T!Go, T!Step,
                Comes, NoRepair, T!NoRepair, T!NoFinding, NoFinding
  <2>3. CASE T!At("start")
    <3>1. PICK up : T!End(T!With("running", up), saved, "done")
      BY <2>3 DEF T!FixService, T!At
    <3>2. QED BY <1>1, <3>1 DEF T!With, T!End,
                Comes, NoRepair, T!NoRepair, T!NoFinding, NoFinding
  <2>4. QED BY <2>1, <2>2, <2>3 DEF T!FixService
<1>4. Follows /\ repair'.at \in {"begin", "read", "start"}
  BY <1>1, <1>3, Coming
<1>5. Due' = {}
  BY <1>2, <1>4 DEF Due
<1>6. QED BY <1>1, <1>2, <1>3, <1>4, <1>5, BesideKeeps

LEMMA AdapterKeeps ==
  ASSUME part = "adapter", BInv, UNCHANGED around, ~Idle,
         N!FixAdapterOff \/ N!FixNoDhcp \/ N!FixNames
  PROVE  BInv'
<1>1. part \in BackedParts /\ Formed /\ Backable = {"dns"} /\ "dns" \in DOMAIN setting
  BY DEF BackedParts, BInv, Backable, Shape
<1>2. Remaining' /\ part' = part
  BY <1>1, NothingRemains
<1>. DEFINE Places == {"enable", "read", "renew", "register", "names"}
<1>3. /\ DOMAIN setting' = DOMAIN setting /\ saved' = saved
      /\ \A i \in Backable : setting'[i] = setting[i]
      /\ \E place \in Places : Comes(place, repair.left)
  <2>1. CASE N!FixAdapterOff /\ N!At("enable")
    <3>1. PICK address : N!Command([setting EXCEPT !.admin = "on", !.address = address], "read")
      BY <2>1 DEF N!FixAdapterOff, N!At
    <3>2. /\ setting' = [setting EXCEPT !.admin = "on", !.address = address] \/ setting' = setting
          /\ saved' = saved
      BY <3>1 DEF N!Command, N!CommandOf, N!End, N!Step
    <3>3. Comes("read", repair.left)
      BY <3>1 DEF N!Command, N!CommandOf, N!End, N!Step, Comes, NoRepair, N!NoRepair, N!NoFinding, NoFinding
    <3>4. QED BY <1>1, <3>2, <3>3
  <2>2. CASE N!FixAdapterOff /\ ~N!At("enable")
    <3>1. setting' = setting /\ saved' = saved
      BY <2>2 DEF N!FixAdapterOff, N!At, N!LookAgain, N!ReadBack, N!NoAnswer, N!Return,
                N!Go, N!End, N!Step
    <3>2. Comes("enable", repair.left)
      BY <2>2 DEF N!FixAdapterOff, N!At, N!LookAgain, N!ReadBack, N!NoAnswer, N!Return,
                N!Go, N!End, N!Step, Comes, NoRepair, N!NoRepair, N!NoFinding, NoFinding
    <3>3. QED BY <3>1, <3>2
  <2>3. CASE N!FixNoDhcp
    <3>1. /\ setting' = [setting EXCEPT !["address"] = "lease"] \/ setting' = setting
          /\ saved' = saved
      BY <2>3 DEF N!FixNoDhcp, N!At, N!LookAgain, N!ReadBack, N!NoAnswer, N!Return, N!Ignored,
                N!With, N!Go, N!End, N!Step
    <3>2. Comes("renew", repair.left) \/ Comes("read", repair.left)
      BY <2>3 DEF N!FixNoDhcp, N!At, N!LookAgain, N!ReadBack, N!NoAnswer, N!Return, N!Ignored,
                N!Go, N!End, N!Step, Comes, NoRepair, N!NoRepair, N!NoFinding, NoFinding
    <3>3. QED BY <1>1, <3>1, <3>2
  <2>4. CASE N!FixNames
    <3>1. /\ setting' = [setting EXCEPT !["cache"] = "good"] \/ setting' = setting
          /\ saved' = saved
      BY <2>4 DEF N!FixNames, N!At, N!Return, N!Ignored, N!With, N!Go, N!End, N!Step
    <3>2. Comes("register", repair.left) \/ Comes("names", repair.left)
      BY <2>4 DEF N!FixNames, N!At, N!Return, N!Ignored, N!Go, N!End, N!Step,
                  Comes, NoRepair, N!NoRepair, N!NoFinding, NoFinding
    <3>3. QED BY <1>1, <3>1, <3>2
  <2>5. QED BY <2>1, <2>2, <2>3, <2>4
<1>4. PICK place \in Places : Comes(place, repair.left)
  BY <1>3
<1>5. Follows /\ repair'.at \in {"begin", place}
  BY <1>1, <1>4, Coming
<1>6. Due' = {}
  BY <1>2, <1>4, <1>5 DEF Due
<1>7. QED BY <1>1, <1>2, <1>3, <1>5, <1>6, BesideKeeps

(* The hosts file is copied and replaced in one go.                        *)
LEMMA HostsKeep ==
  ASSUME part = "hosts", BInv, UNCHANGED around, ~Idle, T!FixHosts
  PROVE  BInv'
<1>1. part \in BackedParts /\ Formed /\ Backable = {"hosts"} /\ Shape /\ Backed
  BY DEF BackedParts, BInv, Backable
<1>2. Remaining' /\ part' = part
  BY <1>1, NothingRemains
<1>3. \/ setting' = setting /\ saved' = saved
      \/ /\ saved' = saved \cup {<<"hosts", setting["hosts"]>>}
         /\ setting' = setting \/ \E v : setting' = [setting EXCEPT !["hosts"] = v]
  BY DEF T!FixHosts, T!Return, T!Go, T!ReplaceHosts, T!Saving, T!With, T!End, T!Step
<1>4. Comes("flush", repair.left) \/ Comes("flush", {})
  BY DEF T!FixHosts, T!At, T!Return, T!Go, T!ReplaceHosts, T!End, T!Step,
         Comes, NoRepair, T!NoRepair, T!NoFinding, NoFinding
<1>5. Follows
  BY <1>1, <1>4, Coming
<1>6. Due' = {}
  BY <1>2 DEF Due
<1>7. DOMAIN setting' = DOMAIN setting /\ saved \subseteq saved'
  BY <1>3
<1>8. \A i \in Backable : setting'[i] = setting[i] \/ (Wanted => <<i, first[i]>> \in saved')
  BY <1>1, <1>3 DEF Backed
<1>9. QED BY <1>1, <1>2, <1>5, <1>6, <1>7, <1>8, StepKeeps

(* Policies: the values in force are what is left to delete.               *)
LEMMA PoliciesKeep ==
  ASSUME part = "policies", BInv, UNCHANGED around, ~Idle, NEW f, T!FixPolicy(f)
  PROVE  BInv'
<1>1. part \in BackedParts /\ Formed
  BY DEF BackedParts, BInv
<1>2. Remaining' /\ part' = part /\ Backable' = Backable /\ Backable = T!PolicyValues
  BY <1>1, NothingRemains DEF Backable
<1>3. CASE T!At("begin")
  <2>1. \E values : Looks("backup", values)
    <3>1. \/ T!Return("failed") \/ T!Return("unchanged")
          \/ \E values : T!Take(values, "backup")
      BY <1>3 DEF T!FixPolicy, T!At, T!NoAnswer
    <3>2. QED BY <3>1 DEF T!Return, T!End, T!Take, T!Step,
                          Looks, Comes, NoRepair, T!NoRepair, T!NoFinding, NoFinding
  <2>2. PICK values : Looks("backup", values)
    BY <2>1
  <2>3. repair'.at \in {"begin", "backup"}
    BY <1>1, <2>2, Coming DEF Looks
  <2>4. QED BY <1>1, <1>2, <2>2, <2>3, LookKeeps DEF Due
<1>4. CASE T!At("backup")
  <2>1. BacksUp(repair.left, "delete", repair.left)
    BY <1>2, <1>4 DEF T!FixPolicy, T!At, T!BackUp, T!Go, T!Return, T!End, T!Step, T!Saving,
                      BacksUp, Comes, NoRepair, T!NoRepair, T!NoFinding, NoFinding, Wanted
  <2>2. repair'.left \in {{}, repair.left}
    BY <1>1, <2>1, Coming DEF BacksUp
  <2>3. Due' \subseteq repair.left \cap Backable
    BY <1>2, <2>2 DEF Due
  <2>4. QED BY <1>1, <1>2, <2>1, <2>3, BackUpKeeps
<1>5. CASE T!At("delete")
  <2>1. PICK i \in repair.left, place \in {"check", "delete"} : Changes(i, place, repair.left \ {i})
    <3>1. PICK i \in repair.left :
            T!CommandOf(T!With(i, FALSE), IF repair.left = {i} THEN "check" ELSE repair.at, repair.left \ {i})
      BY <1>5 DEF T!FixPolicy, T!At, T!Each
    <3>2. PICK place \in {"check", "delete"} : T!CommandOf(T!With(i, FALSE), place, repair.left \ {i})
      BY <1>5, <3>1 DEF T!At
    <3>3. Changes(i, place, repair.left \ {i})
      BY <3>2 DEF T!CommandOf, T!With, T!End, T!Step, Changes, Comes,
                  NoRepair, T!NoRepair, T!NoFinding, NoFinding
    <3>4. QED BY <3>3
  <2>2. repair'.left \in {{}, repair.left \ {i}}
    BY <1>1, <2>1, Coming DEF Changes
  <2>3. Due = repair.left \cap Backable
    BY <1>5 DEF Due, T!At
  <2>4. Due' \subseteq Due
    BY <1>2, <2>2, <2>3 DEF Due
  <2>5. QED BY <1>1, <1>2, <2>1, <2>3, <2>4, ChangeKeeps
<1>6. CASE T!At("check")
  <2>1. Looks("wait", repair.left)
    <3>1. T!Return("failed") \/ T!Return("done") \/ T!Return("unproved") \/ T!Go("wait")
      BY <1>6 DEF T!FixPolicy, T!At, T!NoAnswer
    <3>2. QED BY <3>1 DEF T!Return, T!End, T!Go, T!Step,
                          Looks, Comes, NoRepair, T!NoRepair, T!NoFinding, NoFinding
  <2>2. repair'.at \in {"begin", "wait"}
    BY <1>1, <2>1, Coming DEF Looks
  <2>3. QED BY <1>1, <1>2, <2>1, <2>2, LookKeeps DEF Due
<1>7. CASE T!At("wait")
  <2>1. /\ \E on : setting' = [setting EXCEPT !["realtime"] = on]
        /\ saved' = saved
        /\ repair' = NoRepair \/ \E n : repair' = [repair EXCEPT !.tries = n]
    <3>1. T!DefenderCameOn
      BY <1>7 DEF T!FixPolicy, T!At
    <3>2. PICK on : \/ T!End(T!With("realtime", on), saved, "done")
                    \/ /\ setting' = T!With("realtime", on) /\ repair' = [repair EXCEPT !.tries = @ + 1]
                       /\ UNCHANGED <<saved, report, done>>
                    \/ T!End(T!With("realtime", on), saved, "failed")
      BY <3>1 DEF T!DefenderCameOn
    <3>3. QED BY <3>2 DEF T!End, T!With, NoRepair, T!NoRepair, T!NoFinding, NoFinding
  <2>2. Follows /\ repair'.at \in {"begin", "wait"}
    BY <1>1, <1>7, <2>1 DEF Follows, Formed, T!At, NoRepair
  <2>3. Due' = {}
    BY <1>2, <2>2 DEF Due
  <2>4. "realtime" \notin Backable
    BY <1>2 DEF T!PolicyValues, T!WsusValues, T!StoreValues, T!DefenderValues, T!SingleValues
  <2>5. DOMAIN setting' = DOMAIN setting /\ \A i \in Backable : setting'[i] = setting[i]
    BY <1>1, <2>1, <2>4 DEF BInv, Shape
  <2>6. QED BY <1>1, <1>2, <2>1, <2>2, <2>3, <2>5, BesideKeeps
<1>8. QED BY <1>3, <1>4, <1>5, <1>6, <1>7 DEF T!FixPolicy

(* Run values: those whose programs are gone are what is left.             *)
LEMMA AutostartKeeps ==
  ASSUME part = "autostart", BInv, UNCHANGED around, ~Idle, S!RemoveOrphans(repair.finding)
  PROVE  BInv'
<1>. DEFINE key == repair.finding
<1>1. part \in BackedParts /\ Formed /\ Remaining
  BY DEF BackedParts, BInv
<1>2. part' = part /\ Backable' = Backable
  BY DEF around, Backable
<1>3. CASE S!At("begin")
  <2>1. \E orphans \in SUBSET S!RunKeys[key] : Looks("backup", orphans)
    <3>1. \/ S!Return("failed") \/ S!Return("done")
          \/ S!Take(S!MissingTargets(setting, key), "backup")
      BY <1>3 DEF S!RemoveOrphans, S!At, S!NoAnswer
    <3>2. Looks("backup", S!MissingTargets(setting, key))
      BY <3>1 DEF S!Return, S!End, S!Take, S!Step,
                  Looks, Comes, NoRepair, S!NoRepair, S!NoFinding, NoFinding
    <3>3. QED BY <3>2 DEF S!MissingTargets
  <2>2. PICK orphans \in SUBSET S!RunKeys[key] : Looks("backup", orphans)
    BY <2>1
  <2>3. \/ repair'.at = "begin"
        \/ repair'.at = "backup" /\ repair'.left = orphans /\ repair'.finding = key
    BY <1>1, <2>2, Coming DEF Looks
  <2>4. Remaining' /\ Due' = {}
    BY <1>2, <2>2, <2>3 DEF Remaining, Due
  <2>5. QED BY <1>1, <2>2, <2>4, LookKeeps
<1>4. CASE S!At("backup")
  <2>1. BacksUp(S!RunKeys[key], "delete", repair.left)
    BY <1>4 DEF S!RemoveOrphans, S!At, S!BackUp, S!Go, S!Return, S!End, S!Step, S!Saving,
                BacksUp, Comes, NoRepair, S!NoRepair, S!NoFinding, NoFinding, Wanted
  <2>2. \/ repair'.at = "begin"
        \/ repair'.at = "delete" /\ repair'.left = repair.left /\ repair'.finding = key
    BY <1>1, <2>1, Coming DEF BacksUp
  <2>3. repair.left \subseteq S!RunKeys[key]
    BY <1>1, <1>4 DEF Remaining, S!At
  <2>4. Remaining' /\ Due' \subseteq S!RunKeys[key] \cap Backable
    BY <1>2, <2>2, <2>3 DEF Remaining, Due
  <2>5. QED BY <1>1, <2>1, <2>4, BackUpKeeps
<1>5. CASE S!At("delete")
  <2>1. PICK i \in repair.left, place \in {"read", "delete"} : Changes(i, place, repair.left \ {i})
    <3>1. PICK i \in repair.left :
            S!CommandOf(S!With(i, "none"), IF repair.left = {i} THEN "read" ELSE repair.at, repair.left \ {i})
      BY <1>5 DEF S!RemoveOrphans, S!At, S!Each
    <3>2. PICK place \in {"read", "delete"} : S!CommandOf(S!With(i, "none"), place, repair.left \ {i})
      BY <1>5, <3>1 DEF S!At
    <3>3. Changes(i, place, repair.left \ {i})
      BY <3>2 DEF S!CommandOf, S!With, S!End, S!Step, Changes, Comes,
                  NoRepair, S!NoRepair, S!NoFinding, NoFinding
    <3>4. QED BY <3>3
  <2>2. \/ repair'.at = "begin" /\ repair'.left = {}
        \/ repair'.left = repair.left \ {i} /\ repair'.finding = key
    BY <1>1, <2>1, Coming DEF Changes
  <2>3. Due = repair.left \cap Backable /\ repair.left \subseteq S!RunKeys[key]
    BY <1>1, <1>5 DEF Due, S!At, Remaining
  <2>4. Due' \subseteq Due
    BY <1>2, <2>2, <2>3 DEF Due
  <2>5. Remaining'
    BY <1>2, <2>2, <2>3 DEF Remaining
  <2>6. QED BY <1>1, <2>1, <2>3, <2>4, <2>5, ChangeKeeps
<1>6. CASE S!At("read")
  <2>1. Looks("read", repair.left)
    BY <1>6 DEF S!RemoveOrphans, S!At, S!ReadBack, S!NoAnswer, S!Return, S!End,
                Looks, Comes, NoRepair, S!NoRepair, S!NoFinding, NoFinding
  <2>2. repair'.at \in {"begin", "read"}
    BY <1>1, <2>1, Coming DEF Looks
  <2>3. Remaining' /\ Due' = {}
    BY <1>2, <2>2 DEF Remaining, Due
  <2>4. QED BY <1>1, <2>1, <2>3, LookKeeps
<1>7. QED BY <1>3, <1>4, <1>5, <1>6 DEF S!RemoveOrphans

(* The graphics card's OpenGL entries: the next is one that is left.       *)
LEMMA OpenGlKeeps ==
  ASSUME part = "opengl", BInv, UNCHANGED around, ~Idle, H!RepairOpenGl
  PROVE  BInv'
<1>1. part \in BackedParts /\ Formed /\ Remaining
  BY DEF BackedParts, BInv
<1>2. part' = part /\ Backable' = Backable /\ Backable = H!Entries
  BY DEF around, Backable
<1>3. CASE H!At("begin")
  <2>1. Looks("key", repair.left)
    BY <1>3 DEF H!RepairOpenGl, H!At, H!NoAnswer, H!Return, H!End, H!Go, H!Step,
                Looks, Comes, NoRepair, H!NoRepair, H!NoFinding, NoFinding
  <2>2. repair'.at \in {"begin", "key"}
    BY <1>1, <2>1, Coming DEF Looks
  <2>3. Remaining' /\ Due' = {}
    BY <1>2, <2>2 DEF Remaining, Due
  <2>4. QED BY <1>1, <2>1, <2>3, LookKeeps
<1>4. CASE H!At("key")
  <2>1. \E entries \in SUBSET H!Entries : entries # {} /\ Looks("backup", entries)
    <3>1. \/ H!Return("unchanged") \/ H!Return("done")
          \/ H!BrokenEntries(setting) # {} /\ H!Take(H!BrokenEntries(setting), "backup")
      BY <1>4 DEF H!RepairOpenGl, H!At
    <3>2. CASE H!Return("unchanged") \/ H!Return("done")
      <4>1. Looks("backup", H!Entries)
        BY <3>2 DEF H!Return, H!End, Looks, Comes, NoRepair, H!NoRepair, H!NoFinding, NoFinding
      <4>2. H!Entries # {}
        BY DEF H!Entries
      <4>3. QED BY <4>1, <4>2
    <3>3. CASE H!BrokenEntries(setting) # {} /\ H!Take(H!BrokenEntries(setting), "backup")
      <4>1. Looks("backup", H!BrokenEntries(setting))
        BY <3>3 DEF H!Take, H!Step, Looks, Comes
      <4>2. QED BY <3>3, <4>1 DEF H!BrokenEntries
    <3>4. QED BY <3>1, <3>2, <3>3
  <2>2. PICK entries \in SUBSET H!Entries : entries # {} /\ Looks("backup", entries)
    BY <2>1
  <2>3. repair'.at = "begin" \/ (repair'.at = "backup" /\ repair'.left = entries)
    BY <1>1, <2>2, Coming DEF Looks
  <2>4. Remaining' /\ Due' = {}
    BY <1>2, <2>2, <2>3 DEF Remaining, Due
  <2>5. QED BY <1>1, <2>2, <2>4, LookKeeps
<1>5. CASE H!At("backup")
  <2>1. BacksUp(repair.left, "set", repair.left)
    BY <1>2, <1>5 DEF H!RepairOpenGl, H!At, H!BackUp, H!Go, H!Return, H!End, H!Step, H!Saving,
                BacksUp, Comes, NoRepair, H!NoRepair, H!NoFinding, NoFinding, Wanted
  <2>2. repair'.at = "begin" \/ (repair'.at = "set" /\ repair'.left = repair.left)
    BY <1>1, <2>1, Coming DEF BacksUp
  <2>3. Remaining' /\ Due' \subseteq repair.left \cap Backable
    BY <1>1, <1>2, <1>5, <2>2 DEF Remaining, Due, H!At
  <2>4. QED BY <1>1, <2>1, <2>3, BackUpKeeps
<1>6. CASE H!At("set")
  <2>1. PICK e \in H!Entries : e \in repair.left /\ H!SetEntry(e)
    <3>1. repair.left \subseteq {"wide", "wow"} /\ repair.left # {}
      BY <1>1, <1>6 DEF Remaining, H!At, H!Entries
    <3>2. H!SetEntry(IF "wide" \in repair.left THEN "wide" ELSE "wow")
      BY <1>6 DEF H!RepairOpenGl, H!At
    <3>3. QED BY <3>1, <3>2 DEF H!Entries
  <2>2. PICK place \in {"read", "set"} : /\ Changes(e, place, repair.left \ {e})
                                         /\ place = "set" => repair.left \ {e} # {}
    <3>1. saved' = saved /\ ((\E v : setting' = [setting EXCEPT ![e] = v]) \/ setting' = setting)
      BY <2>1 DEF H!SetEntry, H!With, H!Return, H!End, H!Step
    <3>2. \/ repair' = NoRepair
          \/ repair' = [repair EXCEPT !.at = IF repair.left \ {e} = {} THEN "read" ELSE "set",
                                      !.left = repair.left \ {e}]
      BY <2>1 DEF H!SetEntry, H!Return, H!End, H!Step, NoRepair, H!NoRepair, H!NoFinding, NoFinding
    <3>3. CASE repair.left \ {e} = {}
      BY <3>1, <3>2, <3>3 DEF Changes, Comes
    <3>4. CASE repair.left \ {e} # {}
      BY <3>1, <3>2, <3>4 DEF Changes, Comes
    <3>5. QED BY <3>3, <3>4
  <2>3. \/ repair'.at = "begin"
        \/ repair'.at = place /\ repair'.left = repair.left \ {e}
    BY <1>1, <2>2, Coming DEF Changes
  <2>4. Due = repair.left \cap Backable
    BY <1>6 DEF Due, H!At
  <2>5. Due' \subseteq Due
    BY <1>2, <2>3, <2>4 DEF Due
  <2>6. Remaining'
    BY <1>1, <1>2, <1>6, <2>2, <2>3 DEF Remaining, H!At
  <2>7. QED BY <1>1, <1>2, <2>1, <2>2, <2>4, <2>5, <2>6, ChangeKeeps
<1>7. CASE H!At("read")
  <2>1. Looks("read", repair.left)
    BY <1>7 DEF H!RepairOpenGl, H!At, H!ReadBack, H!NoAnswer, H!Return, H!End,
                Looks, Comes, NoRepair, H!NoRepair, H!NoFinding, NoFinding
  <2>2. repair'.at \in {"begin", "read"}
    BY <1>1, <2>1, Coming DEF Looks
  <2>3. Remaining' /\ Due' = {}
    BY <1>2, <2>2 DEF Remaining, Due
  <2>4. QED BY <1>1, <2>1, <2>3, LookKeeps
<1>8. QED BY <1>3, <1>4, <1>5, <1>6, <1>7 DEF H!RepairOpenGl

(* Add-ons: a list that was not there is made by the first that is         *)
(* blocked, and there is nothing to back up.                               *)
LEMMA AddonKeeps ==
  ASSUME part = "addon", BInv, UNCHANGED around, ~Idle, K!BlockAddon
  PROVE  BInv'
<1>1. /\ part \in BackedParts /\ Formed /\ Remaining /\ Backed /\ Owed
      /\ "blocked" \in DOMAIN setting /\ "registered" \in DOMAIN setting
      /\ setting.registered \subseteq {"a", "b"} /\ repair.left \subseteq {"a", "b"}
      /\ setting.blocked = K!NoKey => first.blocked = K!NoKey
  BY DEF BackedParts, BInv, Remaining
<1>2. part' = part /\ first' = first /\ Backable' = Backable /\ Backable = {"blocked"}
  BY DEF around, Backable
<1>3. CASE K!At("begin")
  <2>1. \E classes \in SUBSET {"a", "b"}, place \in {"block", "backup"} :
          /\ Looks(place, classes)
          /\ place = "block" => setting.blocked = K!NoKey
    <3>1. \/ K!Return("failed") \/ K!Return("unchanged")
          \/ K!Take(K!LeftToBlock(setting), IF setting.blocked = K!NoKey THEN "block" ELSE "backup")
      BY <1>3 DEF K!BlockAddon, K!At, K!NoAnswer
    <3>2. CASE K!Return("failed") \/ K!Return("unchanged")
      <4>1. Looks("backup", {})
        BY <3>2 DEF K!Return, K!End, Looks, Comes, NoRepair, K!NoRepair, K!NoFinding, NoFinding
      <4>2. QED BY <4>1
    <3>3. CASE K!Take(K!LeftToBlock(setting), IF setting.blocked = K!NoKey THEN "block" ELSE "backup")
      <4>1. K!LeftToBlock(setting) \in SUBSET {"a", "b"}
        BY <1>1 DEF K!LeftToBlock
      <4>2. CASE setting.blocked = K!NoKey
        <5>1. Looks("block", K!LeftToBlock(setting))
          BY <3>3, <4>2 DEF K!Take, K!Step, Looks, Comes
        <5>2. QED BY <4>1, <4>2, <5>1
      <4>3. CASE setting.blocked # K!NoKey
        <5>1. Looks("backup", K!LeftToBlock(setting))
          BY <3>3, <4>3 DEF K!Take, K!Step, Looks, Comes
        <5>2. QED BY <4>1, <5>1
      <4>4. QED BY <4>2, <4>3
    <3>4. QED BY <3>1, <3>2, <3>3
  <2>2. PICK classes \in SUBSET {"a", "b"}, place \in {"block", "backup"} :
          /\ Looks(place, classes)
          /\ place = "block" => setting.blocked = K!NoKey
    BY <2>1
  <2>3. /\ Follows /\ repair'.at \in {"begin", place} /\ repair'.left \in {{}, classes}
        /\ setting' = setting /\ saved' = saved
    BY <1>1, <2>2, Coming DEF Looks
  <2>4. Remaining'
    BY <1>1, <1>2, <2>3 DEF Remaining
  <2>5. Due' = {} \/ ~Wanted
    <3>1. CASE place = "block"
      BY <1>1, <2>2, <3>1 DEF Wanted
    <3>2. CASE place = "backup"
      BY <1>2, <2>3, <3>2 DEF Due
    <3>3. QED BY <3>1, <3>2
  <2>6. QED BY <1>1, <2>3, <2>4, <2>5, StepKeeps
<1>4. CASE K!At("backup")
  <2>1. BacksUp({"blocked"}, "block", repair.left)
    BY <1>4 DEF K!BlockAddon, K!At, K!Return, K!End, K!Step, K!Saving,
                BacksUp, Comes, NoRepair, K!NoRepair, K!NoFinding, NoFinding
  <2>2. repair'.left \in {{}, repair.left} /\ setting' = setting
    BY <1>1, <2>1, Coming DEF BacksUp
  <2>3. Remaining' /\ Due' \subseteq {"blocked"} \cap Backable
    BY <1>1, <1>2, <2>2 DEF Remaining, Due
  <2>4. QED BY <1>1, <2>1, <2>3, BackUpKeeps
<1>5. CASE K!At("block")
  <2>1. PICK c \in repair.left, place \in {"read", "block"} :
          K!CommandOf(K!Blocking(c), place, repair.left \ {c})
    <3>1. PICK c \in repair.left :
            K!CommandOf(K!Blocking(c), IF repair.left = {c} THEN "read" ELSE repair.at, repair.left \ {c})
      BY <1>5 DEF K!BlockAddon, K!At, K!Each
    <3>2. QED BY <1>5, <3>1 DEF K!At
  <2>2. /\ setting' = [setting EXCEPT !["blocked"] = (setting.blocked \ K!NoKey) \cup {c}] \/ setting' = setting
        /\ saved' = saved /\ Comes(place, repair.left \ {c})
    BY <2>1 DEF K!CommandOf, K!Blocking, K!With, K!End, K!Step, Comes,
                NoRepair, K!NoRepair, K!NoFinding, NoFinding
  <2>3. Changes("blocked", place, repair.left \ {c})
    BY <2>2 DEF Changes
  <2>4. repair'.left \in {{}, repair.left \ {c}}
    BY <1>1, <2>2, Coming
  <2>5. setting'.registered = setting.registered /\ DOMAIN setting' = DOMAIN setting
    BY <1>1, <2>2
  <2>6. setting'.blocked = K!NoKey => setting.blocked = K!NoKey
    <3>1. c \notin K!NoKey
      BY <1>1 DEF K!NoKey
    <3>2. setting' = setting \/ c \in setting'.blocked
      BY <1>1, <2>2
    <3>3. QED BY <3>1, <3>2
  <2>7. Remaining'
    BY <1>1, <1>2, <2>4, <2>5, <2>6 DEF Remaining
  <2>8. Due = {"blocked"} /\ Due' \subseteq Due
    BY <1>2, <1>5 DEF Due, K!At
  <2>9. QED BY <1>1, <1>2, <2>3, <2>7, <2>8, ChangeKeeps
<1>6. CASE K!At("read")
  <2>1. Looks("read", repair.left)
    BY <1>6 DEF K!BlockAddon, K!At, K!ReadBack, K!NoAnswer, K!Return, K!End,
                Looks, Comes, NoRepair, K!NoRepair, K!NoFinding, NoFinding
  <2>2. /\ repair'.at \in {"begin", "read"} /\ repair'.left \in {{}, repair.left}
        /\ setting' = setting
    BY <1>1, <2>1, Coming DEF Looks
  <2>3. Remaining' /\ Due' = {}
    BY <1>1, <1>2, <2>2 DEF Remaining, Due
  <2>4. QED BY <1>1, <2>1, <2>3, LookKeeps
<1>7. QED BY <1>3, <1>4, <1>5, <1>6 DEF K!BlockAddon

---------------------------------------------------------------------------
LEMMA FixKeeps == BInv /\ Fix => BInv'
<1> USE DEF T!Parts, N!Parts, S!Parts, H!Parts, C!Parts, I!Parts, U!Parts, K!Parts
<1>1. SUFFICES ASSUME BInv, Fix, part \in BackedParts
               PROVE  BInv'
  BY DEF BInv, Fix, around
<1>2. UNCHANGED around /\ ~Idle /\ FixIt(repair.finding)
  BY <1>1 DEF Fix
<1>3. CASE part \in {"services", "devices", "threshold", "policies", "hosts"}
  <2>1. T!Fix(repair.finding)
    BY <1>2, <1>3 DEF FixIt
  <2>2. CASE part = "services" /\ repair.finding = "guarded"
    BY <1>1, <1>2, <2>1, <2>2, GuardedServiceKeeps DEF T!Fix
  <2>3. CASE part = "services" /\ repair.finding # "guarded"
    <3>1. repair.finding \in {"auto", "demand", "guarded"}
      BY <1>1, <1>2, <2>3 DEF BInv, Known
    <3>2. T!FixService(repair.finding)
      BY <2>1, <2>3 DEF T!Fix
    <3>3. QED BY <1>1, <1>2, <2>3, <3>1, <3>2, ServiceKeeps
  <2>4. CASE part = "devices"
    BY <1>1, <1>2, <2>1, <2>4, DevicesKeep DEF T!Fix
  <2>5. CASE part = "threshold"
    BY <1>1, <1>2, <2>1, <2>5, ThresholdKeeps DEF T!Fix
  <2>6. CASE part = "policies"
    <3>1. T!FixPolicy(repair.finding)
      BY <2>1, <2>6 DEF T!Fix
    <3>2. QED BY <1>1, <1>2, <2>6, <3>1, PoliciesKeep
  <2>7. CASE part = "hosts"
    BY <1>1, <1>2, <2>1, <2>7, HostsKeep DEF T!Fix
  <2>8. QED BY <1>3, <2>2, <2>3, <2>4, <2>5, <2>6, <2>7
<1>4. CASE part = "adapter"
  <2>1. N!Fix(repair.finding)
    BY <1>2, <1>4 DEF FixIt
  <2>2. repair.finding \in {"dhcp", "off", "servers", "names"}
    BY <1>1, <1>2, <1>4 DEF BInv, Known
  <2>3. N!FixDeadDns \/ N!FixAdapterOff \/ N!FixNoDhcp \/ N!FixNames
    BY <2>1, <2>2 DEF N!Fix
  <2>4. QED BY <1>1, <1>2, <1>4, <2>3, DeadDnsKeeps, AdapterKeeps
<1>5. CASE part \in {"autostart", "restart"}
  <2>1. S!Fix(repair.finding)
    BY <1>2, <1>5 DEF FixIt
  <2>2. \/ part = "autostart" /\ S!RemoveOrphans(repair.finding)
        \/ part = "restart" /\ S!FixRestart
    BY <1>5, <2>1 DEF S!Fix
  <2>3. QED BY <1>1, <1>2, <2>2, AutostartKeeps, RestartKeeps
<1>6. CASE part = "opengl"
  <2>1. H!RepairOpenGl
    BY <1>2, <1>6 DEF FixIt, H!Fix
  <2>2. QED BY <1>1, <1>2, <1>6, <2>1, OpenGlKeeps
<1>7. CASE part = "addon"
  <2>1. K!BlockAddon
    BY <1>2, <1>7 DEF FixIt, K!Fix
  <2>2. QED BY <1>1, <1>2, <1>7, <2>1, AddonKeeps
<1>8. QED BY <1>1, <1>3, <1>4, <1>5, <1>6, <1>7 DEF BackedParts

LEMMA UnchangedKeeps == BInv /\ UNCHANGED vars => BInv'
<1>1. SUFFICES ASSUME BInv, UNCHANGED vars PROVE BInv'
  OBVIOUS
<1>2. UNCHANGED <<part, config, setting, saved, reported, repair, first>>
  BY <1>1 DEF vars
<1>3. Backable' = Backable /\ Due' = Due /\ (Wanted' <=> Wanted)
  BY <1>2 DEF Backable, Due, Wanted
<1>4. QED BY <1>1, <1>2, <1>3 DEF BInv, Formed, Shape, Known, Idle, Remaining, Backed, Owed

LEMMA PartStays == part \in Parts /\ [Next]_vars => part' \in Parts
  BY DEF Next, vars, Scan, StartRepair, Fix, Cancel, around, Restart, SomebodyElse, Becomes

(* Whatever a repair has changed of what is backed up can be put back to   *)
(* what it was before WinMedic came, at every moment, also when the repair *)
(* failed, ran out of time or was dropped halfway and when another one     *)
(* changed the same setting before (registry.rs, export_key; tweaks.rs,    *)
(* network.rs, registry_startup.rs, clock_restart.rs, opengl_driver.rs and *)
(* shell_extensions.rs, the order of their repairs).                       *)
THEOREM NothingIsChangedUnsaved == Spec => []BackedUpFirst
<1>1. Init => part \in Parts /\ BInv
  BY InitHolds, LookedAssumption DEF Init
<1>2. part \in Parts /\ BInv /\ [Next]_vars => (part \in Parts /\ BInv)'
  <2>1. ASSUME part \in Parts, BInv, Next PROVE BInv'
    <3>1. ASSUME NEW f \in reported, StartRepair(f) PROVE BInv'
      BY <2>1, <3>1, StartRepairKeeps
    <3>2. QED BY <2>1, <3>1, ScanKeeps, FixKeeps, CancelKeeps, OutsideKeeps DEF Next
  <2>2. QED BY <2>1, UnchangedKeeps, PartStays
<1>3. part \in Parts /\ BInv => BackedUpFirst
  BY BackedMeans
<1>4. QED BY <1>1, <1>2, <1>3, PTL DEF Spec

---------------------------------------------------------------------------
(* The findings a repair can be started for.                               *)
Cures ==
  CASE part = "services" -> {"auto", "demand", "guarded"}
    [] part = "devices" -> T!CoreDevices
    [] part = "threshold" -> {"grouped"}
    [] part = "policies" -> T!PolicyIds
    [] part = "hosts" -> {"blocks"}
    [] part = "adapter" -> {"dhcp", "off", "servers", "names"}
    [] part = "connections" -> {"user", "winhttp", "catalog"}
    [] part = "pagefile" -> {"disabled", "fixedsize"}
    [] part = "autostart" -> {"user", "machine"}
    [] part = "restart" -> {"overdue"}
    [] part = "device" -> {"restart", "driver"}
    [] part = "printing" -> {"queue"}
    [] part = "whea" -> {"cpu", "memory", "pcie"}
    [] part = "store" -> {"store"}
    [] part = "updates" -> {"reset"}
    [] part = "bluescreen" -> {"memory"}
    [] part = "reboot" -> {}
    [] part \in {"opengl", "clock", "dirty", "icons", "temp", "cache", "delivery", "downloads",
                 "logs", "bin", "winsxs", "sfc", "vss", "winre", "wmi", "apps", "dumps", "addon"}
         -> {part}
    [] part = "updateservice" -> {"service"}
    [] part = "tasks" -> {"orphaned", "failing"} \X U!TaskOwners

(* Problems of a device that no repair is for.                             *)
Harmless == {"none", "gone", "advice"}

Cured(f, s) ==
  CASE part = "services" -> IF f = "guarded" THEN s.start = "auto" ELSE s[f] # "disabled"
    [] part = "devices" -> s[f] # "disabled"
    [] part = "threshold" -> s.threshold # "raised"
    [] part = "policies" -> T!PolicyHit(f, s, TRUE) = {} \/ (f = "defender" /\ s.realtime)
    [] part = "hosts" -> T!HostsBlocks(s.hosts) = {}
    [] part = "adapter" ->
         (CASE f = "dhcp" -> s.admin = "on" /\ s.address # "standin"
           [] f = "off" -> s.admin = "on"
           [] f = "servers" -> s.dns # "dead"
           [] f = "names" -> N!Resolves(s))
    [] part = "connections" -> IF f = "catalog" THEN s.catalog \in {"reset", "intact"} ELSE s[f] # "dead"
    [] part = "pagefile" -> IF f = "disabled" THEN s.files # "none" ELSE s.files \notin {"small", "inverted"}
    [] part = "autostart" -> S!MissingTargets(s, f) = {}
    [] part = "clock" -> s.clock = "right"
    [] part = "opengl" -> s.card # "works" \/ H!BrokenEntries(s) = {}
    [] part = "device" -> s.problem \in Harmless
    [] part = "printing" -> s.spooler = "running" /\ s.jobs = "none"
    [] part = "whea" -> IF f = "pcie" THEN H!AspmOff(s) ELSE s.ram = "good" => s.test \in {"scheduled", "passed"}
    [] part = "icons" -> s.icons = "small"
    [] part \in {"temp", "cache", "delivery", "downloads"} -> s[part] \subseteq C!Held
    [] part = "logs" -> "log" \notin s.logs
    [] part = "bin" -> \A d \in C!Drives : "item" \notin s[d]
    [] part = "winsxs" -> s.packages = 0 \/ s.note = s.packages
    [] part = "store" -> ~s.marked /\ s.report \in {{}, {"backups"}}
    [] part = "sfc" -> s.left = {} /\ ~s.summary
    [] part = "vss" -> s.vss # "disabled"
    [] part = "winre" -> s.winre = "on"
    [] part = "wmi" -> s.failing = {}
    [] part = "apps" -> I!BrokenPackages(s) = {}
    [] part = "tasks" -> ~s[f[2]].enabled
    [] part = "updateservice" -> s.start # "disabled"
    [] part = "bluescreen" ->
         s.ram = "good" /\ s.time # "unknown" =>
           s.test = "scheduled" \/ (s.test = "passed" /\ s.time = "before")
    [] part = "dumps" -> s.old = {}
    [] part = "addon" -> K!LeftToBlock(s) = {}
    [] OTHER -> TRUE

(* What a part has settings for, as far as its repairs and findings need.  *)
Items ==
  CASE part = "services" -> {"auto", "demand", "guarded", "start"}
    [] part = "devices" -> T!CoreDevices
    [] part = "threshold" -> {"threshold", "memory"}
    [] part = "policies" -> T!PolicyValues \cup {"realtime", "storeEdition"}
    [] part = "adapter" -> {"admin", "address", "dns", "cache", "other", "router"}
    [] part = "connections" -> {"user", "winhttp", "catalog"}
    [] part = "pagefile" -> {"files"}
    [] part = "autostart" -> S!RunKeys.user \cup S!RunKeys.machine
    [] part = "restart" -> {"up"}
    [] part = "opengl" -> H!Entries \cup {"card"}
    [] part = "device" -> {"problem"}
    [] part = "printing" -> {"spooler", "jobs"}
    [] part = "whea" -> {"test", "ac", "dc", "ram"}
    [] part = "bin" -> C!Drives
    [] part = "winsxs" -> {"packages", "note"}
    [] part = "store" -> {"damage", "report", "marked", "isos"}
    [] part = "sfc" -> {"left", "summary"}
    [] part = "wmi" -> {"failing"}
    [] part = "tasks" -> U!TaskOwners
    [] part = "updates" -> {"log"}
    [] part = "updateservice" -> {"start"}
    [] part = "reboot" -> {"cbs", "wu"}
    [] part = "bluescreen" -> {"test", "time", "ram"}
    [] part = "dumps" -> {"old"}
    [] part = "addon" -> {"blocked", "registered"}
    [] part = "apps" -> {}
    [] OTHER -> {part}

Held == Items \subseteq DOMAIN setting

Repairable ==
  /\ reported \subseteq Cures \cup About.advice
  /\ done \subseteq Cures
  /\ ~Idle => repair.finding \in Cures /\ repair.finding \notin About.advice

Lasting == \A f \in done : Cured(f, setting)

OnceParts == {"printing", "winsxs", "store", "device"}
Once == part \in OnceParts =>
  /\ \A f, g \in reported \cap Cures : f = g
  /\ ~Idle \/ done # {} => reported \cap Cures = {}
  /\ ~Idle => done = {}

Underway ==
  /\ part = "services" /\ repair.at = "start" => setting[repair.finding] # "disabled"
  /\ part = "devices" /\ repair.at # "begin" => repair.finding \notin done
  /\ part = "policies" =>
       repair.left \subseteq T!PolicyValues /\ (repair.at = "wait" => repair.finding = "defender")
  /\ part = "hosts" /\ repair.at = "flush" => T!HostsBlocks(setting.hosts) = {}
  /\ part = "adapter" =>
       /\ repair.at = "enable" => setting.admin = "off"
       /\ repair.finding = "dhcp" => setting.admin = "on"
       /\ repair.finding = "servers" /\ repair.at = "names" => setting.dns = "none"
  /\ part = "device" /\ ~Idle /\ repair.at = "begin" =>
       setting.problem \in {repair.finding} \cup Harmless
  /\ part \in {"temp", "cache", "delivery", "downloads"} /\ ~Idle /\ repair.at \in {"begin", "sweep"} =>
       before[part] = setting[part]
  /\ part = "delivery" /\ repair.at = "rest" => "held" \notin setting.delivery
  /\ part = "downloads" /\ repair.at = "start" =>
       before.downloads = repair.left /\ setting.downloads = repair.left \cap C!Held
  /\ part = "apps" /\ repair.at # "begin" => I!BrokenPackages(setting) \subseteq repair.left
  /\ part = "updateservice" /\ repair.at \in {"net", "state"} => setting.start # "disabled"

(* What no repair changes, and what else a finding says.                   *)
World ==
  /\ part = "adapter" =>
       setting.admin \in {"on", "off"} /\ ("dhcp" \in reported => setting.admin = "on")
  /\ part = "device" /\ reported \cap Cures # {} => setting.problem \in (reported \cap Cures) \cup Harmless
  /\ part \in {"temp", "cache", "delivery", "downloads"} /\ Idle /\ part \in done /\ "held" \in setting[part] =>
       before[part] \ C!Held # {}
  /\ part = "addon" => setting.registered \cap K!NoKey = {}
  /\ part = "tasks" => \A t \in U!TaskOwners : "enabled" \in DOMAIN setting[t]

Sound == Formed /\ Held /\ Repairable /\ Lasting /\ Once /\ Underway /\ World

(* A step of a repair goes on at a place, or ends it.                      *)
GoesTo(place) ==
  /\ DOMAIN repair' = DOMAIN repair /\ repair'.finding = repair.finding /\ repair'.at = place
  /\ UNCHANGED <<report, done>>
Ends(how) ==
  /\ repair' = NoRepair /\ report' = [finding |-> repair.finding, how |-> how]
  /\ done' = IF how \in {"done", "nothing"} THEN done \cup {repair.finding} ELSE done \ {repair.finding}

Carries ==
  /\ Follows
  /\ Items \subseteq DOMAIN setting'
  /\ done' \subseteq done \cup {repair.finding} /\ (repair' # NoRepair => done' = done)
  /\ \A g \in done' : Cured(g, setting')

Could(item, value) == setting' \in {setting, [setting EXCEPT ![item] = value]}

LEMMA EndedNot ==
  ASSUME NEW place \in {"rest", "sweep", "start"}, GoesTo(place)
  PROVE  repair'.at = place /\ ~Idle'
  BY DEF GoesTo, Idle, NoRepair

LEMMA Ended == ASSUME NEW how, Ends(how) PROVE repair'.at = "begin" /\ repair'.left = {} /\ repair'.finding = NoFinding
  BY DEF Ends, NoRepair
(* What one step of each repair comes to, by the place it is at.           *)

LEMMA ServiceSteps ==
  ASSUME Formed, T!FixService(repair.finding)
  PROVE  \/ /\ repair.at = "begin" /\ Could(repair.finding, T!Restore[repair.finding])
            /\ GoesTo("read") \/ Ends("failed")
         \/ /\ repair.at = "read" /\ setting' = setting
            /\ Ends("failed") \/ (setting[repair.finding] # "disabled" /\ (GoesTo("start") \/ Ends("done")))
         \/ /\ repair.at = "start" /\ (\E up : setting' = [setting EXCEPT !.running = up]) /\ Ends("done")
<1>. USE DEF T!At, T!Go, T!Step, T!Return, T!End, T!NoAnswer, T!With,
            NoRepair, NoFinding, T!NoRepair, T!NoFinding
<1>1. CASE repair.at = "begin"
  BY <1>1 DEF T!FixService, T!Command, T!CommandOf, Formed, Could, GoesTo, Ends
<1>2. CASE repair.at = "read"
  BY <1>2 DEF T!FixService, Formed, GoesTo, Ends
<1>3. CASE repair.at = "start"
  BY <1>3 DEF T!FixService, Formed, Ends
<1>4. QED BY <1>1, <1>2, <1>3 DEF T!FixService

LEMMA GuardedServiceSteps ==
  ASSUME Formed, T!FixServiceInRegistry
  PROVE  \/ /\ repair.at = "begin" /\ setting' = setting
            /\ \/ Ends("failed") \/ Ends("unchanged") \/ GoesTo("backup")
               \/ setting.start = "auto" /\ Ends("done")
         \/ /\ repair.at = "backup" /\ setting' = setting
            /\ GoesTo("write") \/ Ends("unchanged")
         \/ /\ repair.at = "write" /\ Could("start", "auto")
            /\ GoesTo("read") \/ Ends("failed")
         \/ /\ repair.at = "read" /\ setting' = setting
            /\ Ends("failed") \/ (setting.start = "auto" /\ Ends("done"))
<1>. USE DEF T!At, T!Go, T!Step, T!Return, T!End, T!NoAnswer, T!With,
            NoRepair, NoFinding, T!NoRepair, T!NoFinding
<1>0. T!Restore.guarded = "auto"
  BY DEF T!Restore
<1>1. CASE repair.at = "begin"
  BY <1>0, <1>1 DEF T!FixServiceInRegistry, Formed, GoesTo, Ends
<1>2. CASE repair.at = "backup"
  BY <1>2 DEF T!FixServiceInRegistry, T!BackUp, Formed, GoesTo, Ends
<1>3. CASE repair.at = "write"
  BY <1>0, <1>3 DEF T!FixServiceInRegistry, T!Command, T!CommandOf, Formed, Could, GoesTo, Ends
<1>4. CASE repair.at = "read"
  BY <1>0, <1>4 DEF T!FixServiceInRegistry, T!ReadBack, Ends
<1>5. QED BY <1>1, <1>2, <1>3, <1>4 DEF T!FixServiceInRegistry

LEMMA DeviceSteps ==
  ASSUME Formed, T!FixDevice(repair.finding)
  PROVE  \/ /\ repair.at = "begin" /\ setting' = setting
            /\ \/ Ends("failed")
               \/ setting[repair.finding] # "disabled" /\ Ends("done")
               \/ setting[repair.finding] = "disabled" /\ GoesTo("backup")
         \/ /\ repair.at = "backup" /\ setting' = setting
            /\ GoesTo("enable") \/ Ends("unchanged")
         \/ /\ repair.at = "enable" /\ (\E p : setting' = [setting EXCEPT ![repair.finding] = p])
            /\ GoesTo("read")
         \/ /\ repair.at = "read" /\ setting' = setting
            /\ Ends("failed") \/ (setting[repair.finding] = "works" /\ Ends("done"))
<1>. USE DEF T!At, T!Go, T!Step, T!Return, T!End, T!NoAnswer, T!With,
            NoRepair, NoFinding, T!NoRepair, T!NoFinding
<1>1. CASE repair.at = "begin"
  BY <1>1 DEF T!FixDevice, T!LookAgain, Formed, GoesTo, Ends
<1>2. CASE repair.at = "backup"
  BY <1>2 DEF T!FixDevice, T!BackUp, Formed, GoesTo, Ends
<1>3. CASE repair.at = "enable"
  BY <1>3 DEF T!FixDevice, Formed, GoesTo
<1>4. CASE repair.at = "read"
  BY <1>4 DEF T!FixDevice, T!ReadBack, Ends
<1>5. QED BY <1>1, <1>2, <1>3, <1>4 DEF T!FixDevice

LEMMA ThresholdSteps ==
  ASSUME Formed, T!FixSplitThreshold
  PROVE  \/ /\ repair.at = "begin" /\ setting' = setting
            /\ \/ Ends("failed")
               \/ ~T!KeepsServicesGrouped(setting) /\ Ends("done")
               \/ T!KeepsServicesGrouped(setting) /\ GoesTo("backup")
         \/ /\ repair.at = "backup" /\ setting' = setting
            /\ GoesTo("write") \/ Ends("unchanged")
         \/ /\ repair.at = "write" /\ Could("threshold", "default")
            /\ GoesTo("read") \/ Ends("failed")
         \/ /\ repair.at = "read" /\ setting' = setting
            /\ Ends("failed") \/ (setting.threshold = "default" /\ Ends("done"))
<1>. USE DEF T!At, T!Go, T!Step, T!Return, T!End, T!NoAnswer, T!With,
            NoRepair, NoFinding, T!NoRepair, T!NoFinding
<1>1. CASE repair.at = "begin"
  BY <1>1 DEF T!FixSplitThreshold, T!LookAgain, Formed, GoesTo, Ends
<1>2. CASE repair.at = "backup"
  BY <1>2 DEF T!FixSplitThreshold, T!BackUp, Formed, GoesTo, Ends
<1>3. CASE repair.at = "write"
  BY <1>3 DEF T!FixSplitThreshold, T!Command, T!CommandOf, Formed, Could, GoesTo, Ends
<1>4. CASE repair.at = "read"
  BY <1>4 DEF T!FixSplitThreshold, T!ReadBack, Ends
<1>5. QED BY <1>1, <1>2, <1>3, <1>4 DEF T!FixSplitThreshold

LEMMA PolicySteps ==
  ASSUME Formed, T!FixPolicy(repair.finding)
  PROVE  /\ repair.at \in {"begin", "backup", "delete", "check", "wait"}
         /\ repair.at = "begin" =>
              /\ setting' = setting
              /\ \/ Ends("failed") \/ Ends("unchanged")
                 \/ /\ GoesTo("backup") /\ repair'.left # {}
                    /\ \E edition \in BOOLEAN : repair'.left = T!PolicyHit(repair.finding, setting, edition)
         /\ repair.at = "backup" =>
              /\ setting' = setting
              /\ (GoesTo("delete") /\ repair'.left = repair.left) \/ Ends("unchanged")
         /\ repair.at = "delete" =>
              \E v \in repair.left :
                /\ Could(v, FALSE)
                /\ \/ (GoesTo("delete") \/ GoesTo("check")) /\ repair'.left = repair.left \ {v}
                   \/ Ends("failed")
         /\ repair.at = "check" =>
              /\ setting' = setting
              /\ \/ Ends("failed")
                 \/ repair.finding = "defender" /\ GoesTo("wait") /\ repair'.left = repair.left
                 \/ T!PolicyHit(repair.finding, setting, TRUE) = {} /\ Ends("done")
                 \/ Ends("unproved")
         /\ repair.at = "wait" =>
              \E on \in {setting.realtime, TRUE} :
                /\ setting' = [setting EXCEPT !.realtime = on]
                /\ \/ on /\ Ends("done")
                   \/ GoesTo("wait") /\ repair'.left = repair.left
                   \/ Ends("failed")
<1>. USE DEF T!At, T!Go, T!Step, T!Return, T!End, T!NoAnswer, T!With,
            NoRepair, NoFinding, T!NoRepair, T!NoFinding
<1>1. ASSUME repair.at = "begin"
      PROVE  /\ setting' = setting
             /\ \/ Ends("failed") \/ Ends("unchanged")
                \/ /\ GoesTo("backup") /\ repair'.left # {}
                   /\ \E edition \in BOOLEAN : repair'.left = T!PolicyHit(repair.finding, setting, edition)
  <2>1. \/ T!Return("failed") \/ T!Return("unchanged")
        \/ \E edition \in BOOLEAN :
             /\ T!PolicyHit(repair.finding, setting, edition) # {}
             /\ T!Take(T!PolicyHit(repair.finding, setting, edition), "backup")
    BY <1>1 DEF T!FixPolicy
  <2>2. QED BY <1>1, <2>1 DEF T!Take, Formed, GoesTo, Ends
<1>2. ASSUME repair.at = "backup"
      PROVE  setting' = setting /\ ((GoesTo("delete") /\ repair'.left = repair.left) \/ Ends("unchanged"))
  BY <1>2 DEF T!FixPolicy, T!BackUp, Formed, GoesTo, Ends
<1>3. ASSUME repair.at = "delete"
      PROVE  \E v \in repair.left :
               /\ Could(v, FALSE)
               /\ \/ (GoesTo("delete") \/ GoesTo("check")) /\ repair'.left = repair.left \ {v}
                  \/ Ends("failed")
  <2>1. PICK v \in repair.left, place \in {"delete", "check"} :
          T!CommandOf(T!With(v, FALSE), place, repair.left \ {v})
    BY <1>3 DEF T!FixPolicy, T!Each
  <2>2. /\ Could(v, FALSE)
        /\ (GoesTo(place) /\ repair'.left = repair.left \ {v}) \/ Ends("failed")
    BY <2>1 DEF T!CommandOf, Formed, Could, GoesTo, Ends
  <2>3. QED BY <2>1, <2>2
<1>4. ASSUME repair.at = "check"
      PROVE  /\ setting' = setting
             /\ \/ Ends("failed")
                \/ repair.finding = "defender" /\ GoesTo("wait") /\ repair'.left = repair.left
                \/ T!PolicyHit(repair.finding, setting, TRUE) = {} /\ Ends("done")
                \/ Ends("unproved")
  <2>1. \/ T!Return("failed")
        \/ repair.finding = "defender" /\ T!Go("wait")
        \/ T!PolicyHit(repair.finding, setting, TRUE) = {} /\ T!Return("done")
        \/ T!Return("unproved")
    BY <1>4 DEF T!FixPolicy
  <2>2. QED BY <2>1 DEF Formed, GoesTo, Ends
<1>5. ASSUME repair.at = "wait"
      PROVE  \E on \in {setting.realtime, TRUE} :
               /\ setting' = [setting EXCEPT !.realtime = on]
               /\ \/ on /\ Ends("done")
                  \/ GoesTo("wait") /\ repair'.left = repair.left
                  \/ Ends("failed")
  <2>1. PICK on \in {setting.realtime, TRUE} :
          \/ on /\ T!End(T!With("realtime", on), saved, "done")
          \/ /\ setting' = T!With("realtime", on) /\ repair' = [repair EXCEPT !.tries = @ + 1]
             /\ UNCHANGED <<saved, report, done>>
          \/ T!End(T!With("realtime", on), saved, "failed")
    BY <1>5 DEF T!FixPolicy, T!DefenderCameOn
  <2>2. setting' = [setting EXCEPT !.realtime = on]
    BY <2>1
  <2>3. (on /\ Ends("done")) \/ (GoesTo("wait") /\ repair'.left = repair.left) \/ Ends("failed")
    <3>1. CASE repair' = [repair EXCEPT !.tries = @ + 1] /\ UNCHANGED <<report, done>>
      BY <1>5, <3>1 DEF Formed, GoesTo
    <3>2. QED BY <2>1, <3>1 DEF Ends
  <2>4. QED BY <2>2, <2>3
<1>6. repair.at \in {"begin", "backup", "delete", "check", "wait"}
  BY DEF T!FixPolicy
<1>7. QED BY <1>1, <1>2, <1>3, <1>4, <1>5, <1>6

LEMMA HostsSteps ==
  ASSUME Formed, T!FixHosts
  PROVE  \/ /\ repair.at = "begin" /\ setting' = setting
            /\ Ends("unchanged") \/ Ends("failed") \/ (GoesTo("flush") /\ T!HostsBlocks(setting.hosts) = {})
         \/ /\ repair.at = "begin" /\ T!HostsBlocks(setting.hosts) # {}
            /\ setting' = [setting EXCEPT !.hosts = T!UnblockHosts(setting.hosts)]
            /\ GoesTo("flush") \/ Ends("failed")
         \/ /\ repair.at = "begin" /\ T!HostsBlocks(setting.hosts) # {}
            /\ setting' = [setting EXCEPT !.hosts = setting.hosts \cup {{"update"}}]
            /\ Ends("failed")
         \/ repair.at = "flush" /\ setting' = setting /\ Ends("done")
<1>. USE DEF T!At, T!Go, T!Step, T!Return, T!End, T!NoAnswer, T!With,
            NoRepair, NoFinding, T!NoRepair, T!NoFinding
<1>1. CASE repair.at = "begin" /\ (T!Return("unchanged") \/ (T!HostsBlocks(setting.hosts) = {} /\ T!Go("flush")))
  BY <1>1 DEF Formed, GoesTo, Ends
<1>2. CASE repair.at = "begin" /\ T!HostsBlocks(setting.hosts) # {} /\ T!ReplaceHosts(T!Saving({"hosts"}))
  BY <1>2 DEF T!ReplaceHosts, Formed, GoesTo, Ends
<1>3. CASE repair.at = "flush" /\ T!Return("done")
  BY <1>3 DEF Ends
<1>4. QED BY <1>1, <1>2, <1>3 DEF T!FixHosts
LEMMA AdapterOffSteps ==
  ASSUME Formed, N!FixAdapterOff
  PROVE  \/ /\ repair.at = "begin" /\ setting' = setting
            /\ \/ Ends("failed")
               \/ setting.admin # "off" /\ Ends("done")
               \/ setting.admin = "off" /\ GoesTo("enable")
         \/ /\ repair.at = "enable"
            /\ \/ setting' = setting
               \/ \E address : setting' = [setting EXCEPT !.admin = "on", !.address = address]
            /\ GoesTo("read") \/ Ends("failed")
         \/ /\ repair.at = "read" /\ setting' = setting
            /\ Ends("failed") \/ (setting.admin # "off" /\ Ends("done"))
<1>. USE DEF N!At, N!Go, N!Step, N!Return, N!End, N!NoAnswer, N!With,
            NoRepair, NoFinding, N!NoRepair, N!NoFinding
<1>1. CASE repair.at = "begin"
  BY <1>1 DEF N!FixAdapterOff, N!LookAgain, N!SwitchedOff, Formed, GoesTo, Ends
<1>2. CASE repair.at = "enable"
  <2>1. PICK address : N!Command([setting EXCEPT !.admin = "on", !.address = address], "read")
    BY <1>2 DEF N!FixAdapterOff
  <2>2. setting' \in {setting, [setting EXCEPT !.admin = "on", !.address = address]}
    BY <2>1 DEF N!Command, N!CommandOf
  <2>3. GoesTo("read") \/ Ends("failed")
    BY <2>1 DEF N!Command, N!CommandOf, Formed, GoesTo, Ends
  <2>4. QED BY <1>2, <2>2, <2>3
<1>3. CASE repair.at = "read"
  BY <1>3 DEF N!FixAdapterOff, N!ReadBack, N!SwitchedOff, Ends
<1>4. QED BY <1>1, <1>2, <1>3 DEF N!FixAdapterOff

LEMMA DhcpSteps ==
  ASSUME Formed, N!FixNoDhcp
  PROVE  \/ /\ repair.at = "begin" /\ setting' = setting
            /\ \/ Ends("failed")
               \/ ~N!DhcpFailed(setting) /\ Ends("done")
               \/ N!DhcpFailed(setting) /\ GoesTo("renew")
         \/ repair.at = "renew" /\ Could("address", "lease") /\ GoesTo("read")
         \/ /\ repair.at = "read" /\ setting' = setting
            /\ Ends("failed") \/ (setting.address = "lease" /\ Ends("done"))
<1>. USE DEF N!At, N!Go, N!Step, N!Return, N!End, N!NoAnswer, N!With,
            NoRepair, NoFinding, N!NoRepair, N!NoFinding
<1>1. CASE repair.at = "begin"
  BY <1>1 DEF N!FixNoDhcp, N!LookAgain, Formed, GoesTo, Ends
<1>2. CASE repair.at = "renew"
  BY <1>2 DEF N!FixNoDhcp, N!Ignored, Formed, Could, GoesTo
<1>3. CASE repair.at = "read"
  BY <1>3 DEF N!FixNoDhcp, N!ReadBack, Ends
<1>4. QED BY <1>1, <1>2, <1>3 DEF N!FixNoDhcp

LEMMA DeadDnsSteps ==
  ASSUME Formed, N!FixDeadDns
  PROVE  \/ /\ repair.at = "begin" /\ setting' = setting
            /\ Ends("failed") \/ (setting.dns = "none" /\ Ends("done")) \/ GoesTo("backup")
         \/ /\ repair.at = "backup" /\ setting' = setting
            /\ GoesTo("reset") \/ Ends("unchanged")
         \/ /\ repair.at = "reset" /\ Could("dns", "none")
            /\ GoesTo("read") \/ Ends("failed")
         \/ /\ repair.at = "read" /\ setting' = setting
            /\ Ends("failed") \/ (setting.dns = "none" /\ GoesTo("names"))
         \/ /\ repair.at = "names" /\ setting' = setting
            /\ Ends("failed") \/ (N!Resolves(setting) /\ Ends("done"))
<1>. USE DEF N!At, N!Go, N!Step, N!Return, N!End, N!NoAnswer, N!With,
            NoRepair, NoFinding, N!NoRepair, N!NoFinding
<1>1. CASE repair.at = "begin"
  BY <1>1 DEF N!FixDeadDns, N!LookAgain, Formed, GoesTo, Ends
<1>2. CASE repair.at = "backup"
  BY <1>2 DEF N!FixDeadDns, Formed, GoesTo, Ends
<1>3. CASE repair.at = "reset"
  BY <1>3 DEF N!FixDeadDns, N!Command, N!CommandOf, Formed, Could, GoesTo, Ends
<1>4. CASE repair.at = "read"
  BY <1>4 DEF N!FixDeadDns, Formed, GoesTo, Ends
<1>5. CASE repair.at = "names"
  BY <1>5 DEF N!FixDeadDns, Ends
<1>6. QED BY <1>1, <1>2, <1>3, <1>4, <1>5 DEF N!FixDeadDns

LEMMA NamesSteps ==
  ASSUME Formed, N!FixNames
  PROVE  \/ repair.at = "begin" /\ Could("cache", "good") /\ GoesTo("register")
         \/ repair.at = "register" /\ setting' = setting /\ GoesTo("names")
         \/ /\ repair.at = "names" /\ setting' = setting
            /\ Ends("failed") \/ (N!Resolves(setting) /\ Ends("done"))
<1>. USE DEF N!At, N!Go, N!Step, N!Return, N!End, N!NoAnswer, N!With,
            NoRepair, NoFinding, N!NoRepair, N!NoFinding
<1>1. CASE repair.at = "begin"
  BY <1>1 DEF N!FixNames, N!Ignored, Formed, Could, GoesTo
<1>2. CASE repair.at = "register"
  BY <1>2 DEF N!FixNames, Formed, GoesTo
<1>3. CASE repair.at = "names"
  BY <1>3 DEF N!FixNames, Ends
<1>4. QED BY <1>1, <1>2, <1>3 DEF N!FixNames

LEMMA ProxySteps ==
  ASSUME Formed, N!FixProxy(repair.finding)
  PROVE  \/ /\ repair.at = "begin" /\ setting' = setting
            /\ \/ Ends("failed") \/ GoesTo("off")
               \/ setting[repair.finding] = "none" /\ Ends("done")
         \/ /\ repair.at = "off" /\ Could(repair.finding, "none")
            /\ GoesTo("read") \/ Ends("failed")
         \/ /\ repair.at = "read" /\ setting' = setting
            /\ Ends("failed") \/ (setting[repair.finding] = "none" /\ Ends("done"))
<1>. USE DEF N!At, N!Go, N!Step, N!Return, N!End, N!NoAnswer, N!With,
            NoRepair, NoFinding, N!NoRepair, N!NoFinding
<1>1. CASE repair.at = "begin"
  BY <1>1 DEF N!FixProxy, N!LookAgain, Formed, GoesTo, Ends
<1>2. CASE repair.at = "off"
  BY <1>2 DEF N!FixProxy, N!Command, N!CommandOf, Formed, Could, GoesTo, Ends
<1>3. CASE repair.at = "read"
  BY <1>3 DEF N!FixProxy, N!ReadBack, Ends
<1>4. QED BY <1>1, <1>2, <1>3 DEF N!FixProxy

LEMMA CatalogSteps ==
  ASSUME N!FixCatalog
  PROVE  \/ setting' = [setting EXCEPT !.catalog = "reset"] /\ Ends("done")
         \/ Could("catalog", "reset") /\ Ends("failed")
<1>. USE DEF N!At, N!Go, N!Step, N!Return, N!End, N!NoAnswer, N!With,
            NoRepair, NoFinding, N!NoRepair, N!NoFinding
<1>1. QED BY DEF N!FixCatalog, N!LastCommand, Could, Ends

LEMMA PageFileSteps ==
  /\ S!EnableAutomaticManagement =>
       \/ setting' = [setting EXCEPT !.files = "automatic"] /\ Ends("done")
       \/ Could("files", "automatic") /\ Ends("failed")
  /\ S!SetSystemManaged =>
       \E files \in {"managed", setting.files} :
         /\ setting.files \in {"small", "inverted", "fine"} => files = "managed"
         /\ \/ setting' = [setting EXCEPT !.files = files] /\ Ends("done")
            \/ Could("files", files) /\ Ends("failed")
<1>. USE DEF S!At, S!Go, S!Step, S!Return, S!End, S!NoAnswer, S!With,
            NoRepair, NoFinding, S!NoRepair, S!NoFinding
<1>1. ASSUME S!EnableAutomaticManagement
      PROVE  \/ setting' = [setting EXCEPT !.files = "automatic"] /\ Ends("done")
             \/ Could("files", "automatic") /\ Ends("failed")
  BY <1>1 DEF S!EnableAutomaticManagement, S!LastCommand, Could, Ends
<1>2. ASSUME S!SetSystemManaged
      PROVE  \E files \in {"managed", setting.files} :
               /\ setting.files \in {"small", "inverted", "fine"} => files = "managed"
               /\ \/ setting' = [setting EXCEPT !.files = files] /\ Ends("done")
                  \/ Could("files", files) /\ Ends("failed")
  <2>. DEFINE files == IF setting.files \in {"small", "inverted", "fine"} THEN "managed" ELSE setting.files
  <2>1. \/ setting' = [setting EXCEPT !.files = files] /\ Ends("done")
        \/ Could("files", files) /\ Ends("failed")
    BY <1>2 DEF S!SetSystemManaged, S!LastCommand, Could, Ends
  <2>2. /\ files \in {"managed", setting.files}
        /\ setting.files \in {"small", "inverted", "fine"} => files = "managed"
    OBVIOUS
  <2>. HIDE DEF files
  <2>3. QED BY <2>1, <2>2
<1>3. QED BY <1>1, <1>2

LEMMA AutostartSteps ==
  ASSUME Formed, S!RemoveOrphans(repair.finding)
  PROVE  \/ /\ repair.at = "begin" /\ setting' = setting
            /\ \/ Ends("failed")
               \/ S!MissingTargets(setting, repair.finding) = {} /\ Ends("done")
               \/ /\ S!MissingTargets(setting, repair.finding) # {}
                  /\ GoesTo("backup") /\ repair'.left = S!MissingTargets(setting, repair.finding)
         \/ /\ repair.at = "backup" /\ setting' = setting
            /\ (GoesTo("delete") /\ repair'.left = repair.left) \/ Ends("unchanged")
         \/ /\ repair.at = "delete"
            /\ \E name \in repair.left :
                 /\ Could(name, "none")
                 /\ \/ (GoesTo("delete") \/ GoesTo("read")) /\ repair'.left = repair.left \ {name}
                    \/ Ends("failed")
         \/ /\ repair.at = "read" /\ setting' = setting
            /\ \/ Ends("failed")
               \/ S!MissingTargets(setting, repair.finding) = {} /\ Ends("done")
<1>. USE DEF S!At, S!Go, S!Step, S!Return, S!End, S!NoAnswer, S!With,
            NoRepair, NoFinding, S!NoRepair, S!NoFinding
<1>1. CASE repair.at = "begin"
  BY <1>1 DEF S!RemoveOrphans, S!Take, Formed, GoesTo, Ends
<1>2. CASE repair.at = "backup"
  BY <1>2 DEF S!RemoveOrphans, S!BackUp, Formed, GoesTo, Ends
<1>3. CASE repair.at = "delete"
  <2>1. PICK name \in repair.left, place \in {"delete", "read"} :
          S!CommandOf(S!With(name, "none"), place, repair.left \ {name})
    BY <1>3 DEF S!RemoveOrphans, S!Each
  <2>2. /\ Could(name, "none")
        /\ (GoesTo(place) /\ repair'.left = repair.left \ {name}) \/ Ends("failed")
    BY <2>1 DEF S!CommandOf, Formed, Could, GoesTo, Ends
  <2>3. \E n \in repair.left :
          /\ Could(n, "none")
          /\ \/ (GoesTo("delete") \/ GoesTo("read")) /\ repair'.left = repair.left \ {n}
             \/ Ends("failed")
    BY <2>1, <2>2
  <2>4. QED BY <1>3, <2>3
<1>4. CASE repair.at = "read"
  BY <1>4 DEF S!RemoveOrphans, S!ReadBack, Ends
<1>5. QED BY <1>1, <1>2, <1>3, <1>4 DEF S!RemoveOrphans

LEMMA ClockSteps ==
  ASSUME Formed, S!FixClock
  PROVE  \/ /\ repair.at = "begin" /\ setting' = setting
            /\ Ends("failed") \/ Ends("unchanged") \/ GoesTo("start") \/ GoesTo("state")
         \/ repair.at = "start" /\ Could("running", TRUE) /\ GoesTo("resync")
         \/ /\ repair.at = "state" /\ setting' = setting
            /\ Ends("failed") \/ Ends("unchanged") \/ GoesTo("resync")
         \/ /\ repair.at = "resync" /\ (\E c \in {"right", setting.clock} : Could("clock", c))
            /\ GoesTo("measure")
         \/ /\ repair.at = "measure" /\ setting' = setting
            /\ Ends("failed") \/ (setting.clock = "right" /\ Ends("done"))
<1>. USE DEF S!At, S!Go, S!Step, S!Return, S!End, S!NoAnswer, S!With,
            NoRepair, NoFinding, S!NoRepair, S!NoFinding
<1>1. CASE repair.at = "begin"
  BY <1>1 DEF S!FixClock, Formed, GoesTo, Ends
<1>2. CASE repair.at = "start"
  BY <1>2 DEF S!FixClock, S!Ignored, Formed, Could, GoesTo
<1>3. CASE repair.at = "state"
  BY <1>3 DEF S!FixClock, Formed, GoesTo, Ends
<1>4. CASE repair.at = "resync"
  BY <1>4 DEF S!FixClock, S!Ignored, Formed, Could, GoesTo
<1>5. CASE repair.at = "measure"
  BY <1>5 DEF S!FixClock, S!ReadBack, Ends
<1>6. QED BY <1>1, <1>2, <1>3, <1>4, <1>5 DEF S!FixClock

LEMMA RestartSteps ==
  ASSUME Formed, S!FixRestart
  PROVE  \/ /\ repair.at = "begin" /\ setting' = setting
            /\ \/ Ends("failed") \/ Ends("unchanged")
               \/ ~S!FastStartup(setting) /\ Ends("done")
               \/ S!FastStartup(setting) /\ GoesTo("backup")
         \/ /\ repair.at = "backup" /\ setting' = setting
            /\ GoesTo("write") \/ Ends("unchanged")
         \/ /\ repair.at = "write" /\ Could("hiberboot", FALSE)
            /\ GoesTo("read") \/ Ends("failed")
         \/ /\ repair.at = "read" /\ setting' = setting
            /\ Ends("failed") \/ Ends("done")
<1>. USE DEF S!At, S!Go, S!Step, S!Return, S!End, S!NoAnswer, S!With,
            NoRepair, NoFinding, S!NoRepair, S!NoFinding
<1>1. CASE repair.at = "begin"
  BY <1>1 DEF S!FixRestart, Formed, GoesTo, Ends
<1>2. CASE repair.at = "backup"
  BY <1>2 DEF S!FixRestart, S!BackUp, Formed, GoesTo, Ends
<1>3. CASE repair.at = "write"
  BY <1>3 DEF S!FixRestart, S!Command, S!CommandOf, Formed, Could, GoesTo, Ends
<1>4. CASE repair.at = "read"
  BY <1>4 DEF S!FixRestart, S!ReadBack, Ends
<1>5. QED BY <1>1, <1>2, <1>3, <1>4 DEF S!FixRestart
LEMMA OpenGlSteps ==
  ASSUME Formed, H!RepairOpenGl
  PROVE  \/ /\ repair.at = "begin" /\ setting' = setting
            /\ \/ Ends("failed") \/ GoesTo("key")
               \/ setting.card # "works" /\ Ends("done")
         \/ /\ repair.at = "key" /\ setting' = setting
            /\ \/ Ends("unchanged")
               \/ H!BrokenEntries(setting) = {} /\ Ends("done")
               \/ /\ H!BrokenEntries(setting) # {}
                  /\ GoesTo("backup") /\ repair'.left = H!BrokenEntries(setting)
         \/ /\ repair.at = "backup" /\ setting' = setting
            /\ (GoesTo("set") /\ repair'.left = repair.left) \/ Ends("unchanged")
         \/ /\ repair.at = "set"
            /\ \E e \in {"wide", "wow"} :
                 /\ "wide" \in repair.left => e = "wide"
                 /\ "wide" \notin repair.left => e = "wow"
                 /\ Could(e, "there")
                 /\ \/ (GoesTo("set") \/ GoesTo("read")) /\ repair'.left = repair.left \ {e}
                    \/ Ends("failed")
                    \/ /\ repair.left = H!BrokenEntries(before)
                       /\ setting' = setting \/ "late" \in Lapses
                       /\ Ends("unchanged")
         \/ /\ repair.at = "read" /\ setting' = setting
            /\ Ends("failed") \/ (H!BrokenEntries(setting) = {} /\ Ends("done"))
<1>. USE DEF H!At, H!Go, H!Step, H!Return, H!End, H!NoAnswer, H!With,
            NoRepair, NoFinding, H!NoRepair, H!NoFinding
<1>1. CASE repair.at = "begin"
  BY <1>1 DEF H!RepairOpenGl, Formed, GoesTo, Ends
<1>2. CASE repair.at = "key"
  BY <1>2 DEF H!RepairOpenGl, H!Take, Formed, GoesTo, Ends
<1>3. CASE repair.at = "backup"
  BY <1>3 DEF H!RepairOpenGl, H!BackUp, Formed, GoesTo, Ends
<1>4. CASE repair.at = "set"
  <2>. DEFINE e == IF "wide" \in repair.left THEN "wide" ELSE "wow"
  <2>1. H!SetEntry(e)
    BY <1>4 DEF H!RepairOpenGl
  <2>2. e \in {"wide", "wow"} /\ ("wide" \in repair.left => e = "wide") /\ ("wide" \notin repair.left => e = "wow")
    OBVIOUS
  <2>. HIDE DEF e
  <2>3. Could(e, "there")
    BY <2>1 DEF H!SetEntry, Could
  <2>4. \/ (GoesTo("set") \/ GoesTo("read")) /\ repair'.left = repair.left \ {e}
        \/ Ends("failed")
        \/ /\ repair.left = H!BrokenEntries(before)
           /\ setting' = setting \/ "late" \in Lapses
           /\ Ends("unchanged")
    BY <2>1 DEF H!SetEntry, Formed, GoesTo, Ends
  <2>5. \E d \in {"wide", "wow"} :
          /\ "wide" \in repair.left => d = "wide"
          /\ "wide" \notin repair.left => d = "wow"
          /\ Could(d, "there")
          /\ \/ (GoesTo("set") \/ GoesTo("read")) /\ repair'.left = repair.left \ {d}
             \/ Ends("failed")
             \/ /\ repair.left = H!BrokenEntries(before)
                /\ setting' = setting \/ "late" \in Lapses
                /\ Ends("unchanged")
    BY <2>2, <2>3, <2>4
  <2>6. QED BY <1>4, <2>5
<1>5. CASE repair.at = "read"
  BY <1>5 DEF H!RepairOpenGl, H!ReadBack, Ends
<1>6. QED BY <1>1, <1>2, <1>3, <1>4, <1>5 DEF H!RepairOpenGl

LEMMA RemedySteps ==
  ASSUME Formed, H!RepairDevice(repair.finding)
  PROVE  \/ /\ repair.at = "begin" /\ setting' = setting
            /\ \/ Ends("failed")
               \/ setting.problem # repair.finding /\ Ends("done")
               \/ setting.problem = repair.finding /\ GoesTo("build")
         \/ /\ repair.at = "build" /\ setting' = setting
            /\ Ends("failed") \/ GoesTo("pnputil")
         \/ repair.at = "pnputil" /\ (\E p : setting' = [setting EXCEPT !.problem = p]) /\ GoesTo("read")
         \/ /\ repair.at = "read" /\ setting' = setting
            /\ Ends("failed") \/ (setting.problem \in {"none", "gone"} /\ Ends("done"))
<1>. USE DEF H!At, H!Go, H!Step, H!Return, H!End, H!NoAnswer, H!With,
            NoRepair, NoFinding, H!NoRepair, H!NoFinding
<1>1. CASE repair.at = "begin"
  BY <1>1 DEF H!RepairDevice, H!LookAgain, Formed, GoesTo, Ends
<1>2. CASE repair.at = "build"
  BY <1>2 DEF H!RepairDevice, Formed, GoesTo, Ends
<1>3. CASE repair.at = "pnputil"
  BY <1>3 DEF H!RepairDevice, Formed, GoesTo
<1>4. CASE repair.at = "read"
  BY <1>4 DEF H!RepairDevice, H!ReadBack, Ends
<1>5. QED BY <1>1, <1>2, <1>3, <1>4 DEF H!RepairDevice

LEMMA PrintingSteps ==
  ASSUME Formed, H!ClearPrintQueue
  PROVE  \/ /\ repair.at = "begin" /\ setting' = setting
            /\ \/ config.auto_restart_services /\ GoesTo("stop")
               \/ ~config.auto_restart_services /\ Ends("unchanged")
         \/ /\ repair.at = "stop" /\ (\E spooler : setting' = [setting EXCEPT !.spooler = spooler])
            /\ GoesTo("delete") \/ Ends("failed")
         \/ /\ repair.at = "delete" /\ (\E jobs : setting' = [setting EXCEPT !.jobs = jobs])
            /\ GoesTo("start")
         \/ repair.at = "start" /\ Could("spooler", "running") /\ GoesTo("read")
         \/ /\ repair.at = "read" /\ setting' = setting
            /\ Ends("failed") \/ (setting.spooler = "running" /\ setting.jobs = "none" /\ Ends("done"))
<1>. USE DEF H!At, H!Go, H!Step, H!Return, H!End, H!NoAnswer, H!With,
            NoRepair, NoFinding, H!NoRepair, H!NoFinding
<1>1. CASE repair.at = "begin"
  BY <1>1 DEF H!ClearPrintQueue, Formed, GoesTo, Ends
<1>2. CASE repair.at = "stop"
  BY <1>2 DEF H!ClearPrintQueue, Formed, GoesTo, Ends
<1>3. CASE repair.at = "delete"
  BY <1>3 DEF H!ClearPrintQueue, Formed, GoesTo
<1>4. CASE repair.at = "start"
  BY <1>4 DEF H!ClearPrintQueue, H!Ignored, Formed, Could, GoesTo
<1>5. CASE repair.at = "read"
  BY <1>5 DEF H!ClearPrintQueue, H!ReadBack, Ends
<1>6. QED BY <1>1, <1>2, <1>3, <1>4, <1>5 DEF H!ClearPrintQueue

LEMMA MemoryTestSteps ==
  ASSUME H!ScheduleMemoryTest \/ K!ScheduleMemoryTest
  PROVE  \/ setting' = [setting EXCEPT !.test = "scheduled"] /\ Ends("done")
         \/ Could("test", "scheduled") /\ Ends("failed")
<1>1. CASE H!ScheduleMemoryTest
  <2>. USE DEF H!At, H!Go, H!Step, H!Return, H!End, H!NoAnswer, H!With,
              NoRepair, NoFinding, H!NoRepair, H!NoFinding
  <2>1. QED BY <1>1 DEF H!ScheduleMemoryTest, H!LastCommand, Could, Ends
<1>2. CASE K!ScheduleMemoryTest
  <2>. USE DEF K!At, K!Go, K!Step, K!Return, K!End, K!NoAnswer, K!With,
              NoRepair, NoFinding, K!NoRepair, K!NoFinding
  <2>1. QED BY <1>2 DEF K!ScheduleMemoryTest, K!LastCommand, Could, Ends
<1>3. QED BY <1>1, <1>2

LEMMA AspmSteps ==
  ASSUME Formed, H!SwitchAspmOff
  PROVE  \/ /\ repair.at = "begin" /\ setting' = setting
            /\ Ends("failed") \/ Ends("unchanged") \/ GoesTo("ac")
         \/ /\ repair.at = "ac" /\ Could("ac", "off")
            /\ GoesTo("dc") \/ Ends("failed")
         \/ /\ repair.at = "dc" /\ Could("dc", "off")
            /\ GoesTo("active") \/ Ends("failed")
         \/ /\ repair.at = "active" /\ setting' = setting
            /\ GoesTo("read") \/ Ends("failed")
         \/ /\ repair.at = "read" /\ setting' = setting
            /\ Ends("failed") \/ (H!AspmOff(setting) /\ Ends("done"))
<1>. USE DEF H!At, H!Go, H!Step, H!Return, H!End, H!NoAnswer, H!With,
            NoRepair, NoFinding, H!NoRepair, H!NoFinding
<1>1. CASE repair.at = "begin"
  BY <1>1 DEF H!SwitchAspmOff, Formed, GoesTo, Ends
<1>2. CASE repair.at = "ac"
  BY <1>2 DEF H!SwitchAspmOff, H!Command, H!CommandOf, Formed, Could, GoesTo, Ends
<1>3. CASE repair.at = "dc"
  BY <1>3 DEF H!SwitchAspmOff, H!Command, H!CommandOf, Formed, Could, GoesTo, Ends
<1>4. CASE repair.at = "active"
  BY <1>4 DEF H!SwitchAspmOff, H!Command, H!CommandOf, Formed, GoesTo, Ends
<1>5. CASE repair.at = "read"
  BY <1>5 DEF H!SwitchAspmOff, H!ReadBack, Ends
<1>6. QED BY <1>1, <1>2, <1>3, <1>4, <1>5 DEF H!SwitchAspmOff

LEMMA ChkdskSteps ==
  ASSUME C!RunChkdsk
  PROVE  \/ setting' = setting /\ Ends("failed")
         \/ /\ \E d : setting' = [setting EXCEPT !.dirty = d, !.errors = "none"]
            /\ Ends("done")
<1>. USE DEF C!At, C!Go, C!Step, C!Return, C!End, C!NoAnswer, C!With,
            NoRepair, NoFinding, C!NoRepair, C!NoFinding
<1>1. QED BY DEF C!RunChkdsk, Ends

LEMMA IconSteps ==
  ASSUME C!RebuildIconCache
  PROVE  \/ setting' = [setting EXCEPT !.icons = "small"] /\ Ends("done")
         \/ (\E icons : setting' = [setting EXCEPT !.icons = icons]) /\ Ends("failed")
<1>. USE DEF C!At, C!Go, C!Step, C!Return, C!End, C!NoAnswer, C!With,
            NoRepair, NoFinding, C!NoRepair, C!NoFinding
<1>1. QED BY DEF C!RebuildIconCache, Ends

LEMMA FolderSteps ==
  ASSUME NEW f, Formed, C!CleanFolder(f)
  PROVE  \/ repair.at = "begin" /\ setting' = setting /\ GoesTo("sweep")
         \/ /\ repair.at = "sweep" /\ setting' = [setting EXCEPT ![f] = C!Swept(setting[f])]
            /\ Ends(C!CleanupResult(setting[f]))
<1>. USE DEF C!At, C!Go, C!Step, C!Return, C!End, C!NoAnswer, C!With,
            NoRepair, NoFinding, C!NoRepair, C!NoFinding
<1>1. CASE repair.at = "begin"
  BY <1>1 DEF C!CleanFolder, Formed, GoesTo
<1>2. CASE repair.at = "sweep"
  BY <1>2 DEF C!CleanFolder, Ends
<1>3. QED BY <1>1, <1>2 DEF C!CleanFolder

LEMMA DeliverySteps ==
  ASSUME Formed, C!CleanDelivery
  PROVE  \/ /\ repair.at = "begin"
            /\ \/ /\ setting' = [setting EXCEPT !.delivery = setting.delivery \ {"much", "held"}]
                  /\ GoesTo("rest")
               \/ setting' = setting /\ GoesTo("sweep")
         \/ /\ repair.at = "rest" /\ setting' = [setting EXCEPT !.delivery = C!Swept(setting.delivery)]
            /\ Ends("done")
         \/ /\ repair.at = "sweep" /\ setting' = [setting EXCEPT !.delivery = C!Swept(setting.delivery)]
            /\ Ends(C!CleanupResult(setting.delivery))
<1>. USE DEF C!At, C!Go, C!Step, C!Return, C!End, C!NoAnswer, C!With,
            NoRepair, NoFinding, C!NoRepair, C!NoFinding
<1>1. CASE repair.at = "begin"
  BY <1>1 DEF C!CleanDelivery, Formed, GoesTo
<1>2. CASE repair.at = "rest"
  BY <1>2 DEF C!CleanDelivery, Ends
<1>3. CASE repair.at = "sweep"
  BY <1>3, FolderSteps DEF C!CleanDelivery
<1>4. QED BY <1>1, <1>2, <1>3 DEF C!CleanDelivery

LEMMA UpdateCacheSteps ==
  ASSUME Formed, C!CleanUpdateCache
  PROVE  \/ ~config.auto_restart_services /\ setting' = setting /\ Ends("unchanged")
         \/ /\ config.auto_restart_services /\ repair.at = "begin" /\ setting' = setting
            /\ GoesTo("sweep") \/ Ends("unchanged")
         \/ /\ config.auto_restart_services /\ repair.at = "sweep"
            /\ setting' = [setting EXCEPT !.downloads = C!Swept(setting.downloads)]
            /\ GoesTo("start") /\ repair'.left = setting.downloads
         \/ /\ config.auto_restart_services /\ repair.at = "start" /\ setting' = setting
            /\ Ends(C!CleanupResult(repair.left)) \/ Ends("failed")
<1>. USE DEF C!At, C!Go, C!Step, C!Return, C!End, C!NoAnswer, C!With,
            NoRepair, NoFinding, C!NoRepair, C!NoFinding
<1>1. CASE ~config.auto_restart_services
  BY <1>1 DEF C!CleanUpdateCache, Ends
<1>2. CASE config.auto_restart_services /\ repair.at = "begin"
  BY <1>2 DEF C!CleanUpdateCache, Formed, GoesTo, Ends
<1>3. CASE config.auto_restart_services /\ repair.at = "sweep"
  BY <1>3 DEF C!CleanUpdateCache, Formed, GoesTo
<1>4. CASE config.auto_restart_services /\ repair.at = "start"
  BY <1>4 DEF C!CleanUpdateCache, Ends
<1>5. QED BY <1>1, <1>2, <1>3, <1>4 DEF C!CleanUpdateCache

LEMMA LogSteps ==
  ASSUME Formed, C!CleanLogs
  PROVE  \/ repair.at = "begin" /\ setting' = setting /\ GoesTo("sweep")
         \/ /\ repair.at = "sweep"
            /\ \/ setting' = [setting EXCEPT !.logs = setting.logs \ {"log"}] /\ Ends("done")
               \/ setting' = setting /\ Ends("failed")
<1>. USE DEF C!At, C!Go, C!Step, C!Return, C!End, C!NoAnswer, C!With,
            NoRepair, NoFinding, C!NoRepair, C!NoFinding
<1>1. QED BY DEF C!CleanLogs, C!IsReclaimableLog, Formed, GoesTo, Ends

LEMMA BinSteps ==
  ASSUME Formed, C!EmptyRecycleBin
  PROVE  \/ /\ repair.at = "begin"
            /\ \E cleared \in SUBSET C!Drives :
                 setting' = [d \in DOMAIN setting |->
                               IF d \in cleared THEN setting[d] \ {"item"} ELSE setting[d]]
            /\ GoesTo("sweep") \/ Ends("failed")
         \/ /\ repair.at = "sweep"
            /\ setting' = [d \in DOMAIN setting |->
                             IF d \in C!Drives THEN setting[d] \cap {"stub"} ELSE setting[d]]
            /\ Ends("done") \/ Ends("failed")
<1>. USE DEF C!At, C!Go, C!Step, C!Return, C!End, C!NoAnswer, C!With,
            NoRepair, NoFinding, C!NoRepair, C!NoFinding
<1>1. CASE repair.at = "begin"
  BY <1>1 DEF C!EmptyRecycleBin, Formed, GoesTo, Ends
<1>2. CASE repair.at = "sweep"
  BY <1>2 DEF C!EmptyRecycleBin, Ends
<1>3. QED BY <1>1, <1>2 DEF C!EmptyRecycleBin

LEMMA WinSxSSteps ==
  ASSUME Formed, C!CleanComponentStore
  PROVE  \/ repair.at = "begin" /\ setting' = setting /\ GoesTo("cleanup")
         \/ /\ repair.at = "cleanup" /\ (\E n : setting' = [setting EXCEPT !.packages = n])
            /\ GoesTo("count") \/ Ends("failed")
         \/ /\ repair.at = "count"
            /\ \/ setting' = setting /\ Ends("unproved")
               \/ /\ setting' = [setting EXCEPT !.note = setting.packages]
                  /\ Ends("nothing") \/ Ends("done")
<1>. USE DEF C!At, C!Go, C!Step, C!Return, C!End, C!NoAnswer, C!With,
            NoRepair, NoFinding, C!NoRepair, C!NoFinding
<1>1. CASE repair.at = "begin"
  BY <1>1 DEF C!CleanComponentStore, C!Take, Formed, GoesTo
<1>2. CASE repair.at = "cleanup"
  BY <1>2 DEF C!CleanComponentStore, Formed, GoesTo, Ends
<1>3. CASE repair.at = "count"
  BY <1>3 DEF C!CleanComponentStore, Ends
<1>4. QED BY <1>1, <1>2, <1>3 DEF C!CleanComponentStore
(* What DISM may have done of the report of the component store.           *)
StoreRepaired == ~setting'.marked /\ setting'.report \in {{}, {"backups"}}

LEMMA RestoreHealthSteps ==
  ASSUME {"damage", "report", "marked", "isos"} \subseteq DOMAIN setting,
         NEW kept, NEW delivered, NEW s, s = I!Restored(setting, delivered)
  PROVE  /\ DOMAIN s = DOMAIN setting /\ s.isos = setting.isos
         /\ DOMAIN I!Unmounted(s, kept) = DOMAIN setting
         /\ I!Unmounted(s, kept).isos = setting.isos \cap kept
         /\ I!Unmounted(s, kept).report = s.damage /\ s.report = s.damage
         /\ ~I!Unmounted(s, kept).marked
  BY DEF I!Restored, I!Unmounted

LEMMA CutReportSteps ==
  ASSUME {"damage", "report", "marked", "isos"} \subseteq DOMAIN setting, NEW kept, NEW now, NEW told
  PROVE  LET t == I!Unmounted([setting EXCEPT !.damage = now, !.report = told], kept)
         IN  DOMAIN t = DOMAIN setting /\ t.isos = setting.isos \cap kept
  BY DEF I!Unmounted

LEMMA StoreSteps ==
  ASSUME Formed, {"damage", "report", "marked", "isos"} \subseteq DOMAIN setting, I!RepairStore
  PROVE  \/ /\ repair.at = "begin" /\ DOMAIN setting' = DOMAIN setting
            /\ \/ setting'.isos = setting.isos /\ GoesTo("attached") /\ repair'.left = {}
               \/ /\ setting'.isos = setting.isos \cap I!Isos
                  /\ Ends("failed") \/ (StoreRepaired /\ Ends("done"))
         \/ /\ repair.at = "attached" /\ setting' = setting
            /\ GoesTo("search") /\ repair'.left \in {setting.isos, I!Isos}
         \/ /\ repair.at = "search"
            /\ \/ /\ setting' = [setting EXCEPT !.isos = I!Isos]
                  /\ GoesTo("media") /\ repair'.left = setting.isos
               \/ /\ repair.left # I!Isos \/ "unsaid" \in Lapses
                  /\ setting' = [setting EXCEPT !.isos = I!Isos \cap repair.left] /\ Ends("failed")
               \/ setting' = setting /\ Ends("failed")
         \/ /\ repair.at = "media" /\ DOMAIN setting' = DOMAIN setting
            /\ setting'.isos = setting.isos \cap repair.left
            /\ Ends("failed") \/ (StoreRepaired /\ Ends("done"))
<1>. USE DEF I!At, I!Go, I!Step, I!Return, I!End, I!NoAnswer, I!With,
            NoRepair, NoFinding, I!NoRepair, I!NoFinding
<1>1. ASSUME NEW kept, NEW delivered, NEW s, s = I!Restored(setting, delivered),
             \/ s.damage = {} /\ I!End(I!Unmounted(s, kept), saved, "done")
             \/ I!OnlyBackupsLeft(s.report) /\ I!End(I!Unmounted(s, kept), saved, "done")
             \/ I!End(I!Unmounted([setting EXCEPT !.damage = s.damage, !.report = I!CutReport], kept),
                      saved, "failed")
      PROVE  /\ DOMAIN setting' = DOMAIN setting /\ setting'.isos = setting.isos \cap kept
             /\ Ends("failed") \/ (StoreRepaired /\ Ends("done"))
  <2>1. CASE I!End(I!Unmounted(s, kept), saved, "done") /\ (s.damage = {} \/ I!OnlyBackupsLeft(s.report))
    <3>1. setting' = I!Unmounted(s, kept) /\ Ends("done")
      BY <2>1 DEF Ends
    <3>2. /\ DOMAIN I!Unmounted(s, kept) = DOMAIN setting
          /\ I!Unmounted(s, kept).isos = setting.isos \cap kept
          /\ I!Unmounted(s, kept).report = s.damage /\ s.report = s.damage
          /\ ~I!Unmounted(s, kept).marked
      BY <1>1, RestoreHealthSteps
    <3>3. s.damage \in {{}, {"backups"}}
      BY <2>1, <3>2 DEF I!OnlyBackupsLeft
    <3>4. QED BY <3>1, <3>2, <3>3 DEF StoreRepaired
  <2>2. CASE I!End(I!Unmounted([setting EXCEPT !.damage = s.damage, !.report = I!CutReport], kept),
                   saved, "failed")
    <3>1. /\ setting' = I!Unmounted([setting EXCEPT !.damage = s.damage, !.report = I!CutReport], kept)
          /\ Ends("failed")
      BY <2>2 DEF Ends
    <3>2. DOMAIN setting' = DOMAIN setting /\ setting'.isos = setting.isos \cap kept
      BY <3>1, CutReportSteps
    <3>3. QED BY <3>1, <3>2
  <2>3. QED BY <1>1, <2>1, <2>2
<1>2. CASE repair.at = "begin"
  <2>1. PICK delivered \in {{}, {"files"}} :
          LET s == I!Restored(setting, delivered)
          IN  \/ s.damage = {} /\ I!End(I!Unmounted(s, I!Isos), saved, "done")
              \/ I!OnlyBackupsLeft(s.report) /\ I!End(I!Unmounted(s, I!Isos), saved, "done")
              \/ I!Step(s, saved, "attached", {})
              \/ I!End(I!Unmounted([setting EXCEPT !.damage = s.damage, !.report = I!CutReport], I!Isos),
                       saved, "failed")
    BY <1>2 DEF I!RepairStore, I!RestoreHealth
  <2>2. PICK s : s = I!Restored(setting, delivered)
    OBVIOUS
  <2>3. CASE I!Step(s, saved, "attached", {})
    <3>1. setting' = s /\ GoesTo("attached") /\ repair'.left = {}
      BY <2>3 DEF GoesTo, Formed
    <3>2. QED BY <1>2, <2>2, <3>1, RestoreHealthSteps
  <2>4. QED BY <1>1, <1>2, <2>1, <2>2, <2>3
<1>3. CASE repair.at = "attached"
  BY <1>3 DEF I!RepairStore, I!Take, Formed, GoesTo
<1>4. CASE repair.at = "search"
  <2>1. I!Unmounted([setting EXCEPT !.isos = I!Isos], repair.left)
          = [setting EXCEPT !.isos = I!Isos \cap repair.left]
    BY DEF I!Unmounted
  <2>2. QED BY <1>4, <2>1 DEF I!RepairStore, Formed, GoesTo, Ends
<1>5. CASE repair.at = "media"
  <2>1. CASE I!End(I!Unmounted(setting, repair.left), saved, "failed")
    BY <1>5, <2>1 DEF I!Unmounted, Ends
  <2>2. ASSUME NEW delivered \in {{}, {"files"}}, NEW s, s = I!Restored(setting, delivered),
               I!End(I!Unmounted(s, repair.left), saved, "failed")
        PROVE  DOMAIN setting' = DOMAIN setting /\ setting'.isos = setting.isos \cap repair.left /\ Ends("failed")
    BY <2>2, RestoreHealthSteps DEF Ends
  <2>3. ASSUME I!RestoreHealth(repair.left, LAMBDA s : I!End(I!Unmounted(s, repair.left), saved, "failed"))
        PROVE  /\ DOMAIN setting' = DOMAIN setting /\ setting'.isos = setting.isos \cap repair.left
               /\ Ends("failed") \/ (StoreRepaired /\ Ends("done"))
    <3>1. PICK delivered \in {{}, {"files"}} :
            LET s == I!Restored(setting, delivered)
            IN  \/ s.damage = {} /\ I!End(I!Unmounted(s, repair.left), saved, "done")
                \/ I!OnlyBackupsLeft(s.report) /\ I!End(I!Unmounted(s, repair.left), saved, "done")
                \/ I!End(I!Unmounted(s, repair.left), saved, "failed")
                \/ I!End(I!Unmounted([setting EXCEPT !.damage = s.damage, !.report = I!CutReport], repair.left),
                         saved, "failed")
      BY <2>3 DEF I!RestoreHealth
    <3>2. PICK s : s = I!Restored(setting, delivered)
      OBVIOUS
    <3>3. QED BY <1>1, <2>2, <3>1, <3>2
  <2>4. QED BY <1>5, <2>1, <2>3 DEF I!RepairStore
<1>6. QED BY <1>2, <1>3, <1>4, <1>5 DEF I!RepairStore

LEMMA SfcSteps ==
  ASSUME I!RunSfc
  PROVE  \/ setting' = setting /\ Ends("failed")
         \/ \E d, left :
              /\ setting' = [setting EXCEPT !.damaged = d, !.left = left, !.summary = FALSE]
              /\ Ends("failed") \/ (left = {} /\ Ends("done"))
         \/ /\ \E d : setting' = [setting EXCEPT !.damaged = d, !.left = setting.left \cap d]
            /\ Ends("failed")
<1>. USE DEF I!At, I!Go, I!Step, I!Return, I!End, I!NoAnswer, I!With,
            NoRepair, NoFinding, I!NoRepair, I!NoFinding
<1>1. CASE I!Return("failed")
  BY <1>1 DEF Ends
<1>2. CASE LET s == [setting EXCEPT !.damaged = setting.stuck, !.left = setting.stuck, !.summary = FALSE]
           IN  I!End(s, saved, I!SfcOutcome(s.left))
  <2>1. PICK s : /\ s = [setting EXCEPT !.damaged = setting.stuck, !.left = setting.stuck, !.summary = FALSE]
                 /\ setting' = s /\ Ends(I!SfcOutcome(s.left))
    BY <1>2 DEF Ends
  <2>2. \E d, left :
           /\ setting' = [setting EXCEPT !.damaged = d, !.left = left, !.summary = FALSE]
           /\ Ends("failed") \/ (left = {} /\ Ends("done"))
    BY <2>1 DEF I!SfcOutcome
  <2>3. QED BY <2>2
<1>3. CASE \E d \in SUBSET setting.damaged :
             /\ setting.stuck \subseteq d
             /\ I!End([setting EXCEPT !.damaged = d, !.left = @ \cap d], saved, "failed")
  BY <1>3 DEF Ends
<1>4. QED BY <1>1, <1>2, <1>3 DEF I!RunSfc

LEMMA VssSteps ==
  ASSUME Formed, I!EnableVss
  PROVE  \/ /\ repair.at = "begin" /\ Could("vss", "manual")
            /\ GoesTo("start") \/ Ends("failed")
         \/ /\ repair.at = "start"
            /\ setting' = setting \/ \E up : setting' = [setting EXCEPT !.running = up]
            /\ GoesTo("read")
         \/ /\ repair.at = "read" /\ setting' = setting
            /\ Ends("failed") \/ (setting.vss # "disabled" /\ Ends("done"))
<1>. USE DEF I!At, I!Go, I!Step, I!Return, I!End, I!NoAnswer, I!With,
            NoRepair, NoFinding, I!NoRepair, I!NoFinding
<1>1. CASE repair.at = "begin"
  BY <1>1 DEF I!EnableVss, I!Command, I!CommandOf, Formed, Could, GoesTo, Ends
<1>2. CASE repair.at = "start"
  BY <1>2 DEF I!EnableVss, I!Ignored, Formed, GoesTo
<1>3. CASE repair.at = "read"
  BY <1>3 DEF I!EnableVss, I!ReadBack, Ends
<1>4. QED BY <1>1, <1>2, <1>3 DEF I!EnableVss

LEMMA WinReSteps ==
  ASSUME Formed, I!EnableWinRe
  PROVE  \/ /\ repair.at = "begin"
            /\ (Could("winre", "on") /\ GoesTo("read")) \/ (setting' = setting /\ Ends("failed"))
         \/ /\ repair.at = "read" /\ setting' = setting
            /\ Ends("failed") \/ (setting.winre = "on" /\ Ends("done"))
<1>. USE DEF I!At, I!Go, I!Step, I!Return, I!End, I!NoAnswer, I!With,
            NoRepair, NoFinding, I!NoRepair, I!NoFinding
<1>1. CASE repair.at = "begin"
  BY <1>1 DEF I!EnableWinRe, I!Ignored, Formed, Could, GoesTo, Ends
<1>2. CASE repair.at = "read"
  BY <1>2 DEF I!EnableWinRe, Ends
<1>3. QED BY <1>1, <1>2 DEF I!EnableWinRe

LEMMA WmiSteps ==
  ASSUME Formed, I!SalvageWmi
  PROVE  \/ /\ repair.at = "begin"
            /\ \/ setting' = setting /\ Ends("failed")
               \/ /\ \E left \in SUBSET setting.failing : setting' = [setting EXCEPT !.failing = left]
                  /\ GoesTo("probe")
         \/ /\ repair.at = "probe" /\ setting' = setting
            /\ Ends("failed") \/ (setting.failing = {} /\ Ends("done"))
<1>. USE DEF I!At, I!Go, I!Step, I!Return, I!End, I!NoAnswer, I!With,
            NoRepair, NoFinding, I!NoRepair, I!NoFinding
<1>1. CASE repair.at = "begin"
  BY <1>1 DEF I!SalvageWmi, Formed, GoesTo, Ends
<1>2. CASE repair.at = "probe"
  BY <1>2 DEF I!SalvageWmi, I!ReadBack, Ends
<1>3. QED BY <1>1, <1>2 DEF I!SalvageWmi

LEMMA AppsSteps ==
  ASSUME Formed, I!ReregisterPackages
  PROVE  \/ /\ repair.at = "begin" /\ setting' = setting
            /\ \/ Ends("failed")
               \/ I!BrokenPackages(setting) = {} /\ Ends("done")
               \/ /\ I!BrokenPackages(setting) # {}
                  /\ GoesTo("register") /\ repair'.left = I!BrokenPackages(setting)
         \/ /\ repair.at = "register"
            /\ \E fixed \in SUBSET repair.left :
                 setting' = [a \in DOMAIN setting |-> IF a \in fixed THEN "ok" ELSE setting[a]]
            /\ (GoesTo("read") /\ repair'.left = repair.left) \/ Ends("failed")
         \/ /\ repair.at = "read" /\ setting' = setting
            /\ Ends("failed") \/ (repair.left \cap I!BrokenPackages(setting) = {} /\ Ends("done"))
<1>. USE DEF I!At, I!Go, I!Step, I!Return, I!End, I!NoAnswer, I!With,
            NoRepair, NoFinding, I!NoRepair, I!NoFinding
<1>1. CASE repair.at = "begin"
  BY <1>1 DEF I!ReregisterPackages, I!Take, Formed, GoesTo, Ends
<1>2. CASE repair.at = "register"
  BY <1>2 DEF I!ReregisterPackages, Formed, GoesTo, Ends
<1>3. CASE repair.at = "read"
  BY <1>3 DEF I!ReregisterPackages, I!ReadBack, Ends
<1>4. QED BY <1>1, <1>2, <1>3 DEF I!ReregisterPackages

LEMMA TaskSteps ==
  ASSUME Formed, U!DisableTask(repair.finding)
  PROVE  \/ /\ repair.at = "begin" /\ setting' = setting
            /\ GoesTo("known") \/ Ends("unchanged")
         \/ /\ repair.at = "known" /\ U!LeftToItsOwner(repair.finding)
            /\ setting' = setting /\ Ends("unchanged")
         \/ /\ repair.at = "known" /\ ~U!LeftToItsOwner(repair.finding)
            /\ LET off == [setting EXCEPT ![repair.finding[2]] = [setting[repair.finding[2]] EXCEPT !.enabled = FALSE]]
               IN  \/ setting' \in {off, setting} /\ Ends("failed")
                   \/ setting' = off /\ Ends("done")
                   \/ setting' \in {off, setting} /\ Ends("unproved")
<1>. USE DEF U!At, U!Go, U!Step, U!Return, U!End, U!NoAnswer, U!With,
            NoRepair, NoFinding, U!NoRepair, U!NoFinding
<1>1. CASE repair.at = "begin"
  BY <1>1 DEF U!DisableTask, Formed, GoesTo, Ends
<1>2. CASE repair.at = "known"
  BY <1>2 DEF U!DisableTask, Ends
<1>3. QED BY <1>1, <1>2 DEF U!DisableTask

LEMMA ResetSteps ==
  ASSUME Formed, U!ResetComponents
  PROVE  \/ ~config.auto_restart_services /\ setting' = setting /\ Ends("unchanged")
         \/ /\ config.auto_restart_services /\ repair.at = "begin" /\ setting' = setting
            /\ GoesTo("rename") \/ Ends("unchanged")
         \/ /\ config.auto_restart_services /\ repair.at \in {"rename", "second", "start"}
            /\ setting' = setting \/ \E f : setting' = [setting EXCEPT !.folders = f]
            /\ GoesTo("second") \/ GoesTo("start") \/ Ends("failed") \/ Ends("done")
<1>. USE DEF U!At, U!Go, U!Step, U!Return, U!End, U!NoAnswer, U!With,
            NoRepair, NoFinding, U!NoRepair, U!NoFinding
<1>1. CASE ~config.auto_restart_services
  BY <1>1 DEF U!ResetComponents, Ends
<1>2. CASE config.auto_restart_services /\ repair.at = "begin"
  BY <1>2 DEF U!ResetComponents, Formed, GoesTo, Ends
<1>3. CASE config.auto_restart_services /\ repair.at = "rename"
  BY <1>3 DEF U!ResetComponents, Formed, GoesTo, Ends
<1>4. CASE config.auto_restart_services /\ repair.at = "second"
  BY <1>4 DEF U!ResetComponents, Formed, GoesTo, Ends
<1>5. CASE config.auto_restart_services /\ repair.at = "start"
  BY <1>5 DEF U!ResetComponents, Formed, GoesTo, Ends
<1>6. QED BY <1>1, <1>2, <1>3, <1>4, <1>5 DEF U!ResetComponents

LEMMA UpdateServiceSteps ==
  ASSUME Formed, U!EnableUpdateService
  PROVE  \/ /\ repair.at = "begin" /\ Could("start", "manual")
            /\ GoesTo("read") \/ Ends("failed")
         \/ /\ repair.at = "read" /\ setting' = setting
            /\ Ends("failed") \/ (setting.start # "disabled" /\ (GoesTo("net") \/ Ends("done")))
         \/ /\ repair.at = "net" /\ GoesTo("state")
            /\ setting' = setting \/ \E up : setting' = [setting EXCEPT !.running = up]
         \/ repair.at = "state" /\ setting' = setting /\ Ends("done")
<1>. USE DEF U!At, U!Go, U!Step, U!Return, U!End, U!NoAnswer, U!With,
            NoRepair, NoFinding, U!NoRepair, U!NoFinding
<1>1. CASE repair.at = "begin"
  BY <1>1 DEF U!EnableUpdateService, U!Command, U!CommandOf, Formed, Could, GoesTo, Ends
<1>2. CASE repair.at = "read"
  BY <1>2 DEF U!EnableUpdateService, Formed, GoesTo, Ends
<1>3. CASE repair.at = "net"
  BY <1>3 DEF U!EnableUpdateService, U!Ignored, Formed, GoesTo
<1>4. CASE repair.at = "state"
  BY <1>4 DEF U!EnableUpdateService, Ends
<1>5. QED BY <1>1, <1>2, <1>3, <1>4 DEF U!EnableUpdateService

LEMMA DumpSteps ==
  ASSUME K!DeleteStaleDumps
  PROVE  \E rest :
           /\ setting' = [setting EXCEPT !.old = rest]
           /\ Ends("failed") \/ (rest = {} /\ Ends("done"))
<1>. USE DEF K!At, K!Go, K!Step, K!Return, K!End, K!NoAnswer, K!With,
            NoRepair, NoFinding, K!NoRepair, K!NoFinding
<1>1. CASE K!End(K!With("old", setting.held), saved, IF setting.held = {} THEN "done" ELSE "failed")
  BY <1>1 DEF Ends
<1>2. CASE \E rest \in SUBSET setting.old :
             setting.held \subseteq rest /\ K!End(K!With("old", rest), saved, "failed")
  BY <1>2 DEF Ends
<1>3. QED BY <1>1, <1>2 DEF K!DeleteStaleDumps

LEMMA AddonSteps ==
  ASSUME Formed, K!BlockAddon
  PROVE  \/ /\ repair.at = "begin" /\ setting' = setting
            /\ \/ Ends("failed") \/ Ends("unchanged")
               \/ /\ setting.crashed /\ K!LeftToBlock(setting) # {}
                  /\ GoesTo("block") \/ GoesTo("backup")
                  /\ repair'.left = K!LeftToBlock(setting)
         \/ /\ repair.at = "backup" /\ setting' = setting
            /\ (GoesTo("block") /\ repair'.left = repair.left) \/ Ends("unchanged")
         \/ /\ repair.at = "block"
            /\ \E c \in repair.left :
                 /\ Could("blocked", (setting.blocked \ K!NoKey) \cup {c})
                 /\ \/ (GoesTo("block") \/ GoesTo("read")) /\ repair'.left = repair.left \ {c}
                    \/ Ends("failed")
         \/ /\ repair.at = "read" /\ setting' = setting
            /\ Ends("failed") \/ (K!LeftToBlock(setting) = {} /\ Ends("done"))
<1>. USE DEF K!At, K!Go, K!Step, K!Return, K!End, K!NoAnswer, K!With,
            NoRepair, NoFinding, K!NoRepair, K!NoFinding
<1>1. CASE repair.at = "begin"
  BY <1>1 DEF K!BlockAddon, K!Take, Formed, GoesTo, Ends
<1>2. CASE repair.at = "backup"
  BY <1>2 DEF K!BlockAddon, Formed, GoesTo, Ends
<1>3. CASE repair.at = "block"
  <2>1. PICK c \in repair.left, place \in {"block", "read"} :
          K!CommandOf(K!Blocking(c), place, repair.left \ {c})
    BY <1>3 DEF K!BlockAddon, K!Each
  <2>2. /\ Could("blocked", (setting.blocked \ K!NoKey) \cup {c})
        /\ (GoesTo(place) /\ repair'.left = repair.left \ {c}) \/ Ends("failed")
    BY <2>1 DEF K!CommandOf, K!Blocking, Formed, Could, GoesTo, Ends
  <2>3. \E d \in repair.left :
          /\ Could("blocked", (setting.blocked \ K!NoKey) \cup {d})
          /\ \/ (GoesTo("block") \/ GoesTo("read")) /\ repair'.left = repair.left \ {d}
             \/ Ends("failed")
    BY <2>1, <2>2
  <2>4. QED BY <1>3, <2>3
<1>4. CASE repair.at = "read"
  BY <1>4 DEF K!BlockAddon, K!ReadBack, Ends
<1>5. QED BY <1>1, <1>2, <1>3, <1>4 DEF K!BlockAddon

(* The three ways a step of a repair leaves what was done.                 *)
LEMMA GoesOn ==
  ASSUME Formed, NEW place, GoesTo(place), Items \subseteq DOMAIN setting',
         \A g \in done : Cured(g, setting')
  PROVE  Carries
  BY DEF GoesTo, Carries, Follows

LEMMA GivesUp ==
  ASSUME NEW how \in {"failed", "unchanged", "unproved", "cancelled"}, Ends(how), Items \subseteq DOMAIN setting',
         \A g \in done \ {repair.finding} : Cured(g, setting')
  PROVE  Carries
  BY DEF Ends, Carries, Follows

LEMMA Succeeds ==
  ASSUME NEW how \in {"done", "nothing"}, Ends(how), Items \subseteq DOMAIN setting',
         \A g \in done : Cured(g, setting'), Cured(repair.finding, setting')
  PROVE  Carries
  BY DEF Ends, Carries, Follows

LEMMA ServiceLasts ==
  ASSUME part = "services", Sound, ~Idle, UNCHANGED around,
         repair.finding # "guarded", T!FixService(repair.finding)
  PROVE  Carries /\ Underway' /\ World'
<1>1. /\ \A g, s : Cured(g, s) <=> IF g = "guarded" THEN s.start = "auto" ELSE s[g] # "disabled"
      /\ Items = {"auto", "demand", "guarded", "start"}
      /\ Cures = {"auto", "demand", "guarded"}
      /\ Underway' <=> (repair'.at = "start" => setting'[repair'.finding] # "disabled")
      /\ World'
  BY DEF Cured, Items, Cures, Underway, World, around
<1>2. /\ Formed /\ Items \subseteq DOMAIN setting
      /\ \A g \in done : Cured(g, setting)
      /\ done \subseteq Cures /\ repair.finding \in Cures
      /\ UNCHANGED <<reported, config>>
      /\ (repair.at = "start" => setting[repair.finding] # "disabled")
  BY DEF Sound, Held, Lasting, Repairable, around, Underway
<1>3. QED BY <1>1, <1>2, ServiceSteps, Ended DEF Carries, Follows, Could, GoesTo, Ends, T!Restore

LEMMA GuardedServiceLasts ==
  ASSUME part = "services", Sound, ~Idle, UNCHANGED around,
         repair.finding = "guarded", T!FixServiceInRegistry
  PROVE  Carries /\ Underway' /\ World'
<1>1. /\ \A g, s : Cured(g, s) <=> IF g = "guarded" THEN s.start = "auto" ELSE s[g] # "disabled"
      /\ Items = {"auto", "demand", "guarded", "start"}
      /\ Cures = {"auto", "demand", "guarded"}
      /\ Underway' <=> (repair'.at = "start" => setting'[repair'.finding] # "disabled")
      /\ World'
  BY DEF Cured, Items, Cures, Underway, World, around
<1>2. /\ Formed /\ Items \subseteq DOMAIN setting
      /\ \A g \in done : Cured(g, setting)
      /\ done \subseteq Cures /\ repair.finding \in Cures
      /\ UNCHANGED <<reported, config>>
      /\ (repair.at = "start" => setting[repair.finding] # "disabled")
  BY DEF Sound, Held, Lasting, Repairable, around, Underway
<1>3. QED BY <1>1, <1>2, GuardedServiceSteps, Ended DEF Carries, Follows, Could, GoesTo, Ends

LEMMA ThresholdLasts ==
  ASSUME part = "threshold", Sound, ~Idle, UNCHANGED around,
         T!FixSplitThreshold
  PROVE  Carries /\ Underway' /\ World'
<1>1. /\ \A g, s : Cured(g, s) <=> s.threshold # "raised"
      /\ Items = {"threshold", "memory"}
      /\ Cures = {"grouped"}
      /\ Underway'
      /\ World'
  BY DEF Cured, Items, Cures, Underway, World, around
<1>2. /\ Formed /\ Items \subseteq DOMAIN setting
      /\ \A g \in done : Cured(g, setting)
      /\ done \subseteq Cures /\ repair.finding \in Cures
      /\ UNCHANGED <<reported, config>>
  BY DEF Sound, Held, Lasting, Repairable, around
<1>3. CASE repair.at = "begin"
  BY <1>1, <1>2, <1>3, ThresholdSteps, Ended DEF Carries, Follows, Could, GoesTo, Ends, T!KeepsServicesGrouped
<1>4. CASE repair.at = "backup"
  BY <1>1, <1>2, <1>4, ThresholdSteps, Ended DEF Carries, Follows, Could, GoesTo, Ends, T!KeepsServicesGrouped
<1>5. CASE repair.at = "write"
  BY <1>1, <1>2, <1>5, ThresholdSteps, Ended DEF Carries, Follows, Could, GoesTo, Ends, T!KeepsServicesGrouped
<1>6. CASE repair.at = "read"
  BY <1>1, <1>2, <1>6, ThresholdSteps, Ended DEF Carries, Follows, Could, GoesTo, Ends, T!KeepsServicesGrouped
<1>7. QED BY <1>2, <1>3, <1>4, <1>5, <1>6, ThresholdSteps

LEMMA HostsLast ==
  ASSUME part = "hosts", Sound, ~Idle, UNCHANGED around,
         T!FixHosts
  PROVE  Carries /\ Underway' /\ World'
<1>1. /\ \A g, s : Cured(g, s) <=> T!HostsBlocks(s.hosts) = {}
      /\ Items = {"hosts"}
      /\ Cures = {"blocks"}
      /\ Underway' <=> (repair'.at = "flush" => T!HostsBlocks(setting'.hosts) = {})
      /\ World'
  BY DEF Cured, Items, Cures, Underway, World, around
<1>2. /\ Formed /\ Items \subseteq DOMAIN setting
      /\ \A g \in done : Cured(g, setting)
      /\ done \subseteq Cures /\ repair.finding \in Cures
      /\ UNCHANGED <<reported, config>>
      /\ (repair.at = "flush" => T!HostsBlocks(setting.hosts) = {})
  BY DEF Sound, Held, Lasting, Repairable, around, Underway
<1>3. \A file : T!HostsBlocks(T!UnblockHosts(file)) = {}
  BY DEF T!HostsBlocks, T!UnblockHosts
<1>4. QED BY <1>1, <1>2, <1>3, HostsSteps, Ended DEF Carries, Follows, Could, GoesTo, Ends

LEMMA ProxyLasts ==
  ASSUME part = "connections", Sound, ~Idle, UNCHANGED around,
         repair.finding # "catalog", N!FixProxy(repair.finding)
  PROVE  Carries /\ Underway' /\ World'
<1>1. /\ \A g, s : Cured(g, s) <=> IF g = "catalog" THEN s.catalog \in {"reset", "intact"} ELSE s[g] # "dead"
      /\ Items = {"user", "winhttp", "catalog"}
      /\ Cures = {"user", "winhttp", "catalog"}
      /\ Underway'
      /\ World'
  BY DEF Cured, Items, Cures, Underway, World, around
<1>2. /\ Formed /\ Items \subseteq DOMAIN setting
      /\ \A g \in done : Cured(g, setting)
      /\ done \subseteq Cures /\ repair.finding \in Cures
      /\ UNCHANGED <<reported, config>>
  BY DEF Sound, Held, Lasting, Repairable, around
<1>3. QED BY <1>1, <1>2, ProxySteps, Ended DEF Carries, Follows, Could, GoesTo, Ends

LEMMA CatalogLasts ==
  ASSUME part = "connections", Sound, ~Idle, UNCHANGED around,
         repair.finding = "catalog", N!FixCatalog
  PROVE  Carries /\ Underway' /\ World'
<1>1. /\ \A g, s : Cured(g, s) <=> IF g = "catalog" THEN s.catalog \in {"reset", "intact"} ELSE s[g] # "dead"
      /\ Items = {"user", "winhttp", "catalog"}
      /\ Cures = {"user", "winhttp", "catalog"}
      /\ Underway'
      /\ World'
  BY DEF Cured, Items, Cures, Underway, World, around
<1>2. /\ Formed /\ Items \subseteq DOMAIN setting
      /\ \A g \in done : Cured(g, setting)
      /\ done \subseteq Cures /\ repair.finding \in Cures
      /\ UNCHANGED <<reported, config>>
  BY DEF Sound, Held, Lasting, Repairable, around
<1>3. QED BY <1>1, <1>2, CatalogSteps, Ended DEF Carries, Follows, Could, GoesTo, Ends

LEMMA PageFileLasts ==
  ASSUME part = "pagefile", Sound, ~Idle, UNCHANGED around,
         IF repair.finding = "disabled" THEN S!EnableAutomaticManagement ELSE S!SetSystemManaged
  PROVE  Carries /\ Underway' /\ World'
<1>1. /\ \A g, s : Cured(g, s) <=> IF g = "disabled" THEN s.files # "none" ELSE s.files \notin {"small", "inverted"}
      /\ Items = {"files"}
      /\ Cures = {"disabled", "fixedsize"}
      /\ Underway'
      /\ World'
  BY DEF Cured, Items, Cures, Underway, World, around
<1>2. /\ Formed /\ Items \subseteq DOMAIN setting
      /\ \A g \in done : Cured(g, setting)
      /\ done \subseteq Cures /\ repair.finding \in Cures
      /\ UNCHANGED <<reported, config>>
  BY DEF Sound, Held, Lasting, Repairable, around
<1>3. QED BY <1>1, <1>2, PageFileSteps, Ended DEF Carries, Follows, Could, GoesTo, Ends

LEMMA ClockLasts ==
  ASSUME part = "clock", Sound, ~Idle, UNCHANGED around,
         S!FixClock
  PROVE  Carries /\ Underway' /\ World'
<1>1. /\ \A g, s : Cured(g, s) <=> s.clock = "right"
      /\ Items = {"clock"}
      /\ Cures = {"clock"}
      /\ Underway'
      /\ World'
  BY DEF Cured, Items, Cures, Underway, World, around
<1>2. /\ Formed /\ Items \subseteq DOMAIN setting
      /\ \A g \in done : Cured(g, setting)
      /\ done \subseteq Cures /\ repair.finding \in Cures
      /\ UNCHANGED <<reported, config>>
  BY DEF Sound, Held, Lasting, Repairable, around
<1>3. QED BY <1>1, <1>2, ClockSteps, Ended DEF Carries, Follows, Could, GoesTo, Ends

LEMMA OverdueLasts ==
  ASSUME part = "restart", Sound, ~Idle, UNCHANGED around,
         S!FixRestart
  PROVE  Carries /\ Underway' /\ World'
<1>1. /\ \A g, s : Cured(g, s) <=> TRUE
      /\ Items = {"up"}
      /\ Cures = {"overdue"}
      /\ Underway'
      /\ World'
  BY DEF Cured, Items, Cures, Underway, World, around
<1>2. /\ Formed /\ Items \subseteq DOMAIN setting
      /\ \A g \in done : Cured(g, setting)
      /\ done \subseteq Cures /\ repair.finding \in Cures
      /\ UNCHANGED <<reported, config>>
  BY DEF Sound, Held, Lasting, Repairable, around
<1>3. QED BY <1>1, <1>2, RestartSteps, Ended DEF Carries, Follows, Could, GoesTo, Ends

LEMMA RemedyLasts ==
  ASSUME part = "device", Sound, ~Idle, UNCHANGED around,
         H!RepairDevice(repair.finding)
  PROVE  Carries /\ Underway' /\ World'
<1>1. /\ \A g, s : Cured(g, s) <=> s.problem \in Harmless
      /\ Items = {"problem"}
      /\ Cures = {"restart", "driver"}
      /\ Underway' <=> (repair' # NoRepair /\ repair'.at = "begin" => setting'.problem \in {repair'.finding} \cup Harmless)
      /\ World' <=> (reported' \cap Cures = {} \/ setting'.problem \in (reported' \cap Cures) \cup Harmless)
  BY DEF Cured, Items, Cures, Underway, World, around, Idle
<1>2. /\ Formed /\ Items \subseteq DOMAIN setting
      /\ \A g \in done : Cured(g, setting)
      /\ done \subseteq Cures /\ repair.finding \in Cures
      /\ UNCHANGED <<reported, config>>
      /\ done = {} /\ reported \cap Cures = {}
      /\ (repair # NoRepair /\ repair.at = "begin" => setting.problem \in {repair.finding} \cup Harmless)
      /\ (reported \cap Cures = {} \/ setting.problem \in (reported \cap Cures) \cup Harmless)
  BY DEF Sound, Held, Lasting, Repairable, around, Once, OnceParts, Underway, World, Idle
<1>3. CASE repair.at = "begin"
  BY <1>1, <1>2, <1>3, RemedySteps, Ended DEF Carries, Follows, Could, GoesTo, Ends, Harmless, Idle, NoRepair, NoFinding
<1>4. CASE repair.at = "build"
  BY <1>1, <1>2, <1>4, RemedySteps, Ended DEF Carries, Follows, Could, GoesTo, Ends, Harmless, Idle, NoRepair, NoFinding
<1>5. CASE repair.at = "pnputil"
  BY <1>1, <1>2, <1>5, RemedySteps, Ended DEF Carries, Follows, Could, GoesTo, Ends, Harmless, Idle, NoRepair, NoFinding
<1>6. CASE repair.at = "read"
  BY <1>1, <1>2, <1>6, RemedySteps, Ended DEF Carries, Follows, Could, GoesTo, Ends, Harmless, Idle, NoRepair, NoFinding
<1>7. QED BY <1>2, <1>3, <1>4, <1>5, <1>6, RemedySteps

LEMMA PrintingLasts ==
  ASSUME part = "printing", Sound, ~Idle, UNCHANGED around,
         H!ClearPrintQueue
  PROVE  Carries /\ Underway' /\ World'
<1>1. /\ \A g, s : Cured(g, s) <=> (s.spooler = "running" /\ s.jobs = "none")
      /\ Items = {"spooler", "jobs"}
      /\ Cures = {"queue"}
      /\ Underway'
      /\ World'
  BY DEF Cured, Items, Cures, Underway, World, around
<1>2. /\ Formed /\ Items \subseteq DOMAIN setting
      /\ \A g \in done : Cured(g, setting)
      /\ done \subseteq Cures /\ repair.finding \in Cures
      /\ UNCHANGED <<reported, config>>
      /\ done = {} /\ reported \cap Cures = {}
  BY DEF Sound, Held, Lasting, Repairable, around, Once, OnceParts
<1>3. QED BY <1>1, <1>2, PrintingSteps, Ended DEF Carries, Follows, Could, GoesTo, Ends

LEMMA MemoryTestLasts ==
  ASSUME part = "whea", Sound, ~Idle, UNCHANGED around,
         repair.finding # "pcie", H!ScheduleMemoryTest
  PROVE  Carries /\ Underway' /\ World'
<1>1. /\ \A g, s : Cured(g, s) <=> IF g = "pcie" THEN s.ac = "off" /\ s.dc = "off" ELSE s.ram = "good" => s.test \in {"scheduled", "passed"}
      /\ Items = {"test", "ac", "dc", "ram"}
      /\ Cures = {"cpu", "memory", "pcie"}
      /\ Underway'
      /\ World'
  BY DEF Cured, Items, Cures, Underway, World, around, H!AspmOff
<1>2. /\ Formed /\ Items \subseteq DOMAIN setting
      /\ \A g \in done : Cured(g, setting)
      /\ done \subseteq Cures /\ repair.finding \in Cures
      /\ UNCHANGED <<reported, config>>
  BY DEF Sound, Held, Lasting, Repairable, around
<1>3. QED BY <1>1, <1>2, MemoryTestSteps, Ended DEF Carries, Follows, Could, GoesTo, Ends

LEMMA DirtyLasts ==
  ASSUME part = "dirty", Sound, ~Idle, UNCHANGED around,
         C!RunChkdsk
  PROVE  Carries /\ Underway' /\ World'
<1>1. /\ \A g, s : Cured(g, s) <=> TRUE
      /\ Items = {"dirty"}
      /\ Cures = {"dirty"}
      /\ Underway'
      /\ World'
  BY DEF Cured, Items, Cures, Underway, World, around
<1>2. /\ Formed /\ Items \subseteq DOMAIN setting
      /\ \A g \in done : Cured(g, setting)
      /\ done \subseteq Cures /\ repair.finding \in Cures
      /\ UNCHANGED <<reported, config>>
  BY DEF Sound, Held, Lasting, Repairable, around
<1>3. QED BY <1>1, <1>2, ChkdskSteps, Ended DEF Carries, Follows, Could, GoesTo, Ends

LEMMA IconsLast ==
  ASSUME part = "icons", Sound, ~Idle, UNCHANGED around,
         C!RebuildIconCache
  PROVE  Carries /\ Underway' /\ World'
<1>1. /\ \A g, s : Cured(g, s) <=> s.icons = "small"
      /\ Items = {"icons"}
      /\ Cures = {"icons"}
      /\ Underway'
      /\ World'
  BY DEF Cured, Items, Cures, Underway, World, around
<1>2. /\ Formed /\ Items \subseteq DOMAIN setting
      /\ \A g \in done : Cured(g, setting)
      /\ done \subseteq Cures /\ repair.finding \in Cures
      /\ UNCHANGED <<reported, config>>
  BY DEF Sound, Held, Lasting, Repairable, around
<1>3. QED BY <1>1, <1>2, IconSteps, Ended DEF Carries, Follows, Could, GoesTo, Ends

LEMMA LogsLast ==
  ASSUME part = "logs", Sound, ~Idle, UNCHANGED around,
         C!CleanLogs
  PROVE  Carries /\ Underway' /\ World'
<1>1. /\ \A g, s : Cured(g, s) <=> "log" \notin s.logs
      /\ Items = {"logs"}
      /\ Cures = {"logs"}
      /\ Underway'
      /\ World'
  BY DEF Cured, Items, Cures, Underway, World, around
<1>2. /\ Formed /\ Items \subseteq DOMAIN setting
      /\ \A g \in done : Cured(g, setting)
      /\ done \subseteq Cures /\ repair.finding \in Cures
      /\ UNCHANGED <<reported, config>>
  BY DEF Sound, Held, Lasting, Repairable, around
<1>3. QED BY <1>1, <1>2, LogSteps, Ended DEF Carries, Follows, Could, GoesTo, Ends

LEMMA FolderCures ==
  ASSUME part \in {"temp", "cache", "delivery", "downloads"}
  PROVE  Cures = {part}
  BY DEF Cures

LEMMA DeliveryLasts ==
  ASSUME part = "delivery", Sound, ~Idle, UNCHANGED around,
         C!CleanDelivery
  PROVE  Carries /\ Underway' /\ World'
<1>1. /\ \A g, s : Cured(g, s) <=> s.delivery \subseteq C!Held
      /\ Items = {"delivery"}
      /\ Cures = {"delivery"}
      /\ Underway' <=> /\ ~Idle' /\ repair'.at \in {"begin", "sweep"} => before.delivery = setting'.delivery
                       /\ repair'.at = "rest" => "held" \notin setting'.delivery
      /\ World' <=> (Idle' /\ "delivery" \in done' /\ "held" \in setting'.delivery =>
                       before.delivery \ C!Held # {})
  BY DEF Cured, Items, Cures, Underway, World, around
<1>2. /\ Formed /\ Items \subseteq DOMAIN setting
      /\ \A g \in done : Cured(g, setting)
      /\ done \subseteq Cures /\ repair.finding \in Cures
      /\ UNCHANGED <<reported, config>>
      /\ repair.at \in {"begin", "sweep"} => before.delivery = setting.delivery
      /\ repair.at = "rest" => "held" \notin setting.delivery
      /\ repair # NoRepair
  BY DEF Sound, Held, Lasting, Repairable, around, Underway, World, Idle
<1>3. CASE /\ repair.at = "begin"
           /\ setting' = [setting EXCEPT !.delivery = setting.delivery \ {"much", "held"}]
           /\ GoesTo("rest")
  BY <1>1, <1>2, <1>3, GoesOn, EndedNot DEF GoesTo, C!Held
<1>4. CASE repair.at = "begin" /\ setting' = setting /\ GoesTo("sweep")
  BY <1>1, <1>2, <1>4, GoesOn, EndedNot DEF GoesTo
<1>5. ASSUME NEW how \in {"done", "failed"},
             how = "done" => setting.delivery \ C!Held # {} \/ "held" \notin setting.delivery,
             repair.at = "sweep" \/ "held" \notin setting.delivery,
             setting' = [setting EXCEPT !.delivery = C!Swept(setting.delivery)], Ends(how)
      PROVE  Carries /\ Underway' /\ World'
  <2>1. setting'.delivery = setting.delivery \cap C!Held /\ DOMAIN setting' = DOMAIN setting
    BY <1>1, <1>2, <1>5 DEF C!Swept
  <2>2. Carries
    BY <1>1, <1>2, <1>5, <2>1, GivesUp, Succeeds
  <2>3. QED BY <1>1, <1>2, <1>5, <2>1, <2>2, Ended DEF Ends, Idle
<1>6. QED BY <1>2, <1>3, <1>4, <1>5, DeliverySteps DEF C!CleanupResult

LEMMA DownloadsLast ==
  ASSUME part = "downloads", Sound, ~Idle, UNCHANGED around,
         C!CleanUpdateCache
  PROVE  Carries /\ Underway' /\ World'
<1>1. /\ \A g, s : Cured(g, s) <=> s.downloads \subseteq C!Held
      /\ Items = {"downloads"}
      /\ Cures = {"downloads"}
      /\ Underway' <=> /\ ~Idle' /\ repair'.at \in {"begin", "sweep"} => before.downloads = setting'.downloads
                       /\ repair'.at = "start" =>
                            before.downloads = repair'.left /\ setting'.downloads = repair'.left \cap C!Held
      /\ World' <=> (Idle' /\ "downloads" \in done' /\ "held" \in setting'.downloads =>
                       before.downloads \ C!Held # {})
  BY DEF Cured, Items, Cures, Underway, World, around
<1>2. /\ Formed /\ Items \subseteq DOMAIN setting
      /\ \A g \in done : Cured(g, setting)
      /\ done \subseteq Cures /\ repair.finding \in Cures
      /\ UNCHANGED <<reported, config>>
      /\ repair.at \in {"begin", "sweep"} => before.downloads = setting.downloads
      /\ repair.at = "start" =>
           before.downloads = repair.left /\ setting.downloads = repair.left \cap C!Held
      /\ repair # NoRepair
  BY DEF Sound, Held, Lasting, Repairable, around, Underway, World, Idle
<1>3. CASE setting' = setting /\ repair.at = "begin" /\ GoesTo("sweep")
  BY <1>1, <1>2, <1>3, GoesOn, EndedNot DEF GoesTo
<1>4. CASE /\ repair.at = "sweep" /\ setting' = [setting EXCEPT !.downloads = C!Swept(setting.downloads)]
           /\ GoesTo("start") /\ repair'.left = setting.downloads
  <2>1. setting'.downloads = setting.downloads \cap C!Held /\ DOMAIN setting' = DOMAIN setting
    BY <1>1, <1>2, <1>4 DEF C!Swept
  <2>2. Carries
    BY <1>1, <1>2, <1>4, <2>1, GoesOn
  <2>3. QED BY <1>1, <1>2, <1>4, <2>1, <2>2, EndedNot DEF GoesTo
<1>5. ASSUME NEW how \in {"failed", "unchanged"}, setting' = setting, Ends(how)
      PROVE  Carries /\ Underway' /\ World'
  <2>1. Carries
    BY <1>2, <1>5, GivesUp
  <2>2. QED BY <1>1, <1>2, <1>5, <2>1, Ended DEF Ends, Idle
<1>6. CASE repair.at = "start" /\ setting' = setting /\ Ends("done") /\ C!CleanupResult(repair.left) = "done"
  <2>1. repair.left \ C!Held # {} \/ "held" \notin repair.left
    BY <1>6 DEF C!CleanupResult
  <2>2. Carries
    BY <1>1, <1>2, <1>6, Succeeds
  <2>3. QED BY <1>1, <1>2, <1>6, <2>1, <2>2, Ended DEF Ends, Idle
<1>7. QED BY <1>2, <1>3, <1>4, <1>5, <1>6, UpdateCacheSteps DEF C!CleanupResult

LEMMA BinLasts ==
  ASSUME part = "bin", Sound, ~Idle, UNCHANGED around,
         C!EmptyRecycleBin
  PROVE  Carries /\ Underway' /\ World'
<1>1. /\ \A g, s : Cured(g, s) <=> (\A d \in C!Drives : "item" \notin s[d])
      /\ Items = {"C", "D"}
      /\ Cures = {"bin"}
      /\ Underway'
      /\ World'
  BY DEF Cured, Items, Cures, Underway, World, around, C!Drives
<1>2. /\ Formed /\ Items \subseteq DOMAIN setting
      /\ \A g \in done : Cured(g, setting)
      /\ done \subseteq Cures /\ repair.finding \in Cures
      /\ UNCHANGED <<reported, config>>
  BY DEF Sound, Held, Lasting, Repairable, around, C!Drives
<1>3. QED BY <1>1, <1>2, BinSteps, Ended DEF Carries, Follows, Could, GoesTo, Ends, C!Drives

LEMMA WinSxSLasts ==
  ASSUME part = "winsxs", Sound, ~Idle, UNCHANGED around,
         C!CleanComponentStore
  PROVE  Carries /\ Underway' /\ World'
<1>1. /\ \A g, s : Cured(g, s) <=> (s.packages = 0 \/ s.note = s.packages)
      /\ Items = {"packages", "note"}
      /\ Cures = {"winsxs"}
      /\ Underway'
      /\ World'
  BY DEF Cured, Items, Cures, Underway, World, around
<1>2. /\ Formed /\ Items \subseteq DOMAIN setting
      /\ \A g \in done : Cured(g, setting)
      /\ done \subseteq Cures /\ repair.finding \in Cures
      /\ UNCHANGED <<reported, config>>
      /\ done = {} /\ reported \cap Cures = {}
  BY DEF Sound, Held, Lasting, Repairable, around, Once, OnceParts
<1>3. QED BY <1>1, <1>2, WinSxSSteps, Ended DEF Carries, Follows, Could, GoesTo, Ends

LEMMA StoreLasts ==
  ASSUME part = "store", Sound, ~Idle, UNCHANGED around,
         I!RepairStore
  PROVE  Carries /\ Underway' /\ World'
<1>1. /\ \A g, s : Cured(g, s) <=> (~s.marked /\ s.report \in {{}, {"backups"}})
      /\ Items = {"damage", "report", "marked", "isos"}
      /\ Cures = {"store"}
      /\ Underway'
      /\ World'
  BY DEF Cured, Items, Cures, Underway, World, around
<1>2. /\ Formed /\ Items \subseteq DOMAIN setting
      /\ \A g \in done : Cured(g, setting)
      /\ done \subseteq Cures /\ repair.finding \in Cures
      /\ UNCHANGED <<reported, config>>
      /\ done = {} /\ reported \cap Cures = {}
  BY DEF Sound, Held, Lasting, Repairable, around, Once, OnceParts
<1>3. QED BY <1>1, <1>2, StoreSteps, Ended DEF Carries, Follows, Could, GoesTo, Ends, StoreRepaired

LEMMA SfcLasts ==
  ASSUME part = "sfc", Sound, ~Idle, UNCHANGED around,
         I!RunSfc
  PROVE  Carries /\ Underway' /\ World'
<1>1. /\ \A g, s : Cured(g, s) <=> (s.left = {} /\ ~s.summary)
      /\ Items = {"left", "summary"}
      /\ Cures = {"sfc"}
      /\ Underway'
      /\ World'
  BY DEF Cured, Items, Cures, Underway, World, around
<1>2. /\ Formed /\ Items \subseteq DOMAIN setting
      /\ \A g \in done : Cured(g, setting)
      /\ done \subseteq Cures /\ repair.finding \in Cures
      /\ UNCHANGED <<reported, config>>
  BY DEF Sound, Held, Lasting, Repairable, around
<1>3. QED BY <1>1, <1>2, SfcSteps, Ended DEF Carries, Follows, Could, GoesTo, Ends

LEMMA VssLasts ==
  ASSUME part = "vss", Sound, ~Idle, UNCHANGED around,
         I!EnableVss
  PROVE  Carries /\ Underway' /\ World'
<1>1. /\ \A g, s : Cured(g, s) <=> s.vss # "disabled"
      /\ Items = {"vss"}
      /\ Cures = {"vss"}
      /\ Underway'
      /\ World'
  BY DEF Cured, Items, Cures, Underway, World, around
<1>2. /\ Formed /\ Items \subseteq DOMAIN setting
      /\ \A g \in done : Cured(g, setting)
      /\ done \subseteq Cures /\ repair.finding \in Cures
      /\ UNCHANGED <<reported, config>>
  BY DEF Sound, Held, Lasting, Repairable, around
<1>3. QED BY <1>1, <1>2, VssSteps, Ended DEF Carries, Follows, Could, GoesTo, Ends

LEMMA WinReLasts ==
  ASSUME part = "winre", Sound, ~Idle, UNCHANGED around,
         I!EnableWinRe
  PROVE  Carries /\ Underway' /\ World'
<1>1. /\ \A g, s : Cured(g, s) <=> s.winre = "on"
      /\ Items = {"winre"}
      /\ Cures = {"winre"}
      /\ Underway'
      /\ World'
  BY DEF Cured, Items, Cures, Underway, World, around
<1>2. /\ Formed /\ Items \subseteq DOMAIN setting
      /\ \A g \in done : Cured(g, setting)
      /\ done \subseteq Cures /\ repair.finding \in Cures
      /\ UNCHANGED <<reported, config>>
  BY DEF Sound, Held, Lasting, Repairable, around
<1>3. QED BY <1>1, <1>2, WinReSteps, Ended DEF Carries, Follows, Could, GoesTo, Ends

LEMMA WmiLasts ==
  ASSUME part = "wmi", Sound, ~Idle, UNCHANGED around,
         I!SalvageWmi
  PROVE  Carries /\ Underway' /\ World'
<1>1. /\ \A g, s : Cured(g, s) <=> s.failing = {}
      /\ Items = {"failing"}
      /\ Cures = {"wmi"}
      /\ Underway'
      /\ World'
  BY DEF Cured, Items, Cures, Underway, World, around
<1>2. /\ Formed /\ Items \subseteq DOMAIN setting
      /\ \A g \in done : Cured(g, setting)
      /\ done \subseteq Cures /\ repair.finding \in Cures
      /\ UNCHANGED <<reported, config>>
  BY DEF Sound, Held, Lasting, Repairable, around
<1>3. QED BY <1>1, <1>2, WmiSteps, Ended DEF Carries, Follows, Could, GoesTo, Ends

LEMMA AppsLast ==
  ASSUME part = "apps", Sound, ~Idle, UNCHANGED around,
         I!ReregisterPackages
  PROVE  Carries /\ Underway' /\ World'
<1>1. /\ \A g, s : Cured(g, s) <=> I!BrokenPackages(s) = {}
      /\ Items = {}
      /\ Cures = {"apps"}
      /\ Underway' <=> (repair'.at # "begin" => I!BrokenPackages(setting') \subseteq repair'.left)
      /\ World'
  BY DEF Cured, Items, Cures, Underway, World, around
<1>2. /\ Formed /\ Items \subseteq DOMAIN setting
      /\ \A g \in done : Cured(g, setting)
      /\ done \subseteq Cures /\ repair.finding \in Cures
      /\ UNCHANGED <<reported, config>>
      /\ (repair.at # "begin" => I!BrokenPackages(setting) \subseteq repair.left)
  BY DEF Sound, Held, Lasting, Repairable, around, Underway
<1>3. QED BY <1>1, <1>2, AppsSteps, Ended DEF Carries, Follows, Could, GoesTo, Ends, I!BrokenPackages

LEMMA TasksLast ==
  ASSUME part = "tasks", Sound, ~Idle, UNCHANGED around,
         U!DisableTask(repair.finding)
  PROVE  Carries /\ Underway' /\ World'
<1>1. /\ \A g, s : Cured(g, s) <=> ~s[g[2]].enabled
      /\ Items = U!TaskOwners
      /\ Cures = {"orphaned", "failing"} \X U!TaskOwners
      /\ Underway'
      /\ World' <=> (\A t \in U!TaskOwners : "enabled" \in DOMAIN setting'[t])
  BY DEF Cured, Items, Cures, Underway, World, around
<1>2. /\ Formed /\ Items \subseteq DOMAIN setting
      /\ \A g \in done : Cured(g, setting)
      /\ done \subseteq Cures /\ repair.finding \in Cures
      /\ UNCHANGED <<reported, config>>
      /\ (\A t \in U!TaskOwners : "enabled" \in DOMAIN setting[t])
  BY DEF Sound, Held, Lasting, Repairable, around, World
<1>3. QED BY <1>1, <1>2, TaskSteps, Ended DEF Carries, Follows, Could, GoesTo, Ends

LEMMA UpdatesLast ==
  ASSUME part = "updates", Sound, ~Idle, UNCHANGED around,
         U!ResetComponents
  PROVE  Carries /\ Underway' /\ World'
<1>1. /\ \A g, s : Cured(g, s) <=> TRUE
      /\ Items = {"log"}
      /\ Cures = {"reset"}
      /\ Underway'
      /\ World'
  BY DEF Cured, Items, Cures, Underway, World, around
<1>2. /\ Formed /\ Items \subseteq DOMAIN setting
      /\ \A g \in done : Cured(g, setting)
      /\ done \subseteq Cures /\ repair.finding \in Cures
      /\ UNCHANGED <<reported, config>>
  BY DEF Sound, Held, Lasting, Repairable, around
<1>3. QED BY <1>1, <1>2, ResetSteps, Ended DEF Carries, Follows, Could, GoesTo, Ends

LEMMA UpdateServiceLasts ==
  ASSUME part = "updateservice", Sound, ~Idle, UNCHANGED around,
         U!EnableUpdateService
  PROVE  Carries /\ Underway' /\ World'
<1>1. /\ \A g, s : Cured(g, s) <=> s.start # "disabled"
      /\ Items = {"start"}
      /\ Cures = {"service"}
      /\ Underway' <=> (repair'.at \in {"net", "state"} => setting'.start # "disabled")
      /\ World'
  BY DEF Cured, Items, Cures, Underway, World, around
<1>2. /\ Formed /\ Items \subseteq DOMAIN setting
      /\ \A g \in done : Cured(g, setting)
      /\ done \subseteq Cures /\ repair.finding \in Cures
      /\ UNCHANGED <<reported, config>>
      /\ (repair.at \in {"net", "state"} => setting.start # "disabled")
  BY DEF Sound, Held, Lasting, Repairable, around, Underway
<1>3. QED BY <1>1, <1>2, UpdateServiceSteps, Ended DEF Carries, Follows, Could, GoesTo, Ends

LEMMA BlueScreenLasts ==
  ASSUME part = "bluescreen", Sound, ~Idle, UNCHANGED around,
         K!ScheduleMemoryTest
  PROVE  Carries /\ Underway' /\ World'
<1>1. /\ \A g, s : Cured(g, s) <=> (s.ram = "good" /\ s.time # "unknown" =>
                                      s.test = "scheduled" \/ (s.test = "passed" /\ s.time = "before"))
      /\ Items = {"test", "time", "ram"}
      /\ Cures = {"memory"}
      /\ Underway'
      /\ World'
  BY DEF Cured, Items, Cures, Underway, World, around
<1>2. /\ Formed /\ Items \subseteq DOMAIN setting
      /\ \A g \in done : Cured(g, setting)
      /\ done \subseteq Cures /\ repair.finding \in Cures
      /\ UNCHANGED <<reported, config>>
  BY DEF Sound, Held, Lasting, Repairable, around
<1>3. QED BY <1>1, <1>2, MemoryTestSteps, Ended DEF Carries, Follows, Could, GoesTo, Ends

LEMMA DumpsLast ==
  ASSUME part = "dumps", Sound, ~Idle, UNCHANGED around,
         K!DeleteStaleDumps
  PROVE  Carries /\ Underway' /\ World'
<1>1. /\ \A g, s : Cured(g, s) <=> s.old = {}
      /\ Items = {"old"}
      /\ Cures = {"dumps"}
      /\ Underway'
      /\ World'
  BY DEF Cured, Items, Cures, Underway, World, around
<1>2. /\ Formed /\ Items \subseteq DOMAIN setting
      /\ \A g \in done : Cured(g, setting)
      /\ done \subseteq Cures /\ repair.finding \in Cures
      /\ UNCHANGED <<reported, config>>
  BY DEF Sound, Held, Lasting, Repairable, around
<1>3. QED BY <1>1, <1>2, DumpSteps, Ended DEF Carries, Follows, Could, GoesTo, Ends

LEMMA DeviceLasts ==
  ASSUME part = "devices", Sound, ~Idle, UNCHANGED around,
         T!FixDevice(repair.finding)
  PROVE  Carries /\ Underway' /\ World'
<1>1. /\ \A g, s : Cured(g, s) <=> s[g] # "disabled"
      /\ Items = {"hvservice", "timer"}
      /\ Cures = {"hvservice", "timer"}
      /\ Underway' <=> (repair'.at # "begin" => repair'.finding \notin done')
      /\ World'
  BY DEF Cured, Items, Cures, Underway, World, around, T!CoreDevices
<1>2. /\ Formed /\ Items \subseteq DOMAIN setting
      /\ \A g \in done : Cured(g, setting)
      /\ done \subseteq Cures /\ repair.finding \in Cures
      /\ repair.at # "begin" => repair.finding \notin done
  BY DEF Sound, Held, Lasting, Repairable, around, Underway, T!CoreDevices
<1>3. CASE repair.at = "begin"
  BY <1>1, <1>2, <1>3, DeviceSteps, Ended DEF Carries, Follows, GoesTo, Ends
<1>4. CASE repair.at = "backup"
  <2>1. setting' = setting /\ (GoesTo("enable") \/ Ends("unchanged"))
    BY <1>2, <1>4, DeviceSteps
  <2>2. Carries
    BY <1>2, <2>1, GoesOn, GivesUp
  <2>3. Underway'
    BY <1>1, <1>2, <1>4, <2>1, Ended DEF GoesTo
  <2>4. QED BY <1>1, <2>2, <2>3
<1>5. CASE repair.at = "enable"
  <2>1. PICK p : setting' = [setting EXCEPT ![repair.finding] = p]
    BY <1>2, <1>5, DeviceSteps
  <2>2. GoesTo("read") /\ repair.finding \notin done
    BY <1>2, <1>5, DeviceSteps
  <2>3. \A g \in done : Cured(g, setting')
    BY <1>1, <1>2, <2>1, <2>2
  <2>4. Items \subseteq DOMAIN setting'
    BY <1>2, <2>1
  <2>5. QED BY <1>1, <1>2, <2>2, <2>3, <2>4, GoesOn DEF GoesTo
<1>6. CASE repair.at = "read"
  BY <1>1, <1>2, <1>6, DeviceSteps, Ended DEF Carries, Follows, GoesTo, Ends
<1>7. QED BY <1>2, <1>3, <1>4, <1>5, <1>6, DeviceSteps

LEMMA AspmLasts ==
  ASSUME part = "whea", Sound, ~Idle, UNCHANGED around,
         repair.finding = "pcie", H!SwitchAspmOff
  PROVE  Carries /\ Underway' /\ World'
<1>1. /\ \A g, s : Cured(g, s) <=> IF g = "pcie" THEN s.ac = "off" /\ s.dc = "off"
                                   ELSE s.ram = "good" => s.test \in {"scheduled", "passed"}
      /\ Items = {"test", "ac", "dc", "ram"}
      /\ Underway' /\ World'
  BY DEF Cured, Items, Underway, World, around, H!AspmOff
<1>2. /\ Formed /\ Items \subseteq DOMAIN setting
      /\ \A g \in done : Cured(g, setting)
  BY DEF Sound, Held, Lasting
<1>3. setting' \in {setting, [setting EXCEPT !.ac = "off"], [setting EXCEPT !.dc = "off"]}
  BY <1>2, AspmSteps DEF Could
<1>4. /\ setting'.ac \in {setting.ac, "off"} /\ setting'.dc \in {setting.dc, "off"}
      /\ setting'.test = setting.test /\ setting'.ram = setting.ram
      /\ DOMAIN setting' = DOMAIN setting
  BY <1>1, <1>2, <1>3
<1>5. \A g \in done : Cured(g, setting')
  BY <1>1, <1>2, <1>4
<1>6. \/ \E place : GoesTo(place)
      \/ \E how \in {"failed", "unchanged"} : Ends(how)
      \/ Ends("done") /\ Cured(repair.finding, setting')
  <2>1. H!AspmOff(setting) /\ setting' = setting => Cured(repair.finding, setting')
    BY <1>1 DEF H!AspmOff
  <2>2. QED BY <1>2, <2>1, AspmSteps
<1>7. Carries
  BY <1>2, <1>4, <1>5, <1>6, GoesOn, GivesUp, Succeeds
<1>8. QED BY <1>1, <1>7

(* What is well of an adapter stays well when it only gets better.         *)
LEMMA AdapterStaysWell ==
  ASSUME part = "adapter", NEW f \in Cures, NEW s, NEW t, Cured(f, s),
         t.other = s.other, t.router = s.router, t.admin \in {s.admin, "on"},
         t.cache \in {s.cache, "good"}, t.dns \in {s.dns, "none", "alive"},
         t.address \in {s.address, "lease"} \/ s.admin = "off"
  PROVE  Cured(f, t)
<1>1. f \in {"dhcp", "off", "servers", "names"}
  BY DEF Cures
<1>2. \A u : Cured("dhcp", u) <=> u.admin = "on" /\ u.address # "standin" BY DEF Cured
<1>3. \A u : Cured("off", u) <=> u.admin = "on" BY DEF Cured
<1>4. \A u : Cured("servers", u) <=> u.dns # "dead" BY DEF Cured
<1>5. \A u : Cured("names", u) <=> N!Resolves(u) BY DEF Cured
<1>6. CASE f = "names" BY <1>5, <1>6 DEF N!Resolves, N!IpReachable, N!Connected
<1>7. QED BY <1>1, <1>2, <1>3, <1>4, <1>6

LEMMA AdapterUnderWay ==
  ASSUME part = "adapter", Sound, ~Idle, UNCHANGED around
  PROVE  /\ Items = {"admin", "address", "dns", "cache", "other", "router"}
         /\ Underway' <=> /\ repair'.at = "enable" => setting'.admin = "off"
                          /\ repair'.finding = "dhcp" => setting'.admin = "on"
                          /\ repair'.finding = "servers" /\ repair'.at = "names" => setting'.dns = "none"
         /\ World' <=> setting'.admin \in {"on", "off"} /\ ("dhcp" \in reported => setting'.admin = "on")
         /\ Formed /\ Items \subseteq DOMAIN setting
         /\ \A g \in done : Cured(g, setting)
         /\ done \subseteq Cures /\ repair.finding \in Cures
         /\ repair.at = "enable" => setting.admin = "off"
         /\ repair.finding = "dhcp" => setting.admin = "on"
         /\ repair.finding = "servers" /\ repair.at = "names" => setting.dns = "none"
         /\ setting.admin \in {"on", "off"} /\ ("dhcp" \in reported => setting.admin = "on")
         /\ \A s : /\ Cured("dhcp", s) <=> s.admin = "on" /\ s.address # "standin"
                   /\ Cured("off", s) <=> s.admin = "on"
                   /\ Cured("servers", s) <=> s.dns # "dead"
                   /\ Cured("names", s) <=> N!Resolves(s)
  <1>1. Items = {"admin", "address", "dns", "cache", "other", "router"} BY DEF Items
  <1>2. /\ Underway' <=> /\ repair'.at = "enable" => setting'.admin = "off"
                         /\ repair'.finding = "dhcp" => setting'.admin = "on"
                         /\ repair'.finding = "servers" /\ repair'.at = "names" => setting'.dns = "none"
        /\ World' <=> setting'.admin \in {"on", "off"} /\ ("dhcp" \in reported => setting'.admin = "on")
    BY DEF Underway, World, around
  <1>3. /\ \A s : Cured("dhcp", s) <=> s.admin = "on" /\ s.address # "standin"
        /\ \A s : Cured("off", s) <=> s.admin = "on"
        /\ \A s : Cured("servers", s) <=> s.dns # "dead"
        /\ \A s : Cured("names", s) <=> N!Resolves(s)
    <2>1. \A s : Cured("dhcp", s) <=> s.admin = "on" /\ s.address # "standin" BY DEF Cured
    <2>2. \A s : Cured("off", s) <=> s.admin = "on" BY DEF Cured
    <2>3. \A s : Cured("servers", s) <=> s.dns # "dead" BY DEF Cured
    <2>4. \A s : Cured("names", s) <=> N!Resolves(s) BY DEF Cured
    <2>5. QED BY <2>1, <2>2, <2>3, <2>4
  <1>4. /\ Formed /\ Items \subseteq DOMAIN setting
        /\ \A g \in done : Cured(g, setting)
        /\ done \subseteq Cures /\ repair.finding \in Cures
    BY DEF Sound, Held, Lasting, Repairable
  <1>5. /\ repair.at = "enable" => setting.admin = "off"
        /\ repair.finding = "dhcp" => setting.admin = "on"
        /\ repair.finding = "servers" /\ repair.at = "names" => setting.dns = "none"
        /\ setting.admin \in {"on", "off"} /\ ("dhcp" \in reported => setting.admin = "on")
    BY DEF Sound, Underway, World
  <1>6. QED BY <1>1, <1>2, <1>3, <1>4, <1>5

LEMMA AdapterOffLasts ==
  ASSUME part = "adapter", Sound, ~Idle, UNCHANGED around,
         repair.finding = "off", N!FixAdapterOff
  PROVE  Carries /\ Underway' /\ World'
<1>1. \/ setting' = setting
      \/ /\ repair.at = "enable"
         /\ \E address : setting' = [setting EXCEPT !.admin = "on", !.address = address]
  BY AdapterUnderWay, AdapterOffSteps
<1>2. /\ setting'.other = setting.other /\ setting'.router = setting.router
      /\ setting'.cache = setting.cache /\ setting'.dns = setting.dns
      /\ setting'.admin \in {setting.admin, "on"}
      /\ setting'.address = setting.address \/ setting.admin = "off"
      /\ DOMAIN setting' = DOMAIN setting
  BY <1>1, AdapterUnderWay
<1>3. \A g \in done : Cured(g, setting')
  BY <1>2, AdapterUnderWay, AdapterStaysWell
<1>4. \/ GoesTo("enable") /\ setting'.admin = "off"
      \/ GoesTo("read")
      \/ Ends("failed")
      \/ Ends("done") /\ setting'.admin = "on"
  BY AdapterUnderWay, AdapterOffSteps
<1>5. Carries
  BY <1>2, <1>3, <1>4, AdapterUnderWay, GoesOn, GivesUp, Succeeds
<1>6. Underway'
  BY <1>4, AdapterUnderWay, Ended DEF GoesTo, NoFinding
<1>7. World'
  BY <1>2, AdapterUnderWay
<1>8. QED BY <1>5, <1>6, <1>7

LEMMA DhcpLasts ==
  ASSUME part = "adapter", Sound, ~Idle, UNCHANGED around,
         repair.finding = "dhcp", N!FixNoDhcp
  PROVE  Carries /\ Underway' /\ World'
<1>1. setting' = setting \/ setting' = [setting EXCEPT !.address = "lease"]
  BY AdapterUnderWay, DhcpSteps DEF Could
<1>2. /\ setting'.other = setting.other /\ setting'.router = setting.router
      /\ setting'.cache = setting.cache /\ setting'.dns = setting.dns
      /\ setting'.admin = setting.admin /\ setting'.address \in {setting.address, "lease"}
      /\ DOMAIN setting' = DOMAIN setting
  BY <1>1, AdapterUnderWay
<1>3. \A g \in done : Cured(g, setting')
  BY <1>2, AdapterUnderWay, AdapterStaysWell
<1>4. \/ GoesTo("renew") \/ GoesTo("read") \/ Ends("failed")
      \/ Ends("done") /\ setting'.address # "standin"
  BY AdapterUnderWay, DhcpSteps DEF N!DhcpFailed
<1>5. Carries
  BY <1>2, <1>3, <1>4, AdapterUnderWay, GoesOn, GivesUp, Succeeds
<1>6. Underway'
  BY <1>2, <1>4, AdapterUnderWay, Ended DEF GoesTo, NoFinding
<1>7. World'
  BY <1>2, AdapterUnderWay
<1>8. QED BY <1>5, <1>6, <1>7

LEMMA DeadDnsLasts ==
  ASSUME part = "adapter", Sound, ~Idle, UNCHANGED around,
         repair.finding = "servers", N!FixDeadDns
  PROVE  Carries /\ Underway' /\ World'
<1>1. setting' = setting \/ setting' = [setting EXCEPT !.dns = "none"]
  BY AdapterUnderWay, DeadDnsSteps DEF Could
<1>2. /\ setting'.other = setting.other /\ setting'.router = setting.router
      /\ setting'.cache = setting.cache /\ setting'.dns \in {setting.dns, "none"}
      /\ setting'.admin = setting.admin /\ setting'.address = setting.address
      /\ DOMAIN setting' = DOMAIN setting
  BY <1>1, AdapterUnderWay
<1>3. \A g \in done : Cured(g, setting')
  BY <1>2, AdapterUnderWay, AdapterStaysWell
<1>4. \/ GoesTo("backup") \/ GoesTo("reset") \/ GoesTo("read") \/ Ends("failed") \/ Ends("unchanged")
      \/ (GoesTo("names") \/ Ends("done")) /\ setting'.dns = "none"
  BY AdapterUnderWay, DeadDnsSteps
<1>5. Carries
  BY <1>2, <1>3, <1>4, AdapterUnderWay, GoesOn, GivesUp, Succeeds
<1>6. Underway'
  BY <1>2, <1>4, AdapterUnderWay, Ended DEF GoesTo, NoFinding
<1>7. World'
  BY <1>2, AdapterUnderWay
<1>8. QED BY <1>5, <1>6, <1>7

LEMMA NamesLast ==
  ASSUME part = "adapter", Sound, ~Idle, UNCHANGED around,
         repair.finding = "names", N!FixNames
  PROVE  Carries /\ Underway' /\ World'
<1>1. setting' = setting \/ setting' = [setting EXCEPT !.cache = "good"]
  BY AdapterUnderWay, NamesSteps DEF Could
<1>2. /\ setting'.other = setting.other /\ setting'.router = setting.router
      /\ setting'.cache \in {setting.cache, "good"} /\ setting'.dns = setting.dns
      /\ setting'.admin = setting.admin /\ setting'.address = setting.address
      /\ DOMAIN setting' = DOMAIN setting
  BY <1>1, AdapterUnderWay
<1>3. \A g \in done : Cured(g, setting')
  BY <1>2, AdapterUnderWay, AdapterStaysWell
<1>4. \/ GoesTo("register") \/ GoesTo("names") \/ Ends("failed")
      \/ Ends("done") /\ N!Resolves(setting')
  BY AdapterUnderWay, NamesSteps
<1>5. Carries
  BY <1>2, <1>3, <1>4, AdapterUnderWay, GoesOn, GivesUp, Succeeds
<1>6. Underway'
  BY <1>2, <1>4, AdapterUnderWay, Ended DEF GoesTo, NoFinding
<1>7. World'
  BY <1>2, AdapterUnderWay
<1>8. QED BY <1>5, <1>6, <1>7

LEMMA AutostartLasts ==
  ASSUME part = "autostart", Sound, ~Idle, UNCHANGED around, S!RemoveOrphans(repair.finding)
  PROVE  Carries /\ Underway' /\ World'
<1>1. Underway' /\ World'
  BY DEF Underway, World, around
<1>2. \A g, s : Cured(g, s) <=> \A name \in S!RunKeys[g] : s[name] # "orphaned"
  BY DEF Cured, S!MissingTargets
<1>3. Formed /\ Items \subseteq DOMAIN setting /\ \A g \in done : Cured(g, setting)
  BY DEF Sound, Held, Lasting
<1>4. setting' = setting \/ \E name : setting' = [setting EXCEPT ![name] = "none"]
  BY <1>3, AutostartSteps DEF Could
<1>5. /\ DOMAIN setting' = DOMAIN setting
      /\ \A name \in DOMAIN setting : setting'[name] \in {setting[name], "none"}
  BY <1>4
<1>6. \A g \in {"user", "machine"} : S!RunKeys[g] \subseteq Items
  BY DEF Items
<1>7. done \subseteq {"user", "machine"} /\ repair.finding \in {"user", "machine"}
  BY DEF Sound, Repairable, Cures
<1>8. \A g \in done : Cured(g, setting')
  BY <1>2, <1>3, <1>5, <1>6, <1>7
<1>9. \/ \E place : GoesTo(place)
      \/ \E how \in {"failed", "unchanged"} : Ends(how)
      \/ Ends("done") /\ Cured(repair.finding, setting')
  <2>1. \A g : Cured(g, setting) <=> S!MissingTargets(setting, g) = {}
    BY DEF Cured
  <2>2. QED BY <1>3, <2>1, AutostartSteps
<1>10. Carries
  BY <1>3, <1>5, <1>8, <1>9, GoesOn, GivesUp, Succeeds
<1>11. QED BY <1>1, <1>10

LEMMA OpenGlLasts ==
  ASSUME part = "opengl", Sound, ~Idle, UNCHANGED around, H!RepairOpenGl
  PROVE  Carries /\ Underway' /\ World'
<1>1. /\ \A g, s : Cured(g, s) <=> (s.card # "works" \/ H!BrokenEntries(s) = {})
      /\ Items = {"wide", "wow", "card"}
      /\ Underway' /\ World'
  BY DEF Cured, Items, Underway, World, around, H!Entries
<1>2. Formed /\ Items \subseteq DOMAIN setting /\ \A g \in done : Cured(g, setting)
  BY DEF Sound, Held, Lasting
<1>3. \/ setting' = setting
      \/ setting' = [setting EXCEPT !.wide = "there"] \/ setting' = [setting EXCEPT !.wow = "there"]
  BY <1>2, OpenGlSteps DEF Could
<1>4. /\ DOMAIN setting' = DOMAIN setting /\ setting'.card = setting.card
      /\ setting'.wide \in {setting.wide, "there"} /\ setting'.wow \in {setting.wow, "there"}
  BY <1>1, <1>2, <1>3
<1>5. H!BrokenEntries(setting') \subseteq H!BrokenEntries(setting)
  BY <1>4 DEF H!BrokenEntries, H!Entries
<1>6. \A g \in done : Cured(g, setting')
  BY <1>1, <1>2, <1>4, <1>5
<1>7. \/ \E place : GoesTo(place)
      \/ \E how \in {"failed", "unchanged"} : Ends(how)
      \/ Ends("done") /\ setting' = setting /\ Cured(repair.finding, setting)
  BY <1>1, <1>2, OpenGlSteps
<1>8. Carries
  BY <1>2, <1>4, <1>6, <1>7, GoesOn, GivesUp, Succeeds
<1>9. QED BY <1>1, <1>8

LEMMA FolderLasts ==
  ASSUME part \in {"temp", "cache"}, Sound, ~Idle, UNCHANGED around, C!CleanFolder(part)
  PROVE  Carries /\ Underway' /\ World'
<1>1. /\ \A g, s : Cured(g, s) <=> s[part] \subseteq C!Held
      /\ Items = {part}
      /\ Underway' <=> (~Idle' /\ repair'.at \in {"begin", "sweep"} => before[part] = setting'[part])
      /\ World' <=> (Idle' /\ part \in done' /\ "held" \in setting'[part] => before[part] \ C!Held # {})
  <2>1. \A g, s : Cured(g, s) <=> s[part] \subseteq C!Held
    <3>1. CASE part = "temp" BY <3>1 DEF Cured
    <3>2. CASE part = "cache" BY <3>2 DEF Cured
    <3>3. QED BY <3>1, <3>2
  <2>2. Items = {part}  BY DEF Items
  <2>3. Underway' <=> (~Idle' /\ repair'.at \in {"begin", "sweep"} => before[part] = setting'[part])
    BY DEF Underway, around
  <2>4. World' <=> (Idle' /\ part \in done' /\ "held" \in setting'[part] => before[part] \ C!Held # {})
    BY DEF World, around
  <2>5. QED BY <2>1, <2>2, <2>3, <2>4
<1>2. /\ Formed /\ Items \subseteq DOMAIN setting /\ \A g \in done : Cured(g, setting)
      /\ repair.at \in {"begin", "sweep"} => before[part] = setting[part]
      /\ repair # NoRepair
  BY DEF Sound, Held, Lasting, Underway, Idle
<1>3. \/ repair.at = "begin" /\ setting' = setting /\ GoesTo("sweep")
      \/ /\ repair.at = "sweep" /\ setting' = [setting EXCEPT ![part] = C!Swept(setting[part])]
         /\ Ends(C!CleanupResult(setting[part]))
  BY <1>2, FolderSteps
<1>4. CASE repair.at = "begin" /\ setting' = setting /\ GoesTo("sweep")
  BY <1>1, <1>2, <1>4, GoesOn, EndedNot
<1>5. CASE /\ repair.at = "sweep" /\ setting' = [setting EXCEPT ![part] = C!Swept(setting[part])]
           /\ Ends(C!CleanupResult(setting[part]))
  <2>1. DOMAIN setting' = DOMAIN setting /\ setting'[part] = setting[part] \cap C!Held
    BY <1>1, <1>2, <1>5 DEF C!Swept
  <2>2. (\A g \in done : Cured(g, setting')) /\ Cured(repair.finding, setting')
    BY <1>1, <2>1
  <2>3. CASE C!CleanupResult(setting[part]) = "failed"
    <3>1. Carries
      BY <1>2, <1>5, <2>1, <2>2, <2>3, GivesUp
    <3>2. part \notin done'
      BY <1>5, <2>3, FolderCures DEF Ends, Sound, Repairable
    <3>3. QED BY <1>1, <1>5, <3>1, <3>2 DEF Ends, Idle
  <2>4. CASE C!CleanupResult(setting[part]) # "failed"
    <3>1. /\ C!CleanupResult(setting[part]) = "done"
          /\ ~(setting[part] \ C!Held = {} /\ "held" \in setting[part])
      BY <2>4 DEF C!CleanupResult
    <3>2. Carries
      BY <1>2, <1>5, <2>1, <2>2, <3>1, Succeeds
    <3>3. QED BY <1>1, <1>2, <1>5, <2>1, <3>1, <3>2 DEF Ends, Idle
  <2>5. QED BY <2>3, <2>4
<1>6. QED BY <1>3, <1>4, <1>5

LEMMA AddonLasts ==
  ASSUME part = "addon", Sound, ~Idle, UNCHANGED around, K!BlockAddon
  PROVE  Carries /\ Underway' /\ World'
<1>1. /\ \A g, s : Cured(g, s) <=> s.registered \ s.blocked = {}
      /\ Items = {"blocked", "registered"}
      /\ Underway'
  BY DEF Cured, Items, Underway, around, K!LeftToBlock
<1>2. /\ Formed /\ Items \subseteq DOMAIN setting /\ \A g \in done : Cured(g, setting)
      /\ setting.registered \cap K!NoKey = {}
  BY DEF Sound, Held, Lasting, World
<1>3. setting' = setting \/ \E c : setting' = [setting EXCEPT !.blocked = (setting.blocked \ K!NoKey) \cup {c}]
  BY <1>2, AddonSteps DEF Could
<1>4. /\ DOMAIN setting' = DOMAIN setting /\ setting'.registered = setting.registered
      /\ setting.blocked \ K!NoKey \subseteq setting'.blocked
  BY <1>1, <1>2, <1>3
<1>5. \A g \in done : Cured(g, setting')
  BY <1>1, <1>2, <1>4
<1>6. \/ \E place : GoesTo(place)
      \/ \E how \in {"failed", "unchanged"} : Ends(how)
      \/ Ends("done") /\ setting' = setting /\ Cured(repair.finding, setting)
  BY <1>1, <1>2, AddonSteps DEF K!LeftToBlock
<1>7. World'
  BY <1>2, <1>4 DEF World, around
<1>8. Carries
  BY <1>2, <1>4, <1>5, <1>6, GoesOn, GivesUp, Succeeds
<1>9. QED BY <1>1, <1>7, <1>8

(* Fewer values leave fewer in force.                                      *)
LEMMA FewerInForce ==
  ASSUME NEW f \in T!PolicyIds, NEW s, NEW t, T!PolicyHit(f, s, TRUE) = {},
         \A v \in T!PolicyValues : t[v] => s[v], t.storeEdition = s.storeEdition
  PROVE  T!PolicyHit(f, t, TRUE) = {}
<1>1. /\ T!WsusValues \subseteq T!PolicyValues /\ T!StoreValues \subseteq T!PolicyValues
      /\ T!DefenderValues \subseteq T!PolicyValues
      /\ \A g \in DOMAIN T!SingleValues : T!SingleValues[g] \in T!PolicyValues
      /\ (t.WUServer => s.WUServer) /\ (t.UseWUServer => s.UseWUServer)
  BY DEF T!PolicyValues, T!WsusValues, T!StoreValues, T!DefenderValues
<1>2. f \in DOMAIN T!SingleValues \/ f \in {"wsus", "store", "defender"}
  BY DEF T!PolicyIds
<1>3. CASE f = "wsus"
  <2>1. \A u : T!PolicyHit(f, u, TRUE) =
               IF u.WUServer /\ u.UseWUServer THEN {v \in T!WsusValues : u[v]} ELSE {}
    BY <1>3 DEF T!PolicyHit
  <2>2. {v \in T!WsusValues : t[v]} \subseteq {v \in T!WsusValues : s[v]}
    BY <1>1
  <2>3. CASE t.WUServer /\ t.UseWUServer
    <3>1. T!PolicyHit(f, s, TRUE) = {v \in T!WsusValues : s[v]}
      BY <1>1, <2>1, <2>3
    <3>2. T!PolicyHit(f, t, TRUE) = {v \in T!WsusValues : t[v]}
      BY <2>1, <2>3
    <3>3. QED BY <2>2, <3>1, <3>2
  <2>4. CASE ~(t.WUServer /\ t.UseWUServer)
    BY <2>1, <2>4
  <2>5. QED BY <2>3, <2>4
<1>4. CASE f = "store" BY <1>1, <1>4 DEF T!PolicyHit
<1>5. CASE f = "defender" BY <1>1, <1>5 DEF T!PolicyHit
<1>6. CASE f \in DOMAIN T!SingleValues /\ f \notin {"wsus", "store", "defender"}
  BY <1>1, <1>6 DEF T!PolicyHit
<1>7. QED BY <1>2, <1>3, <1>4, <1>5, <1>6

LEMMA HitsAreValues ==
  ASSUME NEW f \in T!PolicyIds, NEW s, NEW edition
  PROVE  T!PolicyHit(f, s, edition) \subseteq T!PolicyValues
<1>1. /\ T!WsusValues \subseteq T!PolicyValues /\ T!StoreValues \subseteq T!PolicyValues
      /\ T!DefenderValues \subseteq T!PolicyValues
      /\ \A g \in DOMAIN T!SingleValues : T!SingleValues[g] \in T!PolicyValues
  BY DEF T!PolicyValues
<1>2. f \in DOMAIN T!SingleValues \/ f \in {"wsus", "store", "defender"}
  BY DEF T!PolicyIds
<1>3. QED BY <1>1, <1>2 DEF T!PolicyHit

LEMMA PoliciesLast ==
  ASSUME part = "policies", Sound, ~Idle, UNCHANGED around,
         T!FixPolicy(repair.finding)
  PROVE  Carries /\ Underway' /\ World'
<1>1. /\ \A g, s : Cured(g, s) <=> T!PolicyHit(g, s, TRUE) = {} \/ (g = "defender" /\ s.realtime)
      /\ Items = T!PolicyValues \cup {"realtime", "storeEdition"}
      /\ Cures = T!PolicyIds
  BY DEF Cured, Items, Cures
<1>2. /\ Underway' <=> /\ repair'.left \subseteq T!PolicyValues
                       /\ repair'.at = "wait" => repair'.finding = "defender"
      /\ World'
  BY DEF Underway, World, around
<1>3. /\ Formed /\ Items \subseteq DOMAIN setting
      /\ \A g \in done : Cured(g, setting)
      /\ done \subseteq T!PolicyIds /\ repair.finding \in T!PolicyIds
      /\ repair.left \subseteq T!PolicyValues
      /\ repair.at = "wait" => repair.finding = "defender"
  BY <1>1 DEF Sound, Held, Lasting, Repairable, Underway
<1>4. /\ "realtime" \notin T!PolicyValues /\ "storeEdition" \notin T!PolicyValues
  BY DEF T!PolicyValues, T!WsusValues, T!StoreValues, T!DefenderValues, T!SingleValues
<1>5. /\ DOMAIN setting' = DOMAIN setting /\ setting'.storeEdition = setting.storeEdition
      /\ \A v \in T!PolicyValues : setting'[v] => setting[v]
      /\ setting.realtime => setting'.realtime
  <2>1. CASE repair.at = "delete"
    <3>1. PICK v \in repair.left : Could(v, FALSE)
      BY <1>3, <2>1, PolicySteps
    <3>2. QED BY <1>1, <1>3, <1>4, <3>1 DEF Could
  <2>2. CASE repair.at = "wait"
    <3>1. PICK on \in {setting.realtime, TRUE} : setting' = [setting EXCEPT !.realtime = on]
      BY <1>3, <2>2, PolicySteps
    <3>2. QED BY <1>1, <1>3, <1>4, <3>1
  <2>3. CASE repair.at \in {"begin", "backup", "check"}
    BY <1>3, <2>3, PolicySteps
  <2>4. QED BY <1>3, <2>1, <2>2, <2>3, PolicySteps
<1>6. \A g \in done : Cured(g, setting')
  BY <1>1, <1>3, <1>5, FewerInForce
<1>7. /\ repair'.left \subseteq T!PolicyValues
      /\ \/ \E place : GoesTo(place) /\ (place = "wait" => repair.finding = "defender")
         \/ \E how \in {"failed", "unchanged", "unproved"} : Ends(how)
         \/ Ends("done") /\ Cured(repair.finding, setting')
  <2>1. CASE repair.at = "begin" BY <1>3, <2>1, PolicySteps, HitsAreValues, Ended
  <2>2. CASE repair.at = "backup" BY <1>3, <2>2, PolicySteps, Ended
  <2>3. CASE repair.at = "delete" BY <1>3, <2>3, PolicySteps, Ended
  <2>4. CASE repair.at = "check" BY <1>1, <1>3, <2>4, PolicySteps, Ended
  <2>5. CASE repair.at = "wait"
    <3>1. PICK on \in {setting.realtime, TRUE} :
             /\ setting' = [setting EXCEPT !.realtime = on]
             /\ \/ on /\ Ends("done")
                \/ GoesTo("wait") /\ repair'.left = repair.left
                \/ Ends("failed")
      BY <1>3, <2>5, PolicySteps
    <3>2. on => setting'.realtime
      BY <1>1, <1>3, <3>1
    <3>3. QED BY <1>1, <1>3, <2>5, <3>1, <3>2, Ended
  <2>6. QED BY <1>3, <2>1, <2>2, <2>3, <2>4, <2>5, PolicySteps
<1>8. Underway'
  BY <1>2, <1>7, Ended DEF GoesTo
<1>9. Carries
  BY <1>3, <1>5, <1>6, <1>7, GoesOn, GivesUp, Succeeds
<1>10. QED BY <1>2, <1>8, <1>9

(* What each module says of its parts.                                     *)
LEMMA OfT ==
  ASSUME part \in T!Parts
  PROVE  /\ About = T!About(part)
         /\ \A s, a : Findings(s, a) = T!Findings(part, s, a)
         /\ \A s : Restarted(s) = T!Restarted(part, s)
         /\ \A s : Elsewhere(s) = T!Elsewhere(part, s)
         /\ Begin(part) = T!Begin(part)
         /\ FixIt(repair.finding) => T!Fix(repair.finding)
         /\ \A s : Dropped(s) = {s}
         /\ \A s, a : Scanned(s, a) = s
BY DEF About, Findings, Restarted, Elsewhere, Begin, FixIt, Dropped, Scanned,
       T!Parts, N!Parts, S!Parts, H!Parts, C!Parts, I!Parts, U!Parts, K!Parts

LEMMA OfN ==
  ASSUME part \in N!Parts
  PROVE  /\ About = N!About(part)
         /\ \A s, a : Findings(s, a) = N!Findings(part, s, a)
         /\ \A s : Restarted(s) = N!Restarted(part, s)
         /\ \A s : Elsewhere(s) = N!Elsewhere(part, s)
         /\ Begin(part) = N!Begin(part)
         /\ FixIt(repair.finding) => N!Fix(repair.finding)
         /\ \A s : Dropped(s) = {s}
         /\ \A s, a : Scanned(s, a) = s
BY DEF About, Findings, Restarted, Elsewhere, Begin, FixIt, Dropped, Scanned,
       T!Parts, N!Parts, S!Parts, H!Parts, C!Parts, I!Parts, U!Parts, K!Parts

LEMMA OfS ==
  ASSUME part \in S!Parts
  PROVE  /\ About = S!About(part)
         /\ \A s, a : Findings(s, a) = S!Findings(part, s, a)
         /\ \A s : Restarted(s) = S!Restarted(part, s)
         /\ \A s : Elsewhere(s) = S!Elsewhere(part, s)
         /\ Begin(part) = S!Begin(part)
         /\ FixIt(repair.finding) => S!Fix(repair.finding)
         /\ \A s : Dropped(s) = {s}
         /\ \A s, a : Scanned(s, a) = s
BY DEF About, Findings, Restarted, Elsewhere, Begin, FixIt, Dropped, Scanned,
       T!Parts, N!Parts, S!Parts, H!Parts, C!Parts, I!Parts, U!Parts, K!Parts

LEMMA OfH ==
  ASSUME part \in H!Parts
  PROVE  /\ About = H!About(part)
         /\ \A s, a : Findings(s, a) = H!Findings(part, s, a)
         /\ \A s : Restarted(s) = H!Restarted(part, s)
         /\ \A s : Elsewhere(s) = H!Elsewhere(part, s)
         /\ Begin(part) = H!Begin(part)
         /\ FixIt(repair.finding) => H!Fix(repair.finding)
         /\ \A s : Dropped(s) = {H!Dropped(part, s)}
         /\ \A s, a : Scanned(s, a) = s
BY DEF About, Findings, Restarted, Elsewhere, Begin, FixIt, Dropped, Scanned,
       T!Parts, N!Parts, S!Parts, H!Parts, C!Parts, I!Parts, U!Parts, K!Parts

LEMMA OfC ==
  ASSUME part \in C!Parts
  PROVE  /\ About = C!About(part)
         /\ \A s, a : Findings(s, a) = C!Findings(part, s, a)
         /\ \A s : Restarted(s) = C!Restarted(part, s)
         /\ \A s : Elsewhere(s) = C!Elsewhere(part, s)
         /\ Begin(part) = C!Begin(part)
         /\ FixIt(repair.finding) => C!Fix(repair.finding)
         /\ \A s : Dropped(s) = C!Dropped(part, s)
         /\ \A s, a : Scanned(s, a) = C!Scanned(part, s, a)
BY DEF About, Findings, Restarted, Elsewhere, Begin, FixIt, Dropped, Scanned,
       T!Parts, N!Parts, S!Parts, H!Parts, C!Parts, I!Parts, U!Parts, K!Parts

LEMMA OfI ==
  ASSUME part \in I!Parts
  PROVE  /\ About = I!About(part)
         /\ \A s, a : Findings(s, a) = I!Findings(part, s, a)
         /\ \A s : Restarted(s) = I!Restarted(part, s)
         /\ \A s : Elsewhere(s) = I!Elsewhere(part, s)
         /\ Begin(part) = I!Begin(part)
         /\ FixIt(repair.finding) => I!Fix(repair.finding)
         /\ \A s : Dropped(s) = I!Dropped(part, s)
         /\ \A s, a : Scanned(s, a) = s
BY DEF About, Findings, Restarted, Elsewhere, Begin, FixIt, Dropped, Scanned,
       T!Parts, N!Parts, S!Parts, H!Parts, C!Parts, I!Parts, U!Parts, K!Parts

LEMMA OfU ==
  ASSUME part \in U!Parts
  PROVE  /\ About = U!About(part)
         /\ \A s, a : Findings(s, a) = U!Findings(part, s, a)
         /\ \A s : Restarted(s) = U!Restarted(part, s)
         /\ \A s : Elsewhere(s) = U!Elsewhere(part, s)
         /\ Begin(part) = U!Begin(part)
         /\ FixIt(repair.finding) => U!Fix(repair.finding)
         /\ \A s : Dropped(s) = {s}
         /\ \A s, a : Scanned(s, a) = s
BY DEF About, Findings, Restarted, Elsewhere, Begin, FixIt, Dropped, Scanned,
       T!Parts, N!Parts, S!Parts, H!Parts, C!Parts, I!Parts, U!Parts, K!Parts

LEMMA OfK ==
  ASSUME part \in K!Parts
  PROVE  /\ About = K!About(part)
         /\ \A s, a : Findings(s, a) = K!Findings(part, s, a)
         /\ \A s : Restarted(s) = K!Restarted(part, s)
         /\ \A s : Elsewhere(s) = K!Elsewhere(part, s)
         /\ Begin(part) = K!Begin(part)
         /\ FixIt(repair.finding) => K!Fix(repair.finding)
         /\ \A s : Dropped(s) = {s}
         /\ \A s, a : Scanned(s, a) = s
BY DEF About, Findings, Restarted, Elsewhere, Begin, FixIt, Dropped, Scanned,
       T!Parts, N!Parts, S!Parts, H!Parts, C!Parts, I!Parts, U!Parts, K!Parts

LEMMA BeginsSound ==
  ASSUME part \in Parts, setting \in Begin(part), reported = {}, done = {}
  PROVE  Held /\ World
<1> USE DEF T!Parts, N!Parts, S!Parts, H!Parts, C!Parts, I!Parts, U!Parts, K!Parts, T!Begin, N!Begin,
            S!Begin, H!Begin, C!Begin, I!Begin, U!Begin, K!Begin
<1>1. CASE part = "services"
  <2>1. setting \in T!Services
    BY <1>1, OfT
  <2>2. Items = {"auto", "demand", "guarded", "start"}
    BY <1>1 DEF Items
  <2>3. Held
    BY <2>1, <2>2 DEF Held, T!Services
  <2>4. World
    BY <1>1 DEF World
  <2>5. QED BY <2>3, <2>4
<1>2. CASE part = "devices"
  <2>1. setting \in T!Devices
    BY <1>2, OfT
  <2>2. Items = T!CoreDevices
    BY <1>2 DEF Items
  <2>3. Held
    BY <2>1, <2>2 DEF Held, T!Devices, T!CoreDevices
  <2>4. World
    BY <1>2 DEF World
  <2>5. QED BY <2>3, <2>4
<1>3. CASE part = "threshold"
  <2>1. setting \in T!Threshold
    BY <1>3, OfT
  <2>2. Items = {"threshold", "memory"}
    BY <1>3 DEF Items
  <2>3. Held
    BY <2>1, <2>2 DEF Held, T!Threshold
  <2>4. World
    BY <1>3, <2>1 DEF World, T!Threshold
  <2>5. QED BY <2>3, <2>4
<1>4. CASE part = "policies"
  <2>1. setting \in T!Policies
    BY <1>4, OfT
  <2>2. Items = T!PolicyValues \cup {"realtime", "storeEdition"}
    BY <1>4 DEF Items
  <2>3. Held
    BY <2>1, <2>2 DEF Held, T!Policies, T!PolicyFacts
  <2>4. World
    BY <1>4 DEF World
  <2>5. QED BY <2>3, <2>4
<1>5. CASE part = "hosts"
  <2>1. setting \in T!Hosts
    BY <1>5, OfT
  <2>2. Items = {"hosts"}
    BY <1>5 DEF Items
  <2>3. Held
    BY <2>1, <2>2 DEF Held, T!Hosts
  <2>4. World
    BY <1>5 DEF World
  <2>5. QED BY <2>3, <2>4
<1>6. CASE part = "adapter"
  <2>1. setting \in N!Adapter
    BY <1>6, OfN
  <2>2. Items = {"admin", "address", "dns", "cache", "other", "router"}
    BY <1>6 DEF Items
  <2>3. Held
    BY <2>1, <2>2 DEF Held, N!Adapter
  <2>4. World
    BY <1>6, <2>1 DEF World, N!Adapter
  <2>5. QED BY <2>3, <2>4
<1>7. CASE part = "connections"
  <2>1. setting \in N!Connections
    BY <1>7, OfN
  <2>2. Items = {"user", "winhttp", "catalog"}
    BY <1>7 DEF Items
  <2>3. Held
    BY <2>1, <2>2 DEF Held, N!Connections
  <2>4. World
    BY <1>7 DEF World
  <2>5. QED BY <2>3, <2>4
<1>8. CASE part = "pagefile"
  <2>1. setting \in S!PageFile
    BY <1>8, OfS
  <2>2. Items = {"files"}
    BY <1>8 DEF Items
  <2>3. Held
    BY <2>1, <2>2 DEF Held, S!PageFile
  <2>4. World
    BY <1>8 DEF World
  <2>5. QED BY <2>3, <2>4
<1>9. CASE part = "autostart"
  <2>1. setting \in S!Autostart
    BY <1>9, OfS
  <2>2. Items = S!RunKeys.user \cup S!RunKeys.machine
    BY <1>9 DEF Items
  <2>3. Held
    BY <2>1, <2>2 DEF Held, S!Autostart, S!RunKeys
  <2>4. World
    BY <1>9 DEF World
  <2>5. QED BY <2>3, <2>4
<1>10. CASE part = "clock"
  <2>1. setting \in S!Clock
    BY <1>10, OfS
  <2>2. Items = {"clock"}
    BY <1>10 DEF Items
  <2>3. Held
    BY <2>1, <2>2 DEF Held, S!Clock
  <2>4. World
    BY <1>10 DEF World
  <2>5. QED BY <2>3, <2>4
<1>11. CASE part = "restart"
  <2>1. setting \in S!Uptime
    BY <1>11, OfS
  <2>2. Items = {"up"}
    BY <1>11 DEF Items
  <2>3. Held
    BY <2>1, <2>2 DEF Held, S!Uptime
  <2>4. World
    BY <1>11 DEF World
  <2>5. QED BY <2>3, <2>4
<1>12. CASE part = "opengl"
  <2>1. setting \in H!Card
    BY <1>12, OfH
  <2>2. Items = H!Entries \cup {"card"}
    BY <1>12 DEF Items
  <2>3. Held
    BY <2>1, <2>2 DEF Held, H!Card, H!Entries
  <2>4. World
    BY <1>12 DEF World
  <2>5. QED BY <2>3, <2>4
<1>13. CASE part = "device"
  <2>1. setting \in H!Device
    BY <1>13, OfH
  <2>2. Items = {"problem"}
    BY <1>13 DEF Items
  <2>3. Held
    BY <2>1, <2>2 DEF Held, H!Device
  <2>4. World
    BY <1>13, <2>1 DEF World, H!Device
  <2>5. QED BY <2>3, <2>4
<1>14. CASE part = "printing"
  <2>1. setting \in H!Printing
    BY <1>14, OfH
  <2>2. Items = {"spooler", "jobs"}
    BY <1>14 DEF Items
  <2>3. Held
    BY <2>1, <2>2 DEF Held, H!Printing
  <2>4. World
    BY <1>14 DEF World
  <2>5. QED BY <2>3, <2>4
<1>15. CASE part = "whea"
  <2>1. setting \in H!Errors
    BY <1>15, OfH
  <2>2. Items = {"test", "ac", "dc", "ram"}
    BY <1>15 DEF Items
  <2>3. Held
    BY <2>1, <2>2 DEF Held, H!Errors
  <2>4. World
    BY <1>15, <2>1 DEF World, H!Errors
  <2>5. QED BY <2>3, <2>4
<1>16. CASE part = "dirty"
  <2>1. setting \in C!Volume
    BY <1>16, OfC
  <2>2. Items = {"dirty"}
    BY <1>16 DEF Items
  <2>3. Held
    BY <2>1, <2>2 DEF Held, C!Volume
  <2>4. World
    BY <1>16 DEF World
  <2>5. QED BY <2>3, <2>4
<1>17. CASE part = "icons"
  <2>1. setting \in C!Icons
    BY <1>17, OfC
  <2>2. Items = {"icons"}
    BY <1>17 DEF Items
  <2>3. Held
    BY <2>1, <2>2 DEF Held, C!Icons
  <2>4. World
    BY <1>17 DEF World
  <2>5. QED BY <2>3, <2>4
<1>18. CASE part = "temp"
  <2>1. setting \in C!Temp
    BY <1>18, OfC
  <2>2. Items = {"temp"}
    BY <1>18 DEF Items
  <2>3. Held
    BY <2>1, <2>2 DEF Held, C!Temp, C!Folder
  <2>4. World
    BY <1>18, <2>1 DEF World, C!Temp, C!Folder, C!Held
  <2>5. QED BY <2>3, <2>4
<1>19. CASE part = "cache"
  <2>1. setting \in C!Cache
    BY <1>19, OfC
  <2>2. Items = {"cache"}
    BY <1>19 DEF Items
  <2>3. Held
    BY <2>1, <2>2 DEF Held, C!Cache, C!Folder
  <2>4. World
    BY <1>19, <2>1 DEF World, C!Cache, C!Folder, C!Held
  <2>5. QED BY <2>3, <2>4
<1>20. CASE part = "delivery"
  <2>1. setting \in C!Delivery
    BY <1>20, OfC
  <2>2. Items = {"delivery"}
    BY <1>20 DEF Items
  <2>3. Held
    BY <2>1, <2>2 DEF Held, C!Delivery, C!Folder
  <2>4. World
    BY <1>20, <2>1 DEF World, C!Delivery, C!Folder, C!Held
  <2>5. QED BY <2>3, <2>4
<1>21. CASE part = "downloads"
  <2>1. setting \in C!Downloads
    BY <1>21, OfC
  <2>2. Items = {"downloads"}
    BY <1>21 DEF Items
  <2>3. Held
    BY <2>1, <2>2 DEF Held, C!Downloads, C!Folder
  <2>4. World
    BY <1>21, <2>1 DEF World, C!Downloads, C!Folder, C!Held
  <2>5. QED BY <2>3, <2>4
<1>22. CASE part = "logs"
  <2>1. setting \in C!Logs
    BY <1>22, OfC
  <2>2. Items = {"logs"}
    BY <1>22 DEF Items
  <2>3. Held
    BY <2>1, <2>2 DEF Held, C!Logs
  <2>4. World
    BY <1>22 DEF World
  <2>5. QED BY <2>3, <2>4
<1>23. CASE part = "bin"
  <2>1. setting \in C!Bin
    BY <1>23, OfC
  <2>2. Items = C!Drives
    BY <1>23 DEF Items
  <2>3. Held
    BY <2>1, <2>2 DEF Held, C!Bin, C!Drives
  <2>4. World
    BY <1>23 DEF World
  <2>5. QED BY <2>3, <2>4
<1>24. CASE part = "winsxs"
  <2>1. setting \in C!WinSxS
    BY <1>24, OfC
  <2>2. Items = {"packages", "note"}
    BY <1>24 DEF Items
  <2>3. Held
    BY <2>1, <2>2 DEF Held, C!WinSxS, C!NoNote
  <2>4. World
    BY <1>24 DEF World
  <2>5. QED BY <2>3, <2>4
<1>25. CASE part = "store"
  <2>1. setting \in I!Store
    BY <1>25, OfI
  <2>2. Items = {"damage", "report", "marked", "isos"}
    BY <1>25 DEF Items
  <2>3. Held
    BY <2>1, <2>2 DEF Held, I!Store
  <2>4. World
    BY <1>25 DEF World
  <2>5. QED BY <2>3, <2>4
<1>26. CASE part = "sfc"
  <2>1. setting \in I!Sfc
    BY <1>26, OfI
  <2>2. Items = {"left", "summary"}
    BY <1>26 DEF Items
  <2>3. Held
    BY <2>1, <2>2 DEF Held, I!Sfc
  <2>4. World
    BY <1>26 DEF World
  <2>5. QED BY <2>3, <2>4
<1>27. CASE part = "vss"
  <2>1. setting \in I!Vss
    BY <1>27, OfI
  <2>2. Items = {"vss"}
    BY <1>27 DEF Items
  <2>3. Held
    BY <2>1, <2>2 DEF Held, I!Vss
  <2>4. World
    BY <1>27 DEF World
  <2>5. QED BY <2>3, <2>4
<1>28. CASE part = "winre"
  <2>1. setting \in I!WinRe
    BY <1>28, OfI
  <2>2. Items = {"winre"}
    BY <1>28 DEF Items
  <2>3. Held
    BY <2>1, <2>2 DEF Held, I!WinRe
  <2>4. World
    BY <1>28 DEF World
  <2>5. QED BY <2>3, <2>4
<1>29. CASE part = "wmi"
  <2>1. setting \in I!Wmi
    BY <1>29, OfI
  <2>2. Items = {"failing"}
    BY <1>29 DEF Items
  <2>3. Held
    BY <2>1, <2>2 DEF Held, I!Wmi
  <2>4. World
    BY <1>29 DEF World
  <2>5. QED BY <2>3, <2>4
<1>30. CASE part = "apps"
  <2>1. setting \in I!Apps
    BY <1>30, OfI
  <2>2. Items = {}
    BY <1>30 DEF Items
  <2>3. Held
    BY <2>1, <2>2 DEF Held, I!Apps
  <2>4. World
    BY <1>30 DEF World
  <2>5. QED BY <2>3, <2>4
<1>31. CASE part = "tasks"
  <2>1. setting \in U!Tasks
    BY <1>31, OfU
  <2>2. Items = U!TaskOwners
    BY <1>31 DEF Items
  <2>3. Held
    BY <2>1, <2>2 DEF Held, U!Tasks, U!TaskOwners, U!TaskStates
  <2>4. World
    BY <1>31, <2>1 DEF World, U!Tasks, U!TaskOwners, U!TaskStates
  <2>5. QED BY <2>3, <2>4
<1>32. CASE part = "updates"
  <2>1. setting \in U!Updates
    BY <1>32, OfU
  <2>2. Items = {"log"}
    BY <1>32 DEF Items
  <2>3. Held
    BY <2>1, <2>2 DEF Held, U!Updates
  <2>4. World
    BY <1>32 DEF World
  <2>5. QED BY <2>3, <2>4
<1>33. CASE part = "updateservice"
  <2>1. setting \in U!UpdateService
    BY <1>33, OfU
  <2>2. Items = {"start"}
    BY <1>33 DEF Items
  <2>3. Held
    BY <2>1, <2>2 DEF Held, U!UpdateService
  <2>4. World
    BY <1>33 DEF World
  <2>5. QED BY <2>3, <2>4
<1>34. CASE part = "reboot"
  <2>1. setting \in U!Reboot
    BY <1>34, OfU
  <2>2. Items = {"cbs", "wu"}
    BY <1>34 DEF Items
  <2>3. Held
    BY <2>1, <2>2 DEF Held, U!Reboot
  <2>4. World
    BY <1>34 DEF World
  <2>5. QED BY <2>3, <2>4
<1>35. CASE part = "bluescreen"
  <2>1. setting \in K!BlueScreens
    BY <1>35, OfK
  <2>2. Items = {"test", "time", "ram"}
    BY <1>35 DEF Items
  <2>3. Held
    BY <2>1, <2>2 DEF Held, K!BlueScreens
  <2>4. World
    BY <1>35, <2>1 DEF World, K!BlueScreens
  <2>5. QED BY <2>3, <2>4
<1>36. CASE part = "dumps"
  <2>1. setting \in K!Dumps
    BY <1>36, OfK
  <2>2. Items = {"old"}
    BY <1>36 DEF Items
  <2>3. Held
    BY <2>1, <2>2 DEF Held, K!Dumps
  <2>4. World
    BY <1>36 DEF World
  <2>5. QED BY <2>3, <2>4
<1>37. CASE part = "addon"
  <2>1. setting \in K!Addon
    BY <1>37, OfK
  <2>2. Items = {"blocked", "registered"}
    BY <1>37 DEF Items
  <2>3. Held
    BY <2>1, <2>2 DEF Held, K!Addon, K!NoKey
  <2>4. World
    BY <1>37, <2>1 DEF World, K!Addon, K!NoKey
  <2>5. QED BY <2>3, <2>4
<1>38. QED
  BY <1>1, <1>2, <1>3, <1>4, <1>5, <1>6, <1>7, <1>8, <1>9, <1>10, <1>11, <1>12, <1>13, <1>14, <1>15, <1>16, <1>17, <1>18, <1>19, <1>20, <1>21, <1>22, <1>23, <1>24, <1>25, <1>26, <1>27, <1>28, <1>29, <1>30, <1>31, <1>32, <1>33, <1>34, <1>35, <1>36, <1>37 DEF Parts

LEMMA AdviceIs ==
  /\ part = "devices" => About.advice = {"advice"}
  /\ part = "adapter" => About.advice = {"advice"}
  /\ part = "pagefile" => About.advice = {"lowspace"}
  /\ part = "restart" => About.advice = {"restartadvice"}
  /\ part = "opengl" => About.advice = {"install"}
  /\ part = "device" => About.advice = {"devicemanager", "advice", "excluded"}
  /\ part = "whea" => About.advice = {"memoryadvice", "pcieadvice", "fatal", "memoryfailed"}
  /\ part = "dirty" => About.advice = {"smart"}
  /\ part = "apps" => About.advice = {"offline"}
  /\ part = "updates" => About.advice = {"advice"}
  /\ part = "reboot" => About.advice = {"reboot"}
  /\ part = "bluescreen" => About.advice = {"memoryadvice", "gpu", "history", "shutdown", "changed"}
<1> USE DEF T!Parts, N!Parts, S!Parts, H!Parts, C!Parts, I!Parts, U!Parts, K!Parts, T!AnyPart, N!AnyPart,
            S!AnyPart, H!AnyPart, C!AnyPart, I!AnyPart, U!AnyPart, K!AnyPart, T!About, N!About, S!About,
            H!About, C!About, I!About, U!About, K!About
<1>1. part = "devices" => About.advice = {"advice"}
  BY OfT
<1>2. part = "adapter" => About.advice = {"advice"}
  BY OfN
<1>3. part = "pagefile" => About.advice = {"lowspace"}
  BY OfS
<1>4. part = "restart" => About.advice = {"restartadvice"}
  BY OfS
<1>5. part = "opengl" => About.advice = {"install"}
  BY OfH
<1>6. part = "device" => About.advice = {"devicemanager", "advice", "excluded"}
  BY OfH
<1>7. part = "whea" => About.advice = {"memoryadvice", "pcieadvice", "fatal", "memoryfailed"}
  BY OfH
<1>8. part = "dirty" => About.advice = {"smart"}
  BY OfC
<1>9. part = "apps" => About.advice = {"offline"}
  BY OfI
<1>10. part = "updates" => About.advice = {"advice"}
  BY OfU
<1>11. part = "reboot" => About.advice = {"reboot"}
  BY OfU
<1>12. part = "bluescreen" => About.advice = {"memoryadvice", "gpu", "history", "shutdown", "changed"}
  BY OfK
<1>13. QED BY <1>1, <1>2, <1>3, <1>4, <1>5, <1>6, <1>7, <1>8, <1>9, <1>10, <1>11, <1>12

LEMMA FindsOnlyKnown ==
  ASSUME part \in Parts, NEW answered
  PROVE  Findings(setting, answered) \subseteq Cures \cup About.advice
<1> USE DEF T!Parts, N!Parts, S!Parts, H!Parts, C!Parts, I!Parts, U!Parts, K!Parts, T!Findings,
            N!Findings, S!Findings, H!Findings, C!Findings, I!Findings, U!Findings, K!Findings
<1>1. CASE part = "services"
  BY <1>1, OfT DEF T!DisabledServices, Cures, T!Finding
<1>2. CASE part = "devices"
  <2>1. Findings(setting, answered) = T!DisabledDevices(setting, answered)
    BY <1>2, OfT
  <2>2. Cures = T!CoreDevices /\ About.advice = {"advice"}
    BY <1>2, AdviceIs DEF Cures
  <2>3. T!DisabledDevices(setting, answered) \subseteq T!CoreDevices \cup {"advice"}
    BY DEF T!DisabledDevices, T!CoreDevices, T!Finding
  <2>4. QED BY <2>1, <2>2, <2>3
<1>3. CASE part = "threshold"
  BY <1>3, OfT DEF T!GroupedServices, T!KeepsServicesGrouped, Cures, T!Finding
<1>4. CASE part = "policies"
  BY <1>4, OfT DEF T!HarmfulPolicies, Cures, T!Finding
<1>5. CASE part = "hosts"
  BY <1>5, OfT DEF T!BlockingHosts, Cures, T!Finding
<1>6. CASE part = "adapter"
  <2>1. Findings(setting, answered) = N!AdapterFindings(setting, answered)
    BY <1>6, OfN
  <2>2. Cures = {"dhcp", "off", "servers", "names"} /\ About.advice = {"advice"}
    BY <1>6, AdviceIs DEF Cures
  <2>3. N!AdapterFindings(setting, answered) \subseteq {"dhcp", "off", "servers", "names"} \cup {"advice"}
    BY DEF N!AdapterFindings, N!Resolution, N!DhcpFailed, N!SwitchedOff, N!DeadStaticDns, N!Finding
  <2>4. QED BY <2>1, <2>2, <2>3
<1>7. CASE part = "connections"
  BY <1>7, OfN DEF N!ConnectionFindings, Cures, N!Finding
<1>8. CASE part = "pagefile"
  <2>1. Findings(setting, answered) = S!PageFileFindings(setting, answered)
    BY <1>8, OfS
  <2>2. Cures = {"disabled", "fixedsize"} /\ About.advice = {"lowspace"}
    BY <1>8, AdviceIs DEF Cures
  <2>3. S!PageFileFindings(setting, answered) \subseteq {"disabled", "fixedsize"} \cup {"lowspace"}
    BY DEF S!PageFileFindings, S!NoPageFile, S!FullDrive, S!UnusableSize, S!Finding
  <2>4. QED BY <2>1, <2>2, <2>3
<1>9. CASE part = "autostart"
  BY <1>9, OfS DEF S!OrphanedStarts, S!MissingTargets, Cures, S!Finding
<1>10. CASE part = "clock"
  BY <1>10, OfS DEF S!ClockFindings, Cures, S!Finding
<1>11. CASE part = "restart"
  <2>1. Findings(setting, answered) = S!RestartFindings(setting, answered)
    BY <1>11, OfS
  <2>2. Cures = {"overdue"} /\ About.advice = {"restartadvice"}
    BY <1>11, AdviceIs DEF Cures
  <2>3. S!RestartFindings(setting, answered) \subseteq {"overdue"} \cup {"restartadvice"}
    BY DEF S!RestartFindings, S!Finding
  <2>4. QED BY <2>1, <2>2, <2>3
<1>12. CASE part = "opengl"
  <2>1. Findings(setting, answered) = H!OpenGlFindings(setting, answered)
    BY <1>12, OfH
  <2>2. Cures = {"opengl"} /\ About.advice = {"install"}
    BY <1>12, AdviceIs DEF Cures
  <2>3. H!OpenGlFindings(setting, answered) \subseteq {"opengl"} \cup {"install"}
    BY DEF H!OpenGlFindings, H!BrokenEntries, H!Entries, H!Finding
  <2>4. QED BY <2>1, <2>2, <2>3
<1>13. CASE part = "device"
  <2>1. Findings(setting, answered) = H!DeviceFindings(setting, answered)
    BY <1>13, OfH
  <2>2. Cures = {"restart", "driver"} /\ About.advice = {"devicemanager", "advice", "excluded"}
    BY <1>13, AdviceIs DEF Cures
  <2>3. H!DeviceFindings(setting, answered) \subseteq {"restart", "driver"} \cup {"devicemanager", "advice", "excluded"}
    BY DEF H!DeviceFindings, H!Problems, H!Finding
  <2>4. QED BY <2>1, <2>2, <2>3
<1>14. CASE part = "printing"
  BY <1>14, OfH DEF H!PrintingFindings, Cures, H!Finding
<1>15. CASE part = "whea"
  <2>1. Findings(setting, answered) = H!WheaFindings(setting, answered)
    BY <1>15, OfH
  <2>2. Cures = {"cpu", "memory", "pcie"} /\ About.advice = {"memoryadvice", "pcieadvice", "fatal", "memoryfailed"}
    BY <1>15, AdviceIs DEF Cures
  <2>3. H!WheaFindings(setting, answered) \subseteq {"cpu", "memory", "pcie"} \cup {"memoryadvice", "pcieadvice", "fatal", "memoryfailed"}
    BY DEF H!WheaFindings, H!TestFindings, H!BusFindings, H!FatalFindings, H!AspmOff, H!Finding
  <2>4. QED BY <2>1, <2>2, <2>3
<1>16. CASE part = "dirty"
  <2>1. Findings(setting, answered) = C!DirtyBit(setting, answered) \cup C!SmartWarning(setting, answered)
    BY <1>16, OfC
  <2>2. Cures = {"dirty"} /\ About.advice = {"smart"}
    BY <1>16, AdviceIs DEF Cures
  <2>3. C!DirtyBit(setting, answered) \cup C!SmartWarning(setting, answered) \subseteq {"dirty"} \cup {"smart"}
    BY DEF C!DirtyBit, C!SmartWarning, C!Finding
  <2>4. QED BY <2>1, <2>2, <2>3
<1>17. CASE part = "icons"
  BY <1>17, OfC DEF C!IconCache, Cures, C!Finding
<1>18. CASE part = "temp"
  BY <1>18, OfC DEF C!TempBloat, C!WorthReporting, Cures, C!Finding
<1>19. CASE part = "cache"
  BY <1>19, OfC DEF C!CacheFindings, C!WorthReporting, Cures, C!Finding
<1>20. CASE part = "delivery"
  BY <1>20, OfC DEF C!CacheFindings, C!WorthReporting, Cures, C!Finding
<1>21. CASE part = "downloads"
  BY <1>21, OfC DEF C!UpdateCacheBloat, C!WorthReporting, Cures, C!Finding
<1>22. CASE part = "logs"
  BY <1>22, OfC DEF C!SetupLogs, C!IsReclaimableLog, Cures, C!Finding
<1>23. CASE part = "bin"
  BY <1>23, OfC DEF C!RecycleBin, C!Drives, Cures, C!Finding
<1>24. CASE part = "winsxs"
  BY <1>24, OfC DEF C!ReclaimablePackages, Cures, C!Finding
<1>25. CASE part = "store"
  BY <1>25, OfI DEF I!ComponentStore, I!CheckHealth, I!OnlyBackupsLeft, Cures, I!Finding
<1>26. CASE part = "sfc"
  BY <1>26, OfI DEF I!SfcEvidence, I!LogEvidence, Cures, I!Finding
<1>27. CASE part = "vss"
  BY <1>27, OfI DEF I!VssDisabled, Cures, I!Finding
<1>28. CASE part = "winre"
  BY <1>28, OfI DEF I!WinReDisabled, Cures, I!Finding
<1>29. CASE part = "wmi"
  BY <1>29, OfI DEF I!WmiFailures, Cures, I!Finding
<1>30. CASE part = "apps"
  <2>1. Findings(setting, answered) = I!AppPackages(setting, answered)
    BY <1>30, OfI
  <2>2. Cures = {"apps"} /\ About.advice = {"offline"}
    BY <1>30, AdviceIs DEF Cures
  <2>3. I!AppPackages(setting, answered) \subseteq {"apps"} \cup {"offline"}
    BY DEF I!AppPackages, I!BrokenPackages, I!Finding
  <2>4. QED BY <2>1, <2>2, <2>3
<1>31. CASE part = "tasks"
  BY <1>31, OfU DEF U!TaskFindings, U!TaskOwners, Cures, U!Finding
<1>32. CASE part = "updates"
  <2>1. Findings(setting, answered) = U!UpdateFindings(setting, answered)
    BY <1>32, OfU
  <2>2. Cures = {"reset"} /\ About.advice = {"advice"}
    BY <1>32, AdviceIs DEF Cures
  <2>5. \A log : U!FailingUpdates(log) \subseteq {"known", "unknown"}
    BY DEF U!FailingUpdates, U!Cause
  <2>6. U!Cause.known = "advice" /\ U!Cause.unknown = "reset"
    BY DEF U!Cause
  <2>3. U!UpdateFindings(setting, answered) \subseteq {"reset"} \cup {"advice"}
    BY <2>5, <2>6 DEF U!UpdateFindings
  <2>4. QED BY <2>1, <2>2, <2>3
<1>33. CASE part = "updateservice"
  BY <1>33, OfU DEF U!ServiceDisabled, Cures, U!Finding
<1>34. CASE part = "reboot"
  <2>1. Findings(setting, answered) = U!PendingReboot(setting, answered)
    BY <1>34, OfU
  <2>2. Cures = {} /\ About.advice = {"reboot"}
    BY <1>34, AdviceIs DEF Cures
  <2>3. U!PendingReboot(setting, answered) \subseteq {} \cup {"reboot"}
    BY DEF U!PendingReboot, U!Finding
  <2>4. QED BY <2>1, <2>2, <2>3
<1>35. CASE part = "bluescreen"
  <2>1. Findings(setting, answered) = K!CrashFindings(setting, answered)
    BY <1>35, OfK
  <2>2. Cures = {"memory"} /\ About.advice = {"memoryadvice", "gpu", "history", "shutdown", "changed"}
    BY <1>35, AdviceIs DEF Cures
  <2>3. K!CrashFindings(setting, answered) \subseteq {"memory"} \cup {"memoryadvice", "gpu", "history", "shutdown", "changed"}
    BY DEF K!CrashFindings, K!Collected, K!MemoryTestFinding, K!Advice, K!Finding
  <2>4. QED BY <2>1, <2>2, <2>3
<1>36. CASE part = "dumps"
  BY <1>36, OfK DEF K!StaleDumps, Cures, K!Finding
<1>37. CASE part = "addon"
  BY <1>37, OfK DEF K!ShellExtensions, K!LeftToBlock, Cures, K!Finding
<1>38. QED
  BY <1>1, <1>2, <1>3, <1>4, <1>5, <1>6, <1>7, <1>8, <1>9, <1>10, <1>11, <1>12, <1>13, <1>14, <1>15, <1>16, <1>17, <1>18, <1>19, <1>20, <1>21, <1>22, <1>23, <1>24, <1>25, <1>26, <1>27, <1>28, <1>29, <1>30, <1>31, <1>32, <1>33, <1>34, <1>35, <1>36, <1>37 DEF Parts

LEMMA TasksStay ==
  ASSUME part = "tasks", Held, World, NEW t \in {Restarted(setting)} \cup Elsewhere(setting)
  PROVE  /\ DOMAIN t = DOMAIN setting
         /\ \A o \in U!TaskOwners : "enabled" \in DOMAIN t[o] /\ (t[o].enabled => setting[o].enabled)
<1>1. /\ U!TaskOwners \subseteq DOMAIN setting /\ Cures = {"orphaned", "failing"} \X U!TaskOwners
      /\ \A o \in U!TaskOwners : "enabled" \in DOMAIN setting[o]
  BY DEF Held, Items, Cures, World
<1>2. \/ t = setting
      \/ \E f \in reported :
           \/ \E program : t = [setting EXCEPT ![f[2]].program = program]
           \/ t = [setting EXCEPT ![f[2]].enabled = FALSE]
  <2>1. t \in {U!Restarted("tasks", setting)} \cup U!Elsewhere("tasks", setting)
    BY OfU DEF U!Parts
  <2>2. U!Restarted("tasks", setting) = setting
    BY DEF U!Restarted
  <2> HIDE DEF U!Restarted
  <2>3. U!Elsewhere("tasks", setting) =
          UNION {{[setting EXCEPT ![f[2]].program = g] : g \in {"there", "missing"}}
                 \cup {[setting EXCEPT ![f[2]].enabled = FALSE]} : f \in reported}
    BY DEF U!Elsewhere
  <2>4. CASE t \in U!Elsewhere("tasks", setting)
    <3> DEFINE Ways(f) == {[setting EXCEPT ![f[2]].program = g] : g \in {"there", "missing"}}
                          \cup {[setting EXCEPT ![f[2]].enabled = FALSE]}
    <3>0. t \in UNION {Ways(f) : f \in reported}
      BY <2>3, <2>4, Zenon
    <3> HIDE DEF Ways
    <3>1. PICK f \in reported : t \in Ways(f)
      BY <3>0
    <3> USE DEF Ways
    <3>2. QED BY <3>1
  <2>5. QED BY <2>1, <2>2, <2>4
<1>3. /\ DOMAIN t = DOMAIN setting
      /\ \A o \in U!TaskOwners : "enabled" \in DOMAIN t[o] /\ (t[o].enabled => setting[o].enabled)
  BY <1>1, <1>2
<1>4. QED BY <1>3

LEMMA StaysWell ==
  ASSUME part \in Parts, Held, World, reported \subseteq Cures \cup About.advice,
         NEW t \in {Restarted(setting)} \cup Elsewhere(setting)
  PROVE  /\ Items \subseteq DOMAIN t
         /\ \A g \in Cures : Cured(g, setting) => Cured(g, t)
<1>1. CASE part = "services"
  <2>1. \/ t = setting
        \/ t = [setting EXCEPT !.guarded = setting.start]
        \/ t = [setting EXCEPT !.start = "auto"]
    BY <1>1, OfT DEF T!Parts, T!Restarted, T!Elsewhere
  <2>2. Items \subseteq DOMAIN setting /\ Items = {"auto", "demand", "guarded", "start"} /\ Cures = {"auto", "demand", "guarded"}
    BY <1>1 DEF Held, Items, Cures
  <2>3. \A g, s : Cured(g, s) <=> IF g = "guarded" THEN s.start = "auto" ELSE s[g] # "disabled"
    BY <1>1 DEF Cured
  <2>9. QED BY <2>1, <2>2, <2>3
<1>2. CASE part = "devices"
  <2>1. \/ t = setting
        \/ t = [setting EXCEPT !.hvservice = "works"]
        \/ t = [setting EXCEPT !.timer = "gone"]
    BY <1>2, OfT DEF T!Parts, T!Restarted, T!Elsewhere
  <2>2. Items \subseteq DOMAIN setting /\ Items = T!CoreDevices /\ Cures = T!CoreDevices
    BY <1>2 DEF Held, Items, Cures
  <2>3. \A g, s : Cured(g, s) <=> s[g] # "disabled"
    BY <1>2 DEF Cured, T!CoreDevices
  <2>9. QED BY <2>1, <2>2, <2>3 DEF T!CoreDevices
<1>3. CASE part = "threshold"
  <2>1. \/ t = setting
        \/ t = [setting EXCEPT !.threshold = "unset"]
    BY <1>3, OfT DEF T!Parts, T!Restarted, T!Elsewhere
  <2>2. Items \subseteq DOMAIN setting /\ Items = {"threshold", "memory"} /\ Cures = {"grouped"}
    BY <1>3 DEF Held, Items, Cures
  <2>3. \A g, s : Cured(g, s) <=> s.threshold # "raised"
    BY <1>3 DEF Cured
  <2>9. QED BY <2>1, <2>2, <2>3
<1>4. CASE part = "policies"
  <2>1. \/ t = setting
        \/ \E v \in {"UseWUServer", "DisableStoreApps"} : t = [setting EXCEPT ![v] = FALSE]
    BY <1>4, OfT DEF T!Parts, T!Restarted, T!Elsewhere
  <2>2. /\ T!PolicyValues \cup {"realtime", "storeEdition"} \subseteq DOMAIN setting
        /\ Cures = T!PolicyIds
    BY <1>4 DEF Held, Items, Cures
  <2>3. /\ \A v \in T!PolicyValues : t[v] => setting[v]
        /\ t.storeEdition = setting.storeEdition /\ t.realtime = setting.realtime
        /\ DOMAIN t = DOMAIN setting
    BY <2>1, <2>2
  <2>4. \A g, s : Cured(g, s) <=> T!PolicyHit(g, s, TRUE) = {} \/ (g = "defender" /\ s.realtime)
    BY <1>4 DEF Cured
  <2>5. QED BY <2>2, <2>3, <2>4, FewerInForce DEF Held
<1>5. CASE part = "hosts"
  <2>1. \/ t = setting
        \/ t = [hosts |-> {}]
    BY <1>5, OfT DEF T!Parts, T!Restarted, T!Elsewhere
  <2>2. Items \subseteq DOMAIN setting /\ Items = {"hosts"} /\ Cures = {"blocks"}
    BY <1>5 DEF Held, Items, Cures
  <2>3. \A g, s : Cured(g, s) <=> T!HostsBlocks(s.hosts) = {}
    BY <1>5 DEF Cured
  <2>9. QED BY <2>1, <2>2, <2>3 DEF T!HostsBlocks
<1>6. CASE part = "adapter"
  <2>1. \/ t = setting
        \/ t = [setting EXCEPT !.dns = "alive"]
        \/ t = [setting EXCEPT !.cache = "good"]
    BY <1>6, OfN DEF N!Parts, N!Restarted, N!Elsewhere
  <2>2. {"admin", "address", "dns", "cache", "other", "router"} \subseteq DOMAIN setting
    BY <1>6 DEF Held, Items
  <2>3. /\ t.other = setting.other /\ t.router = setting.router
        /\ t.admin = setting.admin /\ t.address = setting.address
        /\ t.cache \in {setting.cache, "good"} /\ t.dns \in {setting.dns, "none", "alive"}
        /\ DOMAIN t = DOMAIN setting
    BY <2>1, <2>2
  <2>4. QED BY <1>6, <2>3, AdapterStaysWell DEF Held
<1>7. CASE part = "connections"
  <2>1. \/ t = setting
        \/ t = [setting EXCEPT !.catalog = "intact"]
        \/ t = [setting EXCEPT !.user = "alive"]
        \/ t = [setting EXCEPT !.winhttp = "none"]
    BY <1>7, OfN DEF N!Parts, N!Restarted, N!Elsewhere
  <2>2. Items \subseteq DOMAIN setting /\ Items = {"user", "winhttp", "catalog"} /\ Cures = {"user", "winhttp", "catalog"}
    BY <1>7 DEF Held, Items, Cures
  <2>3. \A g, s : Cured(g, s) <=> IF g = "catalog" THEN s.catalog \in {"reset", "intact"} ELSE s[g] # "dead"
    BY <1>7 DEF Cured
  <2>9. QED BY <2>1, <2>2, <2>3
<1>8. CASE part = "pagefile"
  <2>1. \/ t = [setting EXCEPT !.active = (setting.files # "none")]
        \/ t = [setting EXCEPT !.files = "fine"]
    BY <1>8, OfS DEF S!Parts, S!Restarted, S!Elsewhere
  <2>2. Items \subseteq DOMAIN setting /\ Items = {"files"} /\ Cures = {"disabled", "fixedsize"}
    BY <1>8 DEF Held, Items, Cures
  <2>3. \A g, s : Cured(g, s) <=> IF g = "disabled" THEN s.files # "none" ELSE s.files \notin {"small", "inverted"}
    BY <1>8 DEF Cured
  <2>9. QED BY <2>1, <2>2, <2>3
<1>9. CASE part = "autostart"
  <2>1. t = setting \/ \E name : \E value \in {"works", "none"} : t = [setting EXCEPT ![name] = value]
    <3>1. t = setting \/ t \in S!Elsewhere("autostart", setting)
      BY <1>9, OfS DEF S!Parts, S!Restarted
    <3>2. S!Elsewhere("autostart", setting) =
            {[setting EXCEPT !["My Tool"] = "works"], [setting EXCEPT !["Updater"] = "none"]}
      BY Zenon DEF S!Elsewhere
    <3>3. CASE t = setting
      BY <3>3
    <3>4. CASE t \in S!Elsewhere("autostart", setting)
      <4> DEFINE One == "My Tool"  Two == "Updater"
      <4>1. t = [setting EXCEPT ![One] = "works"] \/ t = [setting EXCEPT ![Two] = "none"]
        BY <3>2, <3>4, Zenon
      <4> HIDE DEF One, Two
      <4>2. QED BY <4>1
    <3>5. QED BY <3>1, <3>3, <3>4, Zenon
  <2>2. DOMAIN t = DOMAIN setting /\ \A name \in DOMAIN setting : t[name] \in {setting[name], "works", "none"}
    BY <2>1
  <2>3. \A g, s : Cured(g, s) <=> \A name \in S!RunKeys[g] : s[name] # "orphaned"
    BY <1>9 DEF Cured, S!MissingTargets
  <2>4. S!RunKeys.user \cup S!RunKeys.machine \subseteq DOMAIN setting /\ Cures = {"user", "machine"}
    BY <1>9 DEF Held, Items, Cures
  <2>5. QED BY <2>2, <2>3, <2>4 DEF Held
<1>10. CASE part = "clock"
  <2>1. \/ t = setting
        \/ t = [setting EXCEPT !.clock = "right"]
    BY <1>10, OfS DEF S!Parts, S!Restarted, S!Elsewhere
  <2>2. Items \subseteq DOMAIN setting /\ Items = {"clock"} /\ Cures = {"clock"}
    BY <1>10 DEF Held, Items, Cures
  <2>3. \A g, s : Cured(g, s) <=> s.clock = "right"
    BY <1>10 DEF Cured
  <2>9. QED BY <2>1, <2>2, <2>3
<1>11. CASE part = "restart"
  <2>1. \/ t = [setting EXCEPT !.up = "short"]
        \/ t = [setting EXCEPT !.hiberboot = FALSE]
    BY <1>11, OfS DEF S!Parts, S!Restarted, S!Elsewhere
  <2>2. Items \subseteq DOMAIN setting /\ Items = {"up"} /\ Cures = {"overdue"}
    BY <1>11 DEF Held, Items, Cures
  <2>3. \A g, s : Cured(g, s) <=> TRUE
    BY <1>11 DEF Cured
  <2>9. QED BY <2>1, <2>2, <2>3
<1>12. CASE part = "opengl"
  <2>1. \/ t = setting
        \/ t = [setting EXCEPT !.wide = "there", !.wow = "there"]
        \/ t = [setting EXCEPT !.card = "problem"]
    <3>1. t \in {H!Restarted("opengl", setting)} \cup H!Elsewhere("opengl", setting)
      BY <1>12, OfH DEF H!Parts
    <3>2. H!Restarted("opengl", setting) = setting
      BY DEF H!Restarted
    <3>3. H!Elsewhere("opengl", setting) =
            {[setting EXCEPT !.wide = "there", !.wow = "there"], [setting EXCEPT !.card = "problem"]}
      BY DEF H!Elsewhere
    <3> HIDE DEF H!Elsewhere, H!Restarted
    <3>4. QED BY <3>1, <3>2, <3>3, Zenon
  <2>2. Items \subseteq DOMAIN setting /\ Items = H!Entries \cup {"card"} /\ Cures = {"opengl"}
    BY <1>12 DEF Held, Items, Cures
  <2>3. \A g, s : Cured(g, s) <=> (s.card # "works" \/ H!BrokenEntries(s) = {})
    BY <1>12 DEF Cured, H!Entries
  <2>9. QED BY <2>1, <2>2, <2>3 DEF H!BrokenEntries, H!Entries
<1>13. CASE part = "device"
  <2>1. \/ t = setting
        \/ t = [setting EXCEPT !.problem = "gone"]
        \/ t = [setting EXCEPT !.problem = "advice"]
    BY <1>13, OfH DEF H!Parts, H!Restarted, H!Elsewhere
  <2>2. Items \subseteq DOMAIN setting /\ Items = {"problem"} /\ Cures = {"restart", "driver"}
    BY <1>13 DEF Held, Items, Cures
  <2>3. \A g, s : Cured(g, s) <=> s.problem \in Harmless
    BY <1>13 DEF Cured, Idle
  <2>9. QED BY <2>1, <2>2, <2>3 DEF Harmless
<1>14. CASE part = "printing"
  <2>1. \/ t = setting
        \/ t = [setting EXCEPT !.jobs = "none"]
    BY <1>14, OfH DEF H!Parts, H!Restarted, H!Elsewhere
  <2>2. Items \subseteq DOMAIN setting /\ Items = {"spooler", "jobs"} /\ Cures = {"queue"}
    BY <1>14 DEF Held, Items, Cures
  <2>3. \A g, s : Cured(g, s) <=> (s.spooler = "running" /\ s.jobs = "none")
    BY <1>14 DEF Cured
  <2>9. QED BY <2>1, <2>2, <2>3
<1>15. CASE part = "whea"
  <2>1. \/ t = setting
        \/ t = [setting EXCEPT !.test = IF setting.ram = "good" THEN "passed" ELSE "failed"]
        \/ t = [setting EXCEPT !.ac = "off", !.dc = "off"]
    <3>1. t \in {H!Restarted("whea", setting)} \cup H!Elsewhere("whea", setting)
      BY <1>15, OfH DEF H!Parts
    <3>2. \/ H!Restarted("whea", setting) = setting
          \/ H!Restarted("whea", setting) = [setting EXCEPT !.test = IF setting.ram = "good" THEN "passed" ELSE "failed"]
      BY DEF H!Restarted
    <3>3. H!Elsewhere("whea", setting) = {[setting EXCEPT !.ac = "off", !.dc = "off"]}
      BY DEF H!Elsewhere
    <3> HIDE DEF H!Elsewhere, H!Restarted
    <3>4. QED BY <3>1, <3>2, <3>3, Zenon
  <2>2. Items \subseteq DOMAIN setting /\ Items = {"test", "ac", "dc", "ram"} /\ Cures = {"cpu", "memory", "pcie"}
    BY <1>15 DEF Held, Items, Cures
  <2>3. \A g, s : Cured(g, s) <=> IF g = "pcie" THEN s.ac = "off" /\ s.dc = "off" ELSE s.ram = "good" => s.test \in {"scheduled", "passed"}
    BY <1>15 DEF Cured, H!AspmOff
  <2>9. QED BY <2>1, <2>2, <2>3
<1>16. CASE part = "dirty"
  <2>1. t = [setting EXCEPT !.dirty = FALSE, !.errors = "none"]
    BY <1>16, OfC DEF C!Parts, C!Restarted, C!Elsewhere
  <2>2. Items \subseteq DOMAIN setting /\ Items = {"dirty"} /\ Cures = {"dirty"}
    BY <1>16 DEF Held, Items, Cures
  <2>3. \A g, s : Cured(g, s) <=> TRUE
    BY <1>16 DEF Cured
  <2>9. QED BY <2>1, <2>2, <2>3
<1>17. CASE part = "icons"
  <2>1. t = setting
    BY <1>17, OfC DEF C!Parts, C!Restarted, C!Elsewhere
  <2>2. Items \subseteq DOMAIN setting /\ Items = {"icons"} /\ Cures = {"icons"}
    BY <1>17 DEF Held, Items, Cures
  <2>3. \A g, s : Cured(g, s) <=> s.icons = "small"
    BY <1>17 DEF Cured
  <2>9. QED BY <2>1, <2>2, <2>3
<1>18. CASE part = "temp"
  <2>1. \/ t = setting
        \/ t = [setting EXCEPT !.temp = setting.temp \ {"held"}]
    BY <1>18, OfC DEF C!Parts, C!Restarted, C!Elsewhere
  <2>2. Items \subseteq DOMAIN setting /\ Items = {"temp"} /\ Cures = {"temp"}
    BY <1>18 DEF Held, Items, Cures
  <2>3. \A g, s : Cured(g, s) <=> s.temp \subseteq C!Held
    BY <1>18 DEF Cured
  <2>9. QED BY <2>1, <2>2, <2>3
<1>19. CASE part = "cache"
  <2>1. \/ t = setting
        \/ t = [setting EXCEPT !.cache = setting.cache \ {"held"}]
    BY <1>19, OfC DEF C!Parts, C!Restarted, C!Elsewhere
  <2>2. Items \subseteq DOMAIN setting /\ Items = {"cache"} /\ Cures = {"cache"}
    BY <1>19 DEF Held, Items, Cures
  <2>3. \A g, s : Cured(g, s) <=> s.cache \subseteq C!Held
    BY <1>19 DEF Cured
  <2>9. QED BY <2>1, <2>2, <2>3
<1>20. CASE part = "delivery"
  <2>1. t = setting
    BY <1>20, OfC DEF C!Parts, C!Restarted, C!Elsewhere
  <2>2. Items \subseteq DOMAIN setting /\ Items = {"delivery"} /\ Cures = {"delivery"}
    BY <1>20 DEF Held, Items, Cures
  <2>3. \A g, s : Cured(g, s) <=> s.delivery \subseteq C!Held
    BY <1>20 DEF Cured
  <2>9. QED BY <2>1, <2>2, <2>3
<1>21. CASE part = "downloads"
  <2>1. t = setting
    BY <1>21, OfC DEF C!Parts, C!Restarted, C!Elsewhere
  <2>2. Items \subseteq DOMAIN setting /\ Items = {"downloads"} /\ Cures = {"downloads"}
    BY <1>21 DEF Held, Items, Cures
  <2>3. \A g, s : Cured(g, s) <=> s.downloads \subseteq C!Held
    BY <1>21 DEF Cured
  <2>9. QED BY <2>1, <2>2, <2>3
<1>22. CASE part = "logs"
  <2>1. \/ t = setting
        \/ t = [logs |-> {IF k = "log" THEN "heldlog" ELSE k : k \in setting.logs}]
    BY <1>22, OfC DEF C!Parts, C!Restarted, C!Elsewhere
  <2>2. Items \subseteq DOMAIN setting /\ Items = {"logs"} /\ Cures = {"logs"}
    BY <1>22 DEF Held, Items, Cures
  <2>3. \A g, s : Cured(g, s) <=> "log" \notin s.logs
    BY <1>22 DEF Cured
  <2>9. QED BY <2>1, <2>2, <2>3
<1>23. CASE part = "bin"
  <2>1. t = setting
    BY <1>23, OfC DEF C!Parts, C!Restarted, C!Elsewhere
  <2>2. Items \subseteq DOMAIN setting /\ Items = C!Drives /\ Cures = {"bin"}
    BY <1>23 DEF Held, Items, Cures
  <2>3. \A g, s : Cured(g, s) <=> (\A d \in C!Drives : "item" \notin s[d])
    BY <1>23 DEF Cured, C!Drives
  <2>9. QED BY <2>1, <2>2, <2>3 DEF C!Drives
<1>24. CASE part = "winsxs"
  <2>1. \/ t = setting
        \/ t = [setting EXCEPT !.packages = 0, !.stuck = 0]
    BY <1>24, OfC DEF C!Parts, C!Restarted, C!Elsewhere
  <2>2. Items \subseteq DOMAIN setting /\ Items = {"packages", "note"} /\ Cures = {"winsxs"}
    BY <1>24 DEF Held, Items, Cures
  <2>3. \A g, s : Cured(g, s) <=> (s.packages = 0 \/ s.note = s.packages)
    BY <1>24 DEF Cured
  <2>9. QED BY <2>1, <2>2, <2>3
<1>25. CASE part = "store"
  <2>1. \/ t = setting
        \/ t = [setting EXCEPT !.isos = setting.isos \cup {"latest"}]
    BY <1>25, OfI DEF I!Parts, I!Restarted, I!Elsewhere
  <2>2. Items \subseteq DOMAIN setting /\ Items = {"damage", "report", "marked", "isos"} /\ Cures = {"store"}
    BY <1>25 DEF Held, Items, Cures
  <2>3. \A g, s : Cured(g, s) <=> (~s.marked /\ s.report \in {{}, {"backups"}})
    BY <1>25 DEF Cured
  <2>9. QED BY <2>1, <2>2, <2>3
<1>26. CASE part = "sfc"
  <2>1. t = setting
    BY <1>26, OfI DEF I!Parts, I!Restarted, I!Elsewhere
  <2>2. Items \subseteq DOMAIN setting /\ Items = {"left", "summary"} /\ Cures = {"sfc"}
    BY <1>26 DEF Held, Items, Cures
  <2>3. \A g, s : Cured(g, s) <=> (s.left = {} /\ ~s.summary)
    BY <1>26 DEF Cured
  <2>9. QED BY <2>1, <2>2, <2>3
<1>27. CASE part = "vss"
  <2>1. \/ t = setting
        \/ t = [setting EXCEPT !.vss = "manual"]
    BY <1>27, OfI DEF I!Parts, I!Restarted, I!Elsewhere
  <2>2. Items \subseteq DOMAIN setting /\ Items = {"vss"} /\ Cures = {"vss"}
    BY <1>27 DEF Held, Items, Cures
  <2>3. \A g, s : Cured(g, s) <=> s.vss # "disabled"
    BY <1>27 DEF Cured
  <2>9. QED BY <2>1, <2>2, <2>3
<1>28. CASE part = "winre"
  <2>1. t = setting
    BY <1>28, OfI DEF I!Parts, I!Restarted, I!Elsewhere
  <2>2. Items \subseteq DOMAIN setting /\ Items = {"winre"} /\ Cures = {"winre"}
    BY <1>28 DEF Held, Items, Cures
  <2>3. \A g, s : Cured(g, s) <=> s.winre = "on"
    BY <1>28 DEF Cured
  <2>9. QED BY <2>1, <2>2, <2>3
<1>29. CASE part = "wmi"
  <2>1. t = setting
    BY <1>29, OfI DEF I!Parts, I!Restarted, I!Elsewhere
  <2>2. Items \subseteq DOMAIN setting /\ Items = {"failing"} /\ Cures = {"wmi"}
    BY <1>29 DEF Held, Items, Cures
  <2>3. \A g, s : Cured(g, s) <=> s.failing = {}
    BY <1>29 DEF Cured
  <2>9. QED BY <2>1, <2>2, <2>3
<1>30. CASE part = "apps"
  <2>1. \/ t = setting
        \/ t = [setting EXCEPT !.store = "busy"]
        \/ t = [setting EXCEPT !.store = "ok"]
    BY <1>30, OfI DEF I!Parts, I!Restarted, I!Elsewhere
  <2>2. Items \subseteq DOMAIN setting /\ Items = {} /\ Cures = {"apps"}
    BY <1>30 DEF Held, Items, Cures
  <2>3. \A g, s : Cured(g, s) <=> I!BrokenPackages(s) = {}
    BY <1>30 DEF Cured
  <2>9. QED BY <2>1, <2>2, <2>3 DEF I!BrokenPackages
<1>31. CASE part = "tasks"
  <2>3. /\ DOMAIN t = DOMAIN setting
        /\ \A o \in U!TaskOwners : t[o].enabled => setting[o].enabled
    BY <1>31, TasksStay
  <2>1. U!TaskOwners \subseteq DOMAIN setting /\ Cures = {"orphaned", "failing"} \X U!TaskOwners
    BY <1>31 DEF Held, Items, Cures
  <2>4. \A g, s : Cured(g, s) <=> ~s[g[2]].enabled
    BY <1>31 DEF Cured
  <2>5. QED BY <2>1, <2>3, <2>4 DEF Held
<1>32. CASE part = "updates"
  <2>1. t = U!NextUpdate(setting)
    BY <1>32, OfU DEF U!Parts, U!Restarted, U!Elsewhere
  <2>2. Items \subseteq DOMAIN setting /\ Items = {"log"} /\ Cures = {"reset"}
    BY <1>32 DEF Held, Items, Cures
  <2>3. \A g, s : Cured(g, s) <=> TRUE
    BY <1>32 DEF Cured
  <2>9. QED BY <2>1, <2>2, <2>3 DEF U!NextUpdate
<1>33. CASE part = "updateservice"
  <2>1. \/ t = setting
        \/ t = [setting EXCEPT !.start = "auto"]
    BY <1>33, OfU DEF U!Parts, U!Restarted, U!Elsewhere
  <2>2. Items \subseteq DOMAIN setting /\ Items = {"start"} /\ Cures = {"service"}
    BY <1>33 DEF Held, Items, Cures
  <2>3. \A g, s : Cured(g, s) <=> s.start # "disabled"
    BY <1>33 DEF Cured
  <2>9. QED BY <2>1, <2>2, <2>3
<1>34. CASE part = "reboot"
  <2>1. t = U!Booted(setting)
    BY <1>34, OfU DEF U!Parts, U!Restarted, U!Elsewhere
  <2>2. Items \subseteq DOMAIN setting /\ Items = {"cbs", "wu"} /\ Cures = {}
    BY <1>34 DEF Held, Items, Cures
  <2>3. \A g, s : Cured(g, s) <=> TRUE
    BY <1>34 DEF Cured
  <2>9. QED BY <2>1, <2>2, <2>3 DEF U!Booted
<1>35. CASE part = "bluescreen"
  <2>1. t = K!Tested(setting)
    BY <1>35, OfK DEF K!Parts, K!Restarted, K!Elsewhere
  <2>2. Items \subseteq DOMAIN setting /\ Items = {"test", "time", "ram"} /\ Cures = {"memory"}
    BY <1>35 DEF Held, Items, Cures
  <2>3. \A g, s : Cured(g, s) <=> (s.ram = "good" /\ s.time # "unknown" =>
                                      s.test = "scheduled" \/ (s.test = "passed" /\ s.time = "before"))
    BY <1>35 DEF Cured
  <2>9. QED BY <2>1, <2>2, <2>3 DEF K!Tested
<1>36. CASE part = "dumps"
  <2>1. \/ t = setting
        \/ t = [setting EXCEPT !.held = {}]
    BY <1>36, OfK DEF K!Parts, K!Restarted, K!Elsewhere
  <2>2. Items \subseteq DOMAIN setting /\ Items = {"old"} /\ Cures = {"dumps"}
    BY <1>36 DEF Held, Items, Cures
  <2>3. \A g, s : Cured(g, s) <=> s.old = {}
    BY <1>36 DEF Cured
  <2>9. QED BY <2>1, <2>2, <2>3
<1>37. CASE part = "addon"
  <2>1. \/ t = setting
        \/ t = [setting EXCEPT !.registered = {}]
        \/ t = [setting EXCEPT !.crashed = FALSE]
    BY <1>37, OfK DEF K!Parts, K!Restarted, K!Elsewhere
  <2>2. Items \subseteq DOMAIN setting /\ Items = {"blocked", "registered"} /\ Cures = {"addon"}
    BY <1>37 DEF Held, Items, Cures
  <2>3. \A g, s : Cured(g, s) <=> K!LeftToBlock(s) = {}
    BY <1>37 DEF Cured
  <2>9. QED BY <2>1, <2>2, <2>3 DEF K!LeftToBlock
<1>38. QED
  BY <1>1, <1>2, <1>3, <1>4, <1>5, <1>6, <1>7, <1>8, <1>9, <1>10, <1>11, <1>12, <1>13, <1>14, <1>15, <1>16, <1>17, <1>18, <1>19, <1>20, <1>21, <1>22, <1>23, <1>24, <1>25, <1>26, <1>27, <1>28, <1>29, <1>30, <1>31, <1>32, <1>33, <1>34, <1>35, <1>36, <1>37 DEF Parts, T!Parts, N!Parts, S!Parts, H!Parts, C!Parts, I!Parts, U!Parts, K!Parts

LEMMA WorldStays ==
  ASSUME part \in Parts, Held, World, reported \subseteq Cures \cup About.advice,
         NEW t \in {Restarted(setting)} \cup Elsewhere(setting), setting' = t,
         UNCHANGED <<part, repair, done, before>>, reported' \in {reported, {}}
  PROVE  World'
<1>1. CASE part = "adapter"
  <2>1. t = setting \/ t = [setting EXCEPT !.dns = "alive"] \/ t = [setting EXCEPT !.cache = "good"]
    <3>1. t \in {N!Restarted("adapter", setting)} \cup N!Elsewhere("adapter", setting)
      BY <1>1, OfN DEF N!Parts
    <3>2. N!Restarted("adapter", setting) = setting
      BY DEF N!Restarted
    <3>3. N!Elsewhere("adapter", setting) = {[setting EXCEPT !.dns = "alive"], [setting EXCEPT !.cache = "good"]}
      BY DEF N!Elsewhere
    <3> HIDE DEF N!Restarted, N!Elsewhere
    <3>4. QED BY <3>1, <3>2, <3>3
  <2>2. setting.admin \in {"on", "off"} /\ ("dhcp" \in reported => setting.admin = "on")
    BY <1>1 DEF World
  <2>3. t.admin = setting.admin
    <3>1. {"admin", "dns", "cache"} \subseteq DOMAIN setting
      BY <1>1 DEF Held, Items
    <3>2. QED BY <2>1, <3>1
  <2>4. QED BY <1>1, <2>2, <2>3 DEF World
<1>2. CASE part = "device"
  <2>1. t = setting \/ t = [setting EXCEPT !.problem = "gone"] \/ t = [setting EXCEPT !.problem = "advice"]
    BY <1>2, OfH DEF H!Parts, H!Restarted, H!Elsewhere
  <2>2. "problem" \in DOMAIN setting /\ (reported \cap Cures # {} => setting.problem \in (reported \cap Cures) \cup Harmless)
    BY <1>2 DEF Held, Items, World
  <2>3. t.problem \in {setting.problem, "gone", "advice"}
    BY <2>1, <2>2
  <2>4. (Cures = {"restart", "driver"} /\ Harmless = {"none", "gone", "advice"})' /\ Cures = {"restart", "driver"}
    BY <1>2 DEF Cures, Harmless
  <2>5. QED BY <1>2, <2>2, <2>3, <2>4 DEF World
<1>3. CASE part \in {"temp", "cache", "delivery", "downloads"}
  <2>1. t = setting \/ t = [setting EXCEPT ![part] = setting[part] \ {"held"}]
    BY <1>3, OfC DEF C!Parts, C!Restarted, C!Elsewhere
  <2>2. part \in DOMAIN setting
    BY <1>3 DEF Held, Items
  <2>3. "held" \in t[part] => "held" \in setting[part]
    BY <2>1, <2>2
  <2>4. QED BY <1>3, <2>3 DEF World, Idle
<1>4. CASE part = "addon"
  <2>1. t = setting \/ t = [setting EXCEPT !.registered = {}] \/ t = [setting EXCEPT !.crashed = FALSE]
    BY <1>4, OfK DEF K!Parts, K!Restarted, K!Elsewhere
  <2>2. setting.registered \cap K!NoKey = {} /\ {"blocked", "registered"} \subseteq DOMAIN setting
    BY <1>4 DEF World, Held, Items
  <2>3. t.registered \cap K!NoKey = {}
    BY <2>1, <2>2
  <2>4. QED BY <1>4, <2>3 DEF World
<1>5. CASE part = "tasks"
  <2>1. \A o \in U!TaskOwners : "enabled" \in DOMAIN t[o]
    BY <1>5, TasksStay
  <2>2. QED BY <1>5, <2>1 DEF World
<1>6. CASE part \notin {"adapter", "device", "temp", "cache", "delivery", "downloads", "addon", "tasks"}
  BY <1>6 DEF World
<1>7. QED BY <1>1, <1>2, <1>3, <1>4, <1>5, <1>6

(* What is said of a part stays as it is. What can be backed up of it need *)
(* not: of an add-in, whether it was blocked at first (Crashes, About).    *)
LEMMA AboutStays ==
  ASSUME UNCHANGED part
  PROVE  About'.advice = About.advice /\ Cures' = Cures /\ Items' = Items
<1>1. Cures' = Cures /\ Items' = Items
  BY DEF Cures, Items
<1>2. About'.advice = About.advice
  BY DEF About, T!About, N!About, S!About, H!About, C!About, I!About, U!About, K!About,
         T!AnyPart, N!AnyPart, S!AnyPart, H!AnyPart, C!AnyPart, I!AnyPart, U!AnyPart, K!AnyPart
<1>3. QED BY <1>1, <1>2

LEMMA IdleUnderway == ASSUME Idle PROVE Underway
<1>1. repair.at = "begin" /\ repair.finding = "none" /\ repair.left = {}
  BY DEF Idle, NoRepair, NoFinding
<1>2. QED BY <1>1 DEF Underway, Idle

LEMMA CuredNext == ASSUME UNCHANGED part, NEW g PROVE Cured(g, setting)' <=> Cured(g, setting')
  BY DEF Cured

(* Windows restarting, or somebody else, loses nothing of it.              *)
LEMMA BecomesSound == ASSUME part \in Parts, Sound, Restart \/ SomebodyElse PROVE Sound'
<1>1. PICK t \in {Restarted(setting)} \cup Elsewhere(setting) :
        /\ setting' = t /\ Idle /\ UNCHANGED <<part, repair, done, before>> /\ reported' \in {reported, {}}
  BY DEF Restart, SomebodyElse, Becomes
<1>2. World'
  BY <1>1, WorldStays DEF Sound, Repairable
<1>3. Items \subseteq DOMAIN t /\ \A g \in Cures : Cured(g, setting) => Cured(g, t)
  BY StaysWell DEF Sound, Repairable
<1>4. Idle'
  BY <1>1 DEF Idle
<1>5. Formed' /\ Held' /\ Repairable' /\ Once'
  BY <1>1, <1>3, <1>4, AboutStays DEF Sound, Formed, Held, Repairable, Once, OnceParts, Idle
<1>6. Lasting'
  <2>1. \A g \in done : Cured(g, t)
    BY <1>3 DEF Sound, Lasting, Repairable
  <2>2. \A g : Cured(g, setting)' <=> Cured(g, t)
    BY <1>1, CuredNext
  <2>3. QED BY <1>1, <2>1, <2>2 DEF Lasting
<1>7. Underway'
  BY <1>4, IdleUnderway, PTL
<1>8. QED BY <1>2, <1>5, <1>6, <1>7 DEF Sound

(* A step of a repair loses nothing of it.                                 *)
LEMMA FixCarries ==
  ASSUME part \in Parts, Sound, ~Idle, UNCHANGED around, FixIt(repair.finding)
  PROVE  Carries /\ Underway' /\ World'
<1>1. repair.finding \in Cures
  BY DEF Sound, Repairable
<1>2. CASE part \in T!Parts
  <2>1. T!Fix(repair.finding)
    BY <1>2, OfT
  <2>2. CASE part = "services"
    <3>1. IF repair.finding = "guarded" THEN T!FixServiceInRegistry ELSE T!FixService(repair.finding)
      BY <2>1, <2>2 DEF T!Fix
    <3>2. QED BY <2>2, <3>1, ServiceLasts, GuardedServiceLasts
  <2>3. CASE part = "devices"
    <3>1. T!FixDevice(repair.finding)
      BY <2>1, <2>3 DEF T!Fix
    <3>2. QED BY <2>3, <3>1, DeviceLasts
  <2>4. CASE part = "threshold"
    <3>1. T!FixSplitThreshold
      BY <2>1, <2>4 DEF T!Fix
    <3>2. QED BY <2>4, <3>1, ThresholdLasts
  <2>5. CASE part = "policies"
    <3>1. T!FixPolicy(repair.finding)
      BY <2>1, <2>5 DEF T!Fix
    <3>2. QED BY <2>5, <3>1, PoliciesLast
  <2>6. CASE part = "hosts"
    <3>1. T!FixHosts
      BY <2>1, <2>6 DEF T!Fix
    <3>2. QED BY <2>6, <3>1, HostsLast
  <2>7. QED BY <1>2, <2>2, <2>3, <2>4, <2>5, <2>6 DEF T!Parts
<1>3. CASE part \in N!Parts
  <2>1. N!Fix(repair.finding)
    BY <1>3, OfN
  <2>2. CASE part = "adapter"
    <3>1. repair.finding \in {"dhcp", "off", "servers", "names"}
      BY <1>1, <2>2 DEF Cures
    <3>2. CASE repair.finding = "dhcp"
      <4>1. N!FixNoDhcp
        BY <2>1, <3>2 DEF N!Fix
      <4>2. QED BY <2>2, <3>2, <4>1, DhcpLasts
    <3>3. CASE repair.finding = "off"
      <4>1. N!FixAdapterOff
        BY <2>1, <3>3 DEF N!Fix
      <4>2. QED BY <2>2, <3>3, <4>1, AdapterOffLasts
    <3>4. CASE repair.finding = "servers"
      <4>1. N!FixDeadDns
        BY <2>1, <3>4 DEF N!Fix
      <4>2. QED BY <2>2, <3>4, <4>1, DeadDnsLasts
    <3>5. CASE repair.finding = "names"
      <4>1. N!FixNames
        BY <2>1, <3>5 DEF N!Fix
      <4>2. QED BY <2>2, <3>5, <4>1, NamesLast
    <3>6. QED BY <3>1, <3>2, <3>3, <3>4, <3>5
  <2>3. CASE part = "connections"
    <3>1. repair.finding \in {"user", "winhttp", "catalog"}
      BY <1>1, <2>3 DEF Cures
    <3>2. CASE repair.finding = "catalog"
      <4>1. N!FixCatalog
        BY <2>1, <3>2 DEF N!Fix
      <4>2. QED BY <2>3, <3>2, <4>1, CatalogLasts
    <3>3. CASE repair.finding # "catalog"
      <4>1. N!FixProxy(repair.finding)
        BY <2>1, <3>1, <3>3 DEF N!Fix
      <4>2. QED BY <2>3, <3>3, <4>1, ProxyLasts
    <3>4. QED BY <3>2, <3>3
  <2>4. QED BY <1>3, <2>2, <2>3 DEF N!Parts
<1>4. CASE part \in S!Parts
  <2>1. S!Fix(repair.finding)
    BY <1>4, OfS
  <2>2. CASE part = "pagefile"
    <3>1. IF repair.finding = "disabled" THEN S!EnableAutomaticManagement ELSE S!SetSystemManaged
      BY <2>1, <2>2 DEF S!Fix
    <3>2. QED BY <2>2, <3>1, PageFileLasts
  <2>3. CASE part = "autostart"
    <3>1. S!RemoveOrphans(repair.finding)
      BY <2>1, <2>3 DEF S!Fix
    <3>2. QED BY <2>3, <3>1, AutostartLasts
  <2>4. CASE part = "clock"
    <3>1. S!FixClock
      BY <2>1, <2>4 DEF S!Fix
    <3>2. QED BY <2>4, <3>1, ClockLasts
  <2>5. CASE part = "restart"
    <3>1. S!FixRestart
      BY <2>1, <2>5 DEF S!Fix
    <3>2. QED BY <2>5, <3>1, OverdueLasts
  <2>6. QED BY <1>4, <2>2, <2>3, <2>4, <2>5 DEF S!Parts
<1>5. CASE part \in H!Parts
  <2>1. H!Fix(repair.finding)
    BY <1>5, OfH
  <2>2. CASE part = "opengl"
    <3>1. H!RepairOpenGl
      BY <2>1, <2>2 DEF H!Fix
    <3>2. QED BY <2>2, <3>1, OpenGlLasts
  <2>3. CASE part = "device"
    <3>1. H!RepairDevice(repair.finding)
      BY <2>1, <2>3 DEF H!Fix
    <3>2. QED BY <2>3, <3>1, RemedyLasts
  <2>4. CASE part = "printing"
    <3>1. H!ClearPrintQueue
      BY <2>1, <2>4 DEF H!Fix
    <3>2. QED BY <2>4, <3>1, PrintingLasts
  <2>5. CASE part = "whea"
    <3>1. IF repair.finding = "pcie" THEN H!SwitchAspmOff ELSE H!ScheduleMemoryTest
      BY <2>1, <2>5 DEF H!Fix
    <3>2. QED BY <2>5, <3>1, AspmLasts, MemoryTestLasts
  <2>6. QED BY <1>5, <2>2, <2>3, <2>4, <2>5 DEF H!Parts
<1>6. CASE part \in C!Parts
  <2>1. C!Fix(repair.finding)
    BY <1>6, OfC
  <2>2. CASE part = "dirty"
    <3>1. C!RunChkdsk
      BY <2>1, <2>2 DEF C!Fix
    <3>2. QED BY <2>2, <3>1, DirtyLasts
  <2>3. CASE part = "icons"
    <3>1. C!RebuildIconCache
      BY <2>1, <2>3 DEF C!Fix
    <3>2. QED BY <2>3, <3>1, IconsLast
  <2>4. CASE part = "temp"
    <3>1. C!CleanFolder("temp")
      BY <2>1, <2>4 DEF C!Fix
    <3>2. QED BY <2>4, <3>1, FolderLasts
  <2>5. CASE part = "cache"
    <3>1. C!CleanFolder("cache")
      BY <2>1, <2>5 DEF C!Fix
    <3>2. QED BY <2>5, <3>1, FolderLasts
  <2>6. CASE part = "delivery"
    <3>1. C!CleanDelivery
      BY <2>1, <2>6 DEF C!Fix
    <3>2. QED BY <2>6, <3>1, DeliveryLasts
  <2>7. CASE part = "downloads"
    <3>1. C!CleanUpdateCache
      BY <2>1, <2>7 DEF C!Fix
    <3>2. QED BY <2>7, <3>1, DownloadsLast
  <2>8. CASE part = "logs"
    <3>1. C!CleanLogs
      BY <2>1, <2>8 DEF C!Fix
    <3>2. QED BY <2>8, <3>1, LogsLast
  <2>9. CASE part = "bin"
    <3>1. C!EmptyRecycleBin
      BY <2>1, <2>9 DEF C!Fix
    <3>2. QED BY <2>9, <3>1, BinLasts
  <2>10. CASE part = "winsxs"
    <3>1. C!CleanComponentStore
      BY <2>1, <2>10 DEF C!Fix
    <3>2. QED BY <2>10, <3>1, WinSxSLasts
  <2>11. QED BY <1>6, <2>2, <2>3, <2>4, <2>5, <2>6, <2>7, <2>8, <2>9, <2>10 DEF C!Parts
<1>7. CASE part \in I!Parts
  <2>1. I!Fix(repair.finding)
    BY <1>7, OfI
  <2>2. CASE part = "store"
    <3>1. I!RepairStore
      BY <2>1, <2>2 DEF I!Fix
    <3>2. QED BY <2>2, <3>1, StoreLasts
  <2>3. CASE part = "sfc"
    <3>1. I!RunSfc
      BY <2>1, <2>3 DEF I!Fix
    <3>2. QED BY <2>3, <3>1, SfcLasts
  <2>4. CASE part = "vss"
    <3>1. I!EnableVss
      BY <2>1, <2>4 DEF I!Fix
    <3>2. QED BY <2>4, <3>1, VssLasts
  <2>5. CASE part = "winre"
    <3>1. I!EnableWinRe
      BY <2>1, <2>5 DEF I!Fix
    <3>2. QED BY <2>5, <3>1, WinReLasts
  <2>6. CASE part = "wmi"
    <3>1. I!SalvageWmi
      BY <2>1, <2>6 DEF I!Fix
    <3>2. QED BY <2>6, <3>1, WmiLasts
  <2>7. CASE part = "apps"
    <3>1. I!ReregisterPackages
      BY <2>1, <2>7 DEF I!Fix
    <3>2. QED BY <2>7, <3>1, AppsLast
  <2>8. QED BY <1>7, <2>2, <2>3, <2>4, <2>5, <2>6, <2>7 DEF I!Parts
<1>8. CASE part \in U!Parts
  <2>1. U!Fix(repair.finding)
    BY <1>8, OfU
  <2>2. CASE part = "tasks"
    <3>1. U!DisableTask(repair.finding)
      BY <2>1, <2>2 DEF U!Fix
    <3>2. QED BY <2>2, <3>1, TasksLast
  <2>3. CASE part = "updates"
    <3>1. U!ResetComponents
      BY <2>1, <2>3 DEF U!Fix
    <3>2. QED BY <2>3, <3>1, UpdatesLast
  <2>4. CASE part = "updateservice"
    <3>1. U!EnableUpdateService
      BY <2>1, <2>4 DEF U!Fix
    <3>2. QED BY <2>4, <3>1, UpdateServiceLasts
  <2>5. CASE part = "reboot"
    BY <2>1, <2>5 DEF U!Fix
  <2>6. QED BY <1>8, <2>2, <2>3, <2>4, <2>5 DEF U!Parts
<1>9. CASE part \in K!Parts
  <2>1. K!Fix(repair.finding)
    BY <1>9, OfK
  <2>2. CASE part = "bluescreen"
    <3>1. K!ScheduleMemoryTest
      BY <2>1, <2>2 DEF K!Fix
    <3>2. QED BY <2>2, <3>1, BlueScreenLasts
  <2>3. CASE part = "dumps"
    <3>1. K!DeleteStaleDumps
      BY <2>1, <2>3 DEF K!Fix
    <3>2. QED BY <2>3, <3>1, DumpsLast
  <2>4. CASE part = "addon"
    <3>1. K!BlockAddon
      BY <2>1, <2>4 DEF K!Fix
    <3>2. QED BY <2>4, <3>1, AddonLasts
  <2>5. QED BY <1>9, <2>2, <2>3, <2>4 DEF K!Parts
<1>10. QED BY <1>2, <1>3, <1>4, <1>5, <1>6, <1>7, <1>8, <1>9 DEF Parts

LEMMA FixSound == ASSUME part \in Parts, Sound, Fix PROVE Sound'
<1>1. ~Idle /\ UNCHANGED around /\ FixIt(repair.finding)
  BY DEF Fix
<1>2. Carries /\ Underway' /\ World'
  BY <1>1, FixCarries
<1>3. UNCHANGED <<part, reported>>
  BY <1>1 DEF around
<1>4. Cures' = Cures /\ Items' = Items /\ About'.advice = About.advice
  BY <1>3, AboutStays
<1>5. repair.finding \in Cures /\ repair.finding \notin About.advice /\ done \subseteq Cures
  BY <1>1 DEF Sound, Repairable
<1>6. Formed' /\ Held'
  BY <1>2, <1>4 DEF Sound, Formed, Held, Carries, Follows, NoRepair
<1>7. Repairable'
  <2>1. done' \subseteq Cures
    BY <1>2, <1>5 DEF Carries
  <2>2. ~Idle' => repair'.finding = repair.finding
    BY <1>2 DEF Carries, Follows, Idle, NoRepair, NoFinding
  <2>3. QED BY <1>3, <1>4, <1>5, <2>1, <2>2 DEF Sound, Repairable
<1>8. Lasting'
  BY <1>2, <1>3, CuredNext DEF Lasting, Carries
<1>9. Once'
  <2>1. ~Idle' => done' = done
    BY <1>2 DEF Carries, Idle, NoRepair, NoFinding
  <2>2. QED BY <1>1, <1>3, <1>4, <2>1 DEF Sound, Once, OnceParts
<1>10. QED BY <1>2, <1>6, <1>7, <1>8, <1>9 DEF Sound

(* What a scan finds is there: no repair it leads to is one already done.  *)
LEMMA ScanFinds ==
  ASSUME part \in Parts, Held, Lasting, done \subseteq Cures, NEW answered
  PROVE  LET found == Findings(setting, answered)
         IN  /\ part \in OnceParts => \A f, g \in found \cap Cures : f = g
             /\ part \in OnceParts /\ done # {} => found \cap Cures = {}
             /\ part = "adapter" /\ "dhcp" \in found => setting.admin = "on"
             /\ part = "device" /\ found \cap Cures # {} => setting.problem \in found \cap Cures
<1>1. CASE part = "printing"
  <2>1. Cures = {"queue"}
    BY <1>1 DEF Cures
  <2>2. Findings(setting, answered) = H!PrintingFindings(setting, answered)
    BY <1>1, OfH DEF H!Parts, H!Findings
  <2>3. done # {} => setting.spooler = "running" /\ setting.jobs = "none"
    <3>1. \A g : Cured(g, setting) <=> setting.spooler = "running" /\ setting.jobs = "none"
      BY <1>1 DEF Cured
    <3>2. QED BY <3>1 DEF Lasting
  <2>4. done # {} => H!PrintingFindings(setting, answered) = {}
    BY <2>3 DEF H!PrintingFindings, H!Finding
  <2>5. QED BY <1>1, <2>1, <2>2, <2>4
<1>2. CASE part = "winsxs"
  <2>1. Cures = {"winsxs"}
    BY <1>2 DEF Cures
  <2>2. Findings(setting, answered) = C!ReclaimablePackages(setting, answered)
    BY <1>2, OfC DEF C!Parts, C!Findings
  <2>3. done # {} => setting.packages = 0 \/ setting.note = setting.packages
    <3>1. \A g : Cured(g, setting) <=> setting.packages = 0 \/ setting.note = setting.packages
      BY <1>2 DEF Cured
    <3>2. QED BY <3>1 DEF Lasting
  <2>4. done # {} => C!ReclaimablePackages(setting, answered) = {}
    BY <2>3 DEF C!ReclaimablePackages, C!Finding
  <2>5. QED BY <1>2, <2>1, <2>2, <2>4
<1>3. CASE part = "store"
  <2>1. Cures = {"store"}
    BY <1>3 DEF Cures
  <2>2. Findings(setting, answered) = I!ComponentStore(setting, answered)
    BY <1>3, OfI DEF I!Parts, I!Findings
  <2>3. done # {} => ~setting.marked /\ setting.report \in {{}, {"backups"}}
    <3>1. \A g : Cured(g, setting) <=> ~setting.marked /\ setting.report \in {{}, {"backups"}}
      BY <1>3 DEF Cured
    <3>2. QED BY <3>1 DEF Lasting
  <2>4. done # {} => I!ComponentStore(setting, answered) = {}
    BY <2>3 DEF I!ComponentStore, I!Finding, I!CheckHealth, I!OnlyBackupsLeft
  <2>5. QED BY <1>3, <2>1, <2>2, <2>4
<1>4. CASE part = "device"
  <2>1. Cures = {"restart", "driver"}
    BY <1>4 DEF Cures
  <2>2. Findings(setting, answered) = H!DeviceFindings(setting, answered)
    BY <1>4, OfH DEF H!Parts, H!Findings
  <2>3. done # {} => setting.problem \in Harmless
    <3>1. \A g : Cured(g, setting) <=> setting.problem \in Harmless
      BY <1>4 DEF Cured
    <3>2. QED BY <3>1 DEF Lasting
  <2>4. H!DeviceFindings(setting, answered) \cap Cures \subseteq {setting.problem}
    BY <2>1 DEF H!DeviceFindings, H!Finding
  <2>5. QED BY <1>4, <2>1, <2>2, <2>3, <2>4 DEF Harmless
<1>5. CASE part = "adapter"
  <2>1. Findings(setting, answered) = N!AdapterFindings(setting, answered)
    BY <1>5, OfN DEF N!Parts, N!Findings
  <2>2. "dhcp" \in N!AdapterFindings(setting, answered) => setting.admin = "on"
    BY DEF N!AdapterFindings, N!Resolution, N!DhcpFailed, N!Finding
  <2>3. QED BY <1>5, <2>1, <2>2 DEF OnceParts
<1>6. QED BY <1>1, <1>2, <1>3, <1>4, <1>5 DEF OnceParts

LEMMA ScanChanges ==
  ASSUME part \in Parts, Held, NEW answered
  PROVE  /\ part # "winsxs" => Scanned(setting, answered) = setting
         /\ Items \subseteq DOMAIN Scanned(setting, answered)
         /\ \A f \in Cures : Cured(f, setting) => Cured(f, Scanned(setting, answered))
<1>1. part # "winsxs" => Scanned(setting, answered) = setting
  BY DEF Scanned, C!Scanned
<1>2. CASE part = "winsxs"
  <2>1. Scanned(setting, answered) = C!NoteDropped(setting, answered)
    BY <1>2 DEF Scanned, C!Scanned, C!Parts
  <2>2. {"packages", "note"} \subseteq DOMAIN setting /\ Items = {"packages", "note"}
    BY <1>2 DEF Held, Items
  <2>3. \A f, s : Cured(f, s) <=> s.packages = 0 \/ s.note = s.packages
    BY <1>2 DEF Cured
  <2>4. QED BY <1>2, <2>1, <2>2, <2>3 DEF C!NoteDropped
<1>3. QED BY <1>1, <1>2 DEF Held

LEMMA ScanSound == ASSUME part \in Parts, Sound, Scan PROVE Sound'
<1>1. PICK answered :
        /\ reported' = Findings(setting, answered)
        /\ setting' = Scanned(setting, answered)
        /\ Idle /\ UNCHANGED <<part, repair, before, done>>
  BY DEF Scan
<1>2. done \subseteq Cures /\ Held /\ Lasting
  BY DEF Sound, Repairable
<1>3. Idle' /\ Cures' = Cures /\ Items' = Items /\ About'.advice = About.advice
  BY <1>1, AboutStays DEF Idle
<1>4. Formed' /\ Held'
  BY <1>1, <1>2, <1>3, ScanChanges DEF Sound, Formed, Held
<1>5. Repairable'
  BY <1>1, <1>2, <1>3, FindsOnlyKnown DEF Repairable
<1>6. Lasting'
  <2>1. \A f \in done : Cured(f, setting')
    BY <1>1, <1>2, ScanChanges DEF Lasting
  <2>2. QED BY <1>1, <2>1, CuredNext DEF Lasting
<1>7. Once'
  <2>1. OnceParts' = OnceParts
    BY DEF OnceParts
  <2>2. part \in OnceParts =>
          /\ \A f, g \in reported' \cap Cures : f = g
          /\ done # {} => reported' \cap Cures = {}
    BY <1>1, <1>2, ScanFinds
  <2>3. QED BY <1>1, <1>3, <2>1, <2>2 DEF Once
<1>8. Underway'
  BY <1>3, IdleUnderway, PTL
<1>9. World'
  <2>1. CASE part = "adapter"
    <3>1. setting' = setting
      BY <1>1, <1>2, <2>1, ScanChanges
    <3>2. "dhcp" \in reported' => setting.admin = "on"
      BY <1>1, <1>2, <2>1, ScanFinds
    <3>3. setting.admin \in {"on", "off"}
      BY <2>1 DEF Sound, World
    <3>4. QED BY <1>1, <2>1, <3>1, <3>2, <3>3 DEF World
  <2>2. CASE part = "device"
    <3>1. setting' = setting
      BY <1>1, <1>2, <2>2, ScanChanges
    <3>2. reported' \cap Cures # {} => setting.problem \in reported' \cap Cures
      BY <1>1, <1>2, <2>2, ScanFinds
    <3>3. QED BY <1>1, <1>3, <2>2, <3>1, <3>2 DEF World
  <2>3. CASE part = "winsxs"
    BY <1>1, <2>3 DEF World
  <2>4. CASE part \notin {"adapter", "device", "winsxs"}
    <3>1. setting' = setting
      BY <1>1, <1>2, <2>4, ScanChanges
    <3>2. QED BY <1>1, <2>4, <3>1 DEF Sound, World, Idle
  <2>5. QED BY <2>1, <2>2, <2>3, <2>4
<1>10. QED BY <1>4, <1>5, <1>6, <1>7, <1>8, <1>9 DEF Sound

LEMMA StartSound ==
  ASSUME part \in Parts, Sound, NEW f \in reported, StartRepair(f)
  PROVE  Sound'
<1>1. /\ Idle /\ f \notin About.advice /\ reported' = reported \ {f}
      /\ repair' = [NoRepair EXCEPT !.finding = f]
      /\ before' = setting /\ UNCHANGED <<part, setting, done>>
  BY DEF StartRepair
<1>2. f \in Cures
  BY <1>1 DEF Sound, Repairable
<1>3. Cures' = Cures /\ Items' = Items /\ About'.advice = About.advice
  BY <1>1, AboutStays
<1>4. repair'.finding = f /\ repair'.at = "begin" /\ repair'.left = {} /\ DOMAIN repair' = {"finding", "at", "left", "tries"}
  BY <1>1 DEF NoRepair
<1>5. Formed' /\ Held' /\ Repairable'
  BY <1>1, <1>2, <1>3, <1>4 DEF Sound, Formed, Held, Repairable
<1>6. Lasting'
  BY <1>1, CuredNext DEF Sound, Lasting
<1>7. Once'
  <2>1. part \in OnceParts => done = {} /\ reported' \cap Cures = {}
    BY <1>1, <1>2 DEF Sound, Once
  <2>2. QED BY <1>1, <1>3, <2>1 DEF Once, OnceParts
<1>8. Underway'
  <2>1. part = "adapter" /\ f = "dhcp" => setting.admin = "on"
    BY DEF Sound, World
  <2>2. part = "device" => setting.problem \in {f} \cup Harmless
    <3>1. part = "device" => reported \cap Cures = {f}
      BY <1>2 DEF Sound, Once, OnceParts
    <3>2. QED BY <1>2, <3>1 DEF Sound, World
  <2>3. Harmless' = Harmless
    BY DEF Harmless
  <2>4. QED BY <1>1, <1>4, <2>1, <2>2, <2>3 DEF Underway
<1>9. World'
  <2>1. part = "device" => reported' \cap Cures = {}
    BY <1>1, <1>2 DEF Sound, Once, OnceParts
  <2>2. part \in {"temp", "cache", "delivery", "downloads"} => ~Idle'
    BY <1>2, <1>4, FolderCures DEF Idle, NoRepair, NoFinding
  <2>3. QED BY <1>1, <1>3, <2>1, <2>2 DEF Sound, World
<1>10. QED BY <1>5, <1>6, <1>7, <1>8, <1>9 DEF Sound

LEMMA CancelSound == ASSUME part \in Parts, Sound, Cancel PROVE Sound'
<1>1. PICK s \in Dropped(setting) :
        /\ setting' = s /\ repair' = NoRepair /\ done' = done \ {repair.finding}
        /\ ~Idle /\ UNCHANGED <<part, reported>>
  BY DEF Cancel, End, around
<1>2. Idle' /\ Cures' = Cures /\ Items' = Items /\ About'.advice = About.advice
  BY <1>1, AboutStays DEF Idle
<1>3. repair.finding \in Cures /\ done \subseteq Cures
  BY <1>1 DEF Sound, Repairable
<1>4. \/ s = setting
      \/ part = "printing" /\ s = [setting EXCEPT !.spooler = "running"]
      \/ part \in {"temp", "cache", "delivery", "downloads"} /\ s = [setting EXCEPT ![part] = C!Swept(setting[part])]
      \/ part = "store" /\ DOMAIN s = DOMAIN setting
  <2>1. CASE part \in H!Parts
    BY <1>1, <2>1, OfH DEF H!Dropped
  <2>2. CASE part \in C!Parts
    BY <1>1, <2>2, OfC DEF C!Dropped
  <2>3. CASE part \in I!Parts
    <3>1. s \in I!Dropped(part, setting)
      BY <1>1, <2>3, OfI
    <3>2. CASE part = "store"
      <4>1. PICK t \in {I!Unmounted(setting, repair.left), setting} : s \in {t, [t EXCEPT !.report = I!CutReport]}
        BY <3>1, <3>2 DEF I!Dropped
      <4>2. DOMAIN t = DOMAIN setting
        BY <4>1 DEF I!Unmounted
      <4>3. QED BY <3>2, <4>1, <4>2
    <3>3. CASE part # "store"
      BY <3>1, <3>3 DEF I!Dropped
    <3>4. QED BY <3>2, <3>3
  <2>4. CASE part \notin H!Parts \cup C!Parts \cup I!Parts
    BY <1>1, <2>4 DEF Dropped
  <2>5. QED BY <2>1, <2>2, <2>3, <2>4
<1>5. s = setting \/ done' = {}
  <2>1. part \in {"printing", "temp", "cache", "delivery", "downloads", "store"} => \A f, g \in Cures : f = g
    BY DEF Cures
  <2>2. QED BY <1>1, <1>3, <1>4, <2>1
<1>6. DOMAIN s = DOMAIN setting
  BY <1>4
<1>7. Formed' /\ Held'
  BY <1>1, <1>2, <1>6 DEF Sound, Held, Formed, NoRepair
<1>8. Repairable'
  BY <1>1, <1>2, <1>3 DEF Sound, Repairable
<1>9. Lasting'
  <2>1. \A f \in done' : Cured(f, setting')
    BY <1>1, <1>5 DEF Sound, Lasting
  <2>2. QED BY <1>1, <2>1, CuredNext DEF Lasting
<1>10. Once'
  BY <1>1, <1>2 DEF Sound, Once, OnceParts
<1>11. Underway'
  BY <1>2, IdleUnderway, PTL
<1>12. World'
  <2>1. CASE part \in {"temp", "cache", "delivery", "downloads"}
    <3>1. done' = {}
      BY <1>1, <1>3, <2>1, FolderCures
    <3>2. QED BY <1>1, <2>1, <3>1 DEF World
  <2>2. CASE s = setting /\ part \notin {"temp", "cache", "delivery", "downloads"}
    BY <1>1, <1>2, <2>2 DEF Sound, World, Harmless
  <2>3. CASE part \in {"printing", "store"}
    BY <1>1, <2>3 DEF World
  <2>4. QED BY <1>4, <2>1, <2>2, <2>3
<1>13. QED BY <1>7, <1>8, <1>9, <1>10, <1>11, <1>12 DEF Sound

LEMMA NoneCounted == K!Cardinality({}) = 0 /\ U!Cardinality({}) = 0
<1>1. \A set : K!Cardinality(set) = Cardinality(set) /\ U!Cardinality(set) = Cardinality(set)
  BY DEF K!Cardinality, U!Cardinality, Cardinality
<1>2. QED BY <1>1, FS_EmptySet

(* Of a folder, what can still be found after its repair was held open     *)
(* beside what was deleted.                                                *)
LEMMA FolderDone ==
  ASSUME part \in {"temp", "cache", "delivery", "downloads"}, World, part \in done,
         setting[part] \subseteq C!Held, ~BeyondRepair(part)
  PROVE  ~C!WorthReporting(setting[part])
<1>1. ~(setting[part] \subseteq C!Held /\ (Idle => before[part] \ C!Held # {}))
  BY DEF BeyondRepair
<1>2. "held" \notin setting[part]
  BY <1>1 DEF World
<1>3. QED BY <1>2 DEF C!WorthReporting, C!Held

(* A finding that was put right is not found again, if need be after a     *)
(* restart.                                                                *)
LEMMA NotFoundAgain ==
  ASSUME part \in Parts, Held, World, NEW f \in Cures, f \in done, Cured(f, setting), ~BeyondRepair(f)
  PROVE  f \notin Found(IF f \in About.restart THEN Restarted(setting) ELSE setting)
<1> USE DEF T!Parts, N!Parts, S!Parts, H!Parts, C!Parts, I!Parts, U!Parts, K!Parts, T!AnyPart, N!AnyPart,
            S!AnyPart, H!AnyPart, C!AnyPart, I!AnyPart, U!AnyPart, K!AnyPart, Found, T!Findings,
            N!Findings, S!Findings, H!Findings, C!Findings, I!Findings, U!Findings, K!Findings, T!About,
            N!About, S!About, H!About, C!About, I!About, U!About, K!About
<1> DEFINE later == IF f \in About.restart THEN Restarted(setting) ELSE setting
<1>1. CASE part = "services"
  <2>1. \A s : Found(s) = T!DisabledServices(s, {"auto", "demand", "guarded"})
    BY <1>1, OfT
  <2>2. f \in {"auto", "demand", "guarded"}
    BY <1>1 DEF Cures
  <2>3. About.restart = {"guarded"}
    BY <1>1, OfT
  <2>4. later = IF f = "guarded" /\ setting.start # "absent" THEN [setting EXCEPT !.guarded = setting.start] ELSE setting
    BY <1>1, <2>2, <2>3, OfT DEF T!Restarted
  <2>5. IF f = "guarded" THEN setting.start = "auto" ELSE setting[f] # "disabled"
    BY <1>1 DEF Cured
  <2>6. {"auto", "demand", "guarded", "start"} \subseteq DOMAIN setting
    BY <1>1 DEF Held, Items
  <2>7. f \notin T!DisabledServices(later, {"auto", "demand", "guarded"})
    BY <2>2, <2>5, <2>6, <2>4 DEF T!DisabledServices, T!Finding
  <2>8. QED BY <2>1, <2>7
<1>2. CASE part = "devices"
  <2>1. \A s : Found(s) = T!DisabledDevices(s, {"devices", "chains"})
    BY <1>2, OfT
  <2>2. f \in T!CoreDevices
    BY <1>2 DEF Cures
  <2>4. later = setting
    BY <1>2, OfT
  <2>5. setting[f] # "disabled"
    BY <1>2 DEF Cured, T!CoreDevices
  <2>6. T!CoreDevices \subseteq DOMAIN setting
    BY <1>2 DEF Held, Items
  <2>7. f \notin T!DisabledDevices(later, {"devices", "chains"})
    BY <2>2, <2>5, <2>6, <2>4 DEF T!DisabledDevices, T!CoreDevices, T!Finding
  <2>8. QED BY <2>1, <2>7
<1>3. CASE part = "threshold"
  <2>1. \A s : Found(s) = T!GroupedServices(s, {"threshold"})
    BY <1>3, OfT
  <2>2. f \in {"grouped"}
    BY <1>3 DEF Cures
  <2>3. About.restart = {"grouped"}
    BY <1>3, OfT
  <2>4. later = setting
    BY <1>3, <2>2, <2>3, OfT DEF T!Restarted
  <2>5. (setting.threshold # "raised" /\ setting.memory # "small")
    BY <1>3 DEF Cured, BeyondRepair
  <2>6. {"threshold", "memory"} \subseteq DOMAIN setting
    BY <1>3 DEF Held, Items
  <2>7. f \notin T!GroupedServices(later, {"threshold"})
    BY <2>2, <2>5, <2>6, <2>4 DEF T!GroupedServices, T!KeepsServicesGrouped, T!Finding
  <2>8. QED BY <2>1, <2>7
<1>4. CASE part = "policies"
  <2>1. \A s : Found(s) = T!HarmfulPolicies(s, {"domain", "policies", "edition", "defender"})
    BY <1>4, OfT
  <2>2. f \in T!PolicyIds
    BY <1>4 DEF Cures
  <2>4. later = setting
    BY <1>4, OfT
  <2>5. (T!PolicyHit(f, setting, TRUE) = {} \/ (f = "defender" /\ setting.realtime))
    BY <1>4 DEF Cured
  <2>6. T!PolicyValues \cup {"realtime", "storeEdition"} \subseteq DOMAIN setting
    BY <1>4 DEF Held, Items
  <2>7. f \notin T!HarmfulPolicies(later, {"domain", "policies", "edition", "defender"})
    BY <2>2, <2>5, <2>6, <2>4 DEF T!HarmfulPolicies, T!Judged, T!Finding
  <2>8. QED BY <2>1, <2>7
<1>5. CASE part = "hosts"
  <2>1. \A s : Found(s) = T!BlockingHosts(s, {"hosts"})
    BY <1>5, OfT
  <2>2. f \in {"blocks"}
    BY <1>5 DEF Cures
  <2>4. later = setting
    BY <1>5, OfT
  <2>5. T!HostsBlocks(setting.hosts) = {}
    BY <1>5 DEF Cured
  <2>6. {"hosts"} \subseteq DOMAIN setting
    BY <1>5 DEF Held, Items
  <2>7. f \notin T!BlockingHosts(later, {"hosts"})
    BY <2>2, <2>5, <2>6, <2>4 DEF T!BlockingHosts, T!Finding
  <2>8. QED BY <2>1, <2>7
<1>6. CASE part = "adapter"
  <2>1. \A s : Found(s) = N!AdapterFindings(s, {"addresses", "physical", "servers", "ping", "names"})
    BY <1>6, OfN
  <2>2. f \in {"dhcp", "off", "servers", "names"}
    BY <1>6 DEF Cures
  <2>4. later = setting
    BY <1>6, OfN
  <2>5. (f = "dhcp" => setting.admin = "on" /\ setting.address # "standin") /\ (f = "off" => setting.admin = "on")
        /\ (f = "servers" => setting.dns # "dead") /\ (f = "names" => N!Resolves(setting))
    BY <1>6 DEF Cured
  <2>6. {"admin", "address", "dns", "cache", "other", "router"} \subseteq DOMAIN setting
    BY <1>6 DEF Held, Items
  <2>7. f \notin N!AdapterFindings(later, {"addresses", "physical", "servers", "ping", "names"})
    BY <2>2, <2>5, <2>6, <2>4 DEF N!AdapterFindings, N!Resolution, N!DhcpFailed, N!SwitchedOff, N!DeadStaticDns, N!Resolves, N!Connected, N!IpReachable, N!Finding
  <2>8. QED BY <2>1, <2>7
<1>7. CASE part = "connections"
  <2>1. \A s : Found(s) = N!ConnectionFindings(s, {"user", "winhttp", "catalog"})
    BY <1>7, OfN
  <2>2. f \in {"user", "winhttp", "catalog"}
    BY <1>7 DEF Cures
  <2>3. About.restart = {"catalog"}
    BY <1>7, OfN
  <2>4. later = IF f = "catalog" /\ setting.catalog = "reset" THEN [setting EXCEPT !.catalog = "intact"] ELSE setting
    BY <1>7, <2>2, <2>3, OfN DEF N!Restarted
  <2>5. IF f = "catalog" THEN setting.catalog \in {"reset", "intact"} ELSE setting[f] # "dead"
    BY <1>7 DEF Cured
  <2>6. {"user", "winhttp", "catalog"} \subseteq DOMAIN setting
    BY <1>7 DEF Held, Items
  <2>7. f \notin N!ConnectionFindings(later, {"user", "winhttp", "catalog"})
    BY <2>2, <2>5, <2>6, <2>4 DEF N!ConnectionFindings, N!Finding
  <2>8. QED BY <2>1, <2>7
<1>8. CASE part = "pagefile"
  <2>1. \A s : Found(s) = S!PageFileFindings(s, {"registry", "usage", "settings", "disks"})
    BY <1>8, OfS
  <2>2. f \in {"disabled", "fixedsize"}
    BY <1>8 DEF Cures
  <2>3. About.restart = {"disabled", "fixedsize"}
    BY <1>8, OfS
  <2>4. later = [setting EXCEPT !.active = setting.files # "none"]
    BY <1>8, <2>2, <2>3, OfS DEF S!Restarted
  <2>5. IF f = "disabled" THEN setting.files # "none" ELSE setting.files \notin {"small", "inverted"}
    BY <1>8 DEF Cured
  <2>6. {"files"} \subseteq DOMAIN setting
    BY <1>8 DEF Held, Items
  <2>7. f \notin S!PageFileFindings(later, {"registry", "usage", "settings", "disks"})
    <3>1. later.files = setting.files
      BY <2>4, <2>6
    <3> HIDE DEF later
    <3>2. QED BY <2>2, <2>5, <3>1 DEF S!PageFileFindings, S!NoPageFile, S!FullDrive, S!UnusableSize, S!Finding
  <2>8. QED BY <2>1, <2>7
<1>9. CASE part = "autostart"
  <2>1. \A s : Found(s) = S!OrphanedStarts(s, {"user", "machine"})
    BY <1>9, OfS
  <2>2. f \in {"user", "machine"}
    BY <1>9 DEF Cures
  <2>4. later = setting
    BY <1>9, OfS
  <2>5. S!MissingTargets(setting, f) = {}
    BY <1>9 DEF Cured
  <2>6. S!RunKeys.user \cup S!RunKeys.machine \subseteq DOMAIN setting
    BY <1>9 DEF Held, Items
  <2>7. f \notin S!OrphanedStarts(later, {"user", "machine"})
    BY <2>2, <2>5, <2>6, <2>4 DEF S!OrphanedStarts, S!Finding
  <2>8. QED BY <2>1, <2>7
<1>10. CASE part = "clock"
  <2>1. \A s : Found(s) = S!ClockFindings(s, {"server"})
    BY <1>10, OfS
  <2>2. f \in {"clock"}
    BY <1>10 DEF Cures
  <2>4. later = setting
    BY <1>10, OfS
  <2>5. setting.clock = "right"
    BY <1>10 DEF Cured
  <2>6. {"clock"} \subseteq DOMAIN setting
    BY <1>10 DEF Held, Items
  <2>7. f \notin S!ClockFindings(later, {"server"})
    BY <2>2, <2>5, <2>6, <2>4 DEF S!ClockFindings, S!Finding
  <2>8. QED BY <2>1, <2>7
<1>11. CASE part = "restart"
  <2>1. \A s : Found(s) = S!RestartFindings(s, {"registry"})
    BY <1>11, OfS
  <2>2. f \in {"overdue"}
    BY <1>11 DEF Cures
  <2>3. About.restart = {"overdue"}
    BY <1>11, OfS
  <2>4. later = [setting EXCEPT !.up = "short"]
    BY <1>11, <2>2, <2>3, OfS DEF S!Restarted
  <2>5. TRUE
    BY <1>11 DEF Cured
  <2>6. {"up"} \subseteq DOMAIN setting
    BY <1>11 DEF Held, Items
  <2>7. f \notin S!RestartFindings(later, {"registry"})
    BY <2>2, <2>5, <2>6, <2>4 DEF S!RestartFindings, S!Finding
  <2>8. QED BY <2>1, <2>7
<1>12. CASE part = "opengl"
  <2>1. \A s : Found(s) = H!OpenGlFindings(s, {"devices", "key"})
    BY <1>12, OfH
  <2>2. f \in {"opengl"}
    BY <1>12 DEF Cures
  <2>3. About.restart = {"opengl"}
    BY <1>12, OfH
  <2>4. later = setting
    BY <1>12, <2>2, <2>3, OfH DEF H!Restarted
  <2>5. (setting.card # "works" \/ H!BrokenEntries(setting) = {})
    BY <1>12 DEF Cured, H!Entries
  <2>6. H!Entries \cup {"card"} \subseteq DOMAIN setting
    BY <1>12 DEF Held, Items
  <2>7. f \notin H!OpenGlFindings(later, {"devices", "key"})
    BY <2>2, <2>5, <2>6, <2>4 DEF H!OpenGlFindings, H!Finding
  <2>8. QED BY <2>1, <2>7
<1>13. CASE part = "device"
  <2>1. \A s : Found(s) = H!DeviceFindings(s, {"devices", "build", "policy"})
    BY <1>13, OfH
  <2>2. f \in {"restart", "driver"}
    BY <1>13 DEF Cures
  <2>4. later = setting
    BY <1>13, OfH
  <2>5. setting.problem \in Harmless
    BY <1>13 DEF Cured, Idle
  <2>6. {"problem"} \subseteq DOMAIN setting
    BY <1>13 DEF Held, Items
  <2>7. f \notin H!DeviceFindings(later, {"devices", "build", "policy"})
    BY <2>2, <2>5, <2>6, <2>4 DEF H!DeviceFindings, Harmless, H!Finding
  <2>8. QED BY <2>1, <2>7
<1>14. CASE part = "printing"
  <2>1. \A s : Found(s) = H!PrintingFindings(s, {"start", "state", "jobs"})
    BY <1>14, OfH
  <2>2. f \in {"queue"}
    BY <1>14 DEF Cures
  <2>4. later = setting
    BY <1>14, OfH
  <2>5. (setting.spooler = "running" /\ setting.jobs = "none")
    BY <1>14 DEF Cured
  <2>6. {"spooler", "jobs"} \subseteq DOMAIN setting
    BY <1>14 DEF Held, Items
  <2>7. f \notin H!PrintingFindings(later, {"start", "state", "jobs"})
    BY <2>2, <2>5, <2>6, <2>4 DEF H!PrintingFindings, H!Finding
  <2>8. QED BY <2>1, <2>7
<1>15. CASE part = "whea"
  <2>1. \A s : Found(s) = H!WheaFindings(s, {"events", "test", "aspm"})
    BY <1>15, OfH
  <2>2. f \in {"cpu", "memory", "pcie"}
    BY <1>15 DEF Cures
  <2>3. About.restart = {"cpu", "memory"}
    BY <1>15, OfH
  <2>4. later = IF f # "pcie" /\ setting.test = "scheduled" THEN [setting EXCEPT !.test = IF setting.ram = "good" THEN "passed" ELSE "failed"] ELSE setting
    BY <1>15, <2>2, <2>3, OfH DEF H!Restarted
  <2>5. IF f = "pcie" THEN setting.ac = "off" /\ setting.dc = "off" ELSE setting.ram = "good" /\ setting.test \in {"scheduled", "passed"}
    BY <1>15 DEF Cured, BeyondRepair, H!AspmOff
  <2>6. {"test", "ac", "dc", "ram"} \subseteq DOMAIN setting
    BY <1>15 DEF Held, Items
  <2>7. f \notin H!WheaFindings(later, {"events", "test", "aspm"})
    BY <2>2, <2>5, <2>6, <2>4 DEF H!WheaFindings, H!TestFindings, H!BusFindings, H!FatalFindings, H!AspmOff, H!Finding
  <2>8. QED BY <2>1, <2>7
<1>16. CASE part = "dirty"
  <2>1. \A s : Found(s) = C!DirtyBit(s, {"wmi", "fsutil", "disks"}) \cup C!SmartWarning(s, {"wmi", "fsutil", "disks"})
    BY <1>16, OfC
  <2>2. f \in {"dirty"}
    BY <1>16 DEF Cures
  <2>3. About.restart = {"dirty"}
    BY <1>16, OfC
  <2>4. later = [setting EXCEPT !.dirty = FALSE, !.errors = "none"]
    BY <1>16, <2>2, <2>3, OfC DEF C!Restarted
  <2>5. TRUE
    BY <1>16 DEF Cured
  <2>6. {"dirty"} \subseteq DOMAIN setting
    BY <1>16 DEF Held, Items
  <2>7. f \notin C!DirtyBit(later, {"wmi", "fsutil", "disks"}) \cup C!SmartWarning(later, {"wmi", "fsutil", "disks"})
    BY <2>2, <2>5, <2>6, <2>4 DEF C!DirtyBit, C!SmartWarning, C!Finding
  <2>8. QED BY <2>1, <2>7
<1>17. CASE part = "icons"
  <2>0. About = C!AnyPart
    BY <1>17, OfC
  <2>1. \A s : Found(s) = C!IconCache(s, {})
    BY <1>17, <2>0, OfC
  <2>2. f \in {"icons"}
    BY <1>17 DEF Cures
  <2>4. later = setting
    BY <2>0
  <2>5. setting.icons = "small"
    BY <1>17 DEF Cured
  <2>6. {"icons"} \subseteq DOMAIN setting
    BY <1>17 DEF Held, Items
  <2>7. f \notin C!IconCache(later, {})
    BY <2>2, <2>5, <2>6, <2>4 DEF C!IconCache, C!Finding
  <2>8. QED BY <2>1, <2>7
<1>18. CASE part = "temp"
  <2>0. About = C!AnyPart
    BY <1>18, OfC
  <2>1. \A s : Found(s) = C!TempBloat(s)
    BY <1>18, <2>0, OfC
  <2>2. f \in {"temp"}
    BY <1>18 DEF Cures
  <2>4. later = setting
    BY <2>0
  <2>5. setting.temp \subseteq C!Held
    BY <1>18 DEF Cured
  <2>6. ~C!WorthReporting(setting.temp)
    BY <1>18, <2>2, <2>5, FolderDone
  <2>7. f \notin C!TempBloat(later)
    BY <2>4, <2>6 DEF C!TempBloat, C!Finding
  <2>8. QED BY <2>1, <2>7
<1>19. CASE part = "cache"
  <2>0. About = C!AnyPart
    BY <1>19, OfC
  <2>1. \A s : Found(s) = C!CacheFindings("cache", s)
    BY <1>19, <2>0, OfC
  <2>2. f \in {"cache"}
    BY <1>19 DEF Cures
  <2>4. later = setting
    BY <2>0
  <2>5. setting.cache \subseteq C!Held
    BY <1>19 DEF Cured
  <2>6. ~C!WorthReporting(setting.cache)
    BY <1>19, <2>2, <2>5, FolderDone
  <2>7. f \notin C!CacheFindings("cache", later)
    BY <2>4, <2>6 DEF C!CacheFindings, C!Finding
  <2>8. QED BY <2>1, <2>7
<1>20. CASE part = "delivery"
  <2>0. About = C!AnyPart
    BY <1>20, OfC
  <2>1. \A s : Found(s) = C!CacheFindings("delivery", s)
    BY <1>20, <2>0, OfC
  <2>2. f \in {"delivery"}
    BY <1>20 DEF Cures
  <2>4. later = setting
    BY <2>0
  <2>5. setting.delivery \subseteq C!Held
    BY <1>20 DEF Cured
  <2>6. ~C!WorthReporting(setting.delivery)
    BY <1>20, <2>2, <2>5, FolderDone
  <2>7. f \notin C!CacheFindings("delivery", later)
    BY <2>4, <2>6 DEF C!CacheFindings, C!Finding
  <2>8. QED BY <2>1, <2>7
<1>21. CASE part = "downloads"
  <2>0. About = C!AnyPart
    BY <1>21, OfC
  <2>1. \A s : Found(s) = C!UpdateCacheBloat(s)
    BY <1>21, <2>0, OfC
  <2>2. f \in {"downloads"}
    BY <1>21 DEF Cures
  <2>4. later = setting
    BY <2>0
  <2>5. setting.downloads \subseteq C!Held
    BY <1>21 DEF Cured
  <2>6. ~C!WorthReporting(setting.downloads)
    BY <1>21, <2>2, <2>5, FolderDone
  <2>7. f \notin C!UpdateCacheBloat(later)
    BY <2>4, <2>6 DEF C!UpdateCacheBloat, C!Finding
  <2>8. QED BY <2>1, <2>7
<1>22. CASE part = "logs"
  <2>0. About = C!AnyPart
    BY <1>22, OfC
  <2>1. \A s : Found(s) = C!SetupLogs(s, {})
    BY <1>22, <2>0, OfC
  <2>2. f \in {"logs"}
    BY <1>22 DEF Cures
  <2>4. later = setting
    BY <2>0
  <2>5. "log" \notin setting.logs
    BY <1>22 DEF Cured
  <2>6. {"logs"} \subseteq DOMAIN setting
    BY <1>22 DEF Held, Items
  <2>7. f \notin C!SetupLogs(later, {})
    BY <2>2, <2>5, <2>6, <2>4 DEF C!SetupLogs, C!IsReclaimableLog, C!Finding
  <2>8. QED BY <2>1, <2>7
<1>23. CASE part = "bin"
  <2>0. About = C!AnyPart
    BY <1>23, OfC
  <2>1. \A s : Found(s) = C!RecycleBin(s, {})
    BY <1>23, <2>0, OfC
  <2>2. f \in {"bin"}
    BY <1>23 DEF Cures
  <2>4. later = setting
    BY <2>0
  <2>5. (\A d \in C!Drives : "item" \notin setting[d])
    BY <1>23 DEF Cured, C!Drives
  <2>6. C!Drives \subseteq DOMAIN setting
    BY <1>23 DEF Held, Items
  <2>7. f \notin C!RecycleBin(later, {})
    BY <2>2, <2>5, <2>6, <2>4 DEF C!RecycleBin, C!Drives, C!Finding
  <2>8. QED BY <2>1, <2>7
<1>24. CASE part = "winsxs"
  <2>1. \A s : Found(s) = C!ReclaimablePackages(s, {"store"})
    BY <1>24, OfC
  <2>2. f \in {"winsxs"}
    BY <1>24 DEF Cures
  <2>4. later = setting
    BY <1>24, OfC
  <2>5. (setting.packages = 0 \/ setting.note = setting.packages)
    BY <1>24 DEF Cured
  <2>6. {"packages", "note"} \subseteq DOMAIN setting
    BY <1>24 DEF Held, Items
  <2>7. f \notin C!ReclaimablePackages(later, {"store"})
    <3>1. ~(setting.packages > 0 /\ setting.note # setting.packages)
      BY <2>5
    <3>2. C!ReclaimablePackages(setting, {"store"}) = {}
      BY <3>1 DEF C!ReclaimablePackages, C!Finding
    <3>3. QED BY <2>4, <3>2
  <2>8. QED BY <2>1, <2>7
<1>25. CASE part = "store"
  <2>1. \A s : Found(s) = I!ComponentStore(s, {"dism"})
    BY <1>25, OfI
  <2>2. f \in {"store"}
    BY <1>25 DEF Cures
  <2>4. later = setting
    BY <1>25, OfI
  <2>5. (~setting.marked /\ setting.report \in {{}, {"backups"}})
    BY <1>25 DEF Cured
  <2>6. {"damage", "report", "marked", "isos"} \subseteq DOMAIN setting
    BY <1>25 DEF Held, Items
  <2>7. f \notin I!ComponentStore(later, {"dism"})
    BY <2>2, <2>5, <2>6, <2>4 DEF I!ComponentStore, I!CheckHealth, I!OnlyBackupsLeft, I!Finding
  <2>8. QED BY <2>1, <2>7
<1>26. CASE part = "sfc"
  <2>0. About = I!AnyPart
    BY <1>26, OfI
  <2>1. \A s : Found(s) = I!SfcEvidence(s, {})
    BY <1>26, <2>0, OfI
  <2>2. f \in {"sfc"}
    BY <1>26 DEF Cures
  <2>4. later = setting
    BY <2>0
  <2>5. (setting.left = {} /\ ~setting.summary)
    BY <1>26 DEF Cured
  <2>6. {"left", "summary"} \subseteq DOMAIN setting
    BY <1>26 DEF Held, Items
  <2>7. f \notin I!SfcEvidence(later, {})
    BY <2>2, <2>5, <2>6, <2>4 DEF I!SfcEvidence, I!LogEvidence, I!Finding
  <2>8. QED BY <2>1, <2>7
<1>27. CASE part = "vss"
  <2>1. \A s : Found(s) = I!VssDisabled(s, {"sc"})
    BY <1>27, OfI
  <2>2. f \in {"vss"}
    BY <1>27 DEF Cures
  <2>4. later = setting
    BY <1>27, OfI
  <2>5. setting.vss # "disabled"
    BY <1>27 DEF Cured
  <2>6. {"vss"} \subseteq DOMAIN setting
    BY <1>27 DEF Held, Items
  <2>7. f \notin I!VssDisabled(later, {"sc"})
    BY <2>2, <2>5, <2>6, <2>4 DEF I!VssDisabled, I!Finding
  <2>8. QED BY <2>1, <2>7
<1>28. CASE part = "winre"
  <2>0. About = I!AnyPart
    BY <1>28, OfI
  <2>1. \A s : Found(s) = I!WinReDisabled(s, {})
    BY <1>28, <2>0, OfI
  <2>2. f \in {"winre"}
    BY <1>28 DEF Cures
  <2>4. later = setting
    BY <2>0
  <2>5. setting.winre = "on"
    BY <1>28 DEF Cured
  <2>6. {"winre"} \subseteq DOMAIN setting
    BY <1>28 DEF Held, Items
  <2>7. f \notin I!WinReDisabled(later, {})
    BY <2>2, <2>5, <2>6, <2>4 DEF I!WinReDisabled, I!Finding
  <2>8. QED BY <2>1, <2>7
<1>29. CASE part = "wmi"
  <2>1. \A s : Found(s) = I!WmiFailures(s, {"probe"})
    BY <1>29, OfI
  <2>2. f \in {"wmi"}
    BY <1>29 DEF Cures
  <2>4. later = setting
    BY <1>29, OfI
  <2>5. setting.failing = {}
    BY <1>29 DEF Cured
  <2>6. {"failing"} \subseteq DOMAIN setting
    BY <1>29 DEF Held, Items
  <2>7. f \notin I!WmiFailures(later, {"probe"})
    BY <2>2, <2>5, <2>6, <2>4 DEF I!WmiFailures, I!Finding
  <2>8. QED BY <2>1, <2>7
<1>30. CASE part = "apps"
  <2>1. \A s : Found(s) = I!AppPackages(s, {"packages"})
    BY <1>30, OfI
  <2>2. f \in {"apps"}
    BY <1>30 DEF Cures
  <2>4. later = setting
    BY <1>30, OfI
  <2>5. I!BrokenPackages(setting) = {}
    BY <1>30 DEF Cured
  <2>6. {} \subseteq DOMAIN setting
    BY <1>30 DEF Held, Items
  <2>7. f \notin I!AppPackages(later, {"packages"})
    BY <2>2, <2>5, <2>6, <2>4 DEF I!AppPackages, I!Finding
  <2>8. QED BY <2>1, <2>7
<1>31. CASE part = "tasks"
  <2>1. \A s : Found(s) = U!TaskFindings(s, {"inventory"})
    BY <1>31, OfU
  <2>2. f \in {"orphaned", "failing"} \X U!TaskOwners
    BY <1>31 DEF Cures
  <2>4. later = setting
    BY <1>31, OfU
  <2>5. ~setting[f[2]].enabled
    BY <1>31 DEF Cured
  <2>6. U!TaskOwners \subseteq DOMAIN setting
    BY <1>31 DEF Held, Items
  <2>7. f \notin U!TaskFindings(later, {"inventory"})
    <3>1. PICK kind \in {"orphaned", "failing"}, o \in U!TaskOwners : f = <<kind, o>>
      BY <2>2
    <3>2. ~setting[o].enabled
      BY <2>5, <3>1
    <3>3. ~U!Orphaned(setting, o) /\ ~U!Failing(setting, o)
      BY <3>2 DEF U!Orphaned, U!Failing
    <3>4. f \notin U!TaskFindings(setting, {"inventory"})
      BY <3>1, <3>3 DEF U!TaskFindings
    <3>5. QED BY <2>4, <3>4
  <2>8. QED BY <2>1, <2>7
<1>32. CASE part = "updates"
  <2>1. \A s : Found(s) = U!UpdateFindings(s, {"events"})
    BY <1>32, OfU
  <2>2. f \in {"reset"}
    BY <1>32 DEF Cures
  <2>3. About.restart = {"reset"}
    BY <1>32, OfU
  <2>4. later = U!NextUpdate(setting)
    BY <1>32, <2>2, <2>3, OfU DEF U!Restarted
  <2>5. TRUE
    BY <1>32 DEF Cured
  <2>6. {"log"} \subseteq DOMAIN setting
    BY <1>32 DEF Held, Items
  <2>7. f \notin U!UpdateFindings(later, {"events"})
    <3>1. later.log = [i \in 1..4 |-> IF i < 4 THEN setting.log[i + 1] ELSE "installed"]
      BY <2>4, <2>6 DEF U!NextUpdate
    <3> HIDE DEF later
    <3>2. 4 \in DOMAIN later.log /\ later.log[4] = "installed" /\ \A i \in DOMAIN later.log : 4 >= i
      BY <3>1
    <3>3. U!SinceInstall(later.log) = {}
      BY <3>2 DEF U!SinceInstall
    <3>4. \A u : {i \in U!SinceInstall(later.log) : later.log[i] = u} = {}
      BY <3>3
    <3>5. \A u : U!Cardinality({i \in U!SinceInstall(later.log) : later.log[i] = u}) = 0
      BY <3>4, NoneCounted, Zenon
    <3>6. ~(0 >= 2)
      OBVIOUS
    <3>7. U!FailingUpdates(later.log) = {}
      BY <3>5, <3>6 DEF U!FailingUpdates
    <3>8. U!UpdateFindings(later, {"events"}) = {}
      BY <3>7 DEF U!UpdateFindings
    <3>9. QED BY <3>8
  <2>8. QED BY <2>1, <2>7
<1>33. CASE part = "updateservice"
  <2>1. \A s : Found(s) = U!ServiceDisabled(s, {"sc"})
    BY <1>33, OfU
  <2>2. f \in {"service"}
    BY <1>33 DEF Cures
  <2>4. later = setting
    BY <1>33, OfU
  <2>5. setting.start # "disabled"
    BY <1>33 DEF Cured
  <2>6. {"start"} \subseteq DOMAIN setting
    BY <1>33 DEF Held, Items
  <2>7. f \notin U!ServiceDisabled(later, {"sc"})
    BY <2>2, <2>5, <2>6, <2>4 DEF U!ServiceDisabled, U!Finding
  <2>8. QED BY <2>1, <2>7
<1>34. CASE part = "reboot"
  <2>1. \A s : Found(s) = U!PendingReboot(s, {})
    BY <1>34, OfU
  <2>2. f \in {}
    BY <1>34 DEF Cures
  <2>3. About.restart = {"reboot"}
    BY <1>34, OfU
  <2>4. later = U!Booted(setting)
    BY <1>34, <2>2, <2>3, OfU DEF U!Restarted
  <2>5. TRUE
    BY <1>34 DEF Cured
  <2>6. {"cbs", "wu"} \subseteq DOMAIN setting
    BY <1>34 DEF Held, Items
  <2>7. f \notin U!PendingReboot(later, {})
    BY <2>2, <2>5, <2>6, <2>4 DEF U!PendingReboot, U!Finding
  <2>8. QED BY <2>1, <2>7
<1>35. CASE part = "bluescreen"
  <2>1. \A s : Found(s) = K!CrashFindings(s, {"crashes", "test", "changes"})
    BY <1>35, OfK
  <2>2. f \in {"memory"}
    BY <1>35 DEF Cures
  <2>3. About.restart = {"memory"}
    BY <1>35, OfK
  <2>4. later = K!Tested(setting)
    BY <1>35, <2>2, <2>3, OfK DEF K!Restarted
  <2>5. setting.ram = "good" /\ setting.time # "unknown" =>
          setting.test = "scheduled" \/ (setting.test = "passed" /\ setting.time = "before")
    BY <1>35 DEF Cured
  <2>6. {"test", "time", "ram"} \subseteq DOMAIN setting
    BY <1>35 DEF Held, Items
  <2>7. f \notin K!CrashFindings(later, {"crashes", "test", "changes"})
    <3>0. setting.ram = "good" /\ setting.time # "unknown"
      BY <1>35 DEF BeyondRepair
    <3>1. later.test = "passed" /\ later.time = "before"
      BY <2>4, <2>5, <2>6, <3>0 DEF K!Tested
    <3> HIDE DEF later
    <3>2. f = "memory" /\ \A c \in DOMAIN K!Advice : K!Advice[c] # "memory"
      BY <2>2 DEF K!Advice
    <3> DEFINE all == {"crashes", "test", "changes"}
    <3>3. K!MemoryTestFinding(later, all) = "memoryadvice"
      BY <3>1 DEF K!MemoryTestFinding
    <3>4. f \notin K!Finding("changed", K!Changed(later, all))
      BY <3>2 DEF K!Finding
    <3>5. QED BY <3>2, <3>3, <3>4 DEF K!CrashFindings
  <2>8. QED BY <2>1, <2>7
<1>36. CASE part = "dumps"
  <2>0. About = K!AnyPart
    BY <1>36, OfK
  <2>1. \A s : Found(s) = K!StaleDumps(s, {})
    BY <1>36, <2>0, OfK
  <2>2. f \in {"dumps"}
    BY <1>36 DEF Cures
  <2>4. later = setting
    BY <2>0
  <2>5. setting.old = {}
    BY <1>36 DEF Cured
  <2>6. {"old"} \subseteq DOMAIN setting
    BY <1>36 DEF Held, Items
  <2>7. f \notin K!StaleDumps(later, {})
    <3>1. K!Cardinality(setting.old) = 0 /\ ~(0 > 1)
      BY <2>5, NoneCounted
    <3>2. K!StaleDumps(setting, {}) = {}
      BY <3>1 DEF K!StaleDumps, K!TooMany, K!Finding
    <3>3. QED BY <2>4, <3>2
  <2>8. QED BY <2>1, <2>7
<1>37. CASE part = "addon"
  <2>1. \A s : Found(s) = K!ShellExtensions(s, {"crashes", "registry"})
    BY <1>37, OfK
  <2>2. f \in {"addon"}
    BY <1>37 DEF Cures
  <2>4. later = setting
    BY <1>37, OfK
  <2>5. K!LeftToBlock(setting) = {}
    BY <1>37 DEF Cured
  <2>6. {"blocked", "registered"} \subseteq DOMAIN setting
    BY <1>37 DEF Held, Items
  <2>7. f \notin K!ShellExtensions(later, {"crashes", "registry"})
    BY <2>2, <2>5, <2>6, <2>4 DEF K!ShellExtensions, K!Finding
  <2>8. QED BY <2>1, <2>7
<1>38. QED BY <1>1, <1>2, <1>3, <1>4, <1>5, <1>6, <1>7, <1>8, <1>9, <1>10, <1>11, <1>12, <1>13, <1>14, <1>15, <1>16, <1>17, <1>18, <1>19, <1>20, <1>21, <1>22, <1>23, <1>24, <1>25, <1>26, <1>27, <1>28, <1>29, <1>30, <1>31, <1>32, <1>33, <1>34, <1>35, <1>36, <1>37 DEF Parts

LEMMA InitSound == ASSUME Init PROVE part \in Parts /\ Sound
<1>1. part \in Parts /\ setting \in Begin(part) /\ reported = {} /\ done = {} /\ repair = NoRepair
  BY LookedAssumption DEF Init
<1>2. Held /\ World
  BY <1>1, BeginsSound
<1>3. Idle
  BY <1>1 DEF Idle
<1>4. Formed
  BY <1>1 DEF Formed, NoRepair
<1>5. Repairable /\ Lasting /\ Once
  BY <1>1, <1>3 DEF Repairable, Lasting, Once
<1>6. QED BY <1>1, <1>2, <1>3, <1>4, <1>5, IdleUnderway DEF Sound

LEMMA UnchangedSound == ASSUME Sound, UNCHANGED vars PROVE Sound'
<1>1. UNCHANGED <<part, config, setting, saved, reported, repair, count, report, before, first, done>>
  BY DEF vars
<1>2. About'.advice = About.advice /\ Cures' = Cures /\ Items' = Items
  BY <1>1, AboutStays
<1>3. Formed' /\ Held' /\ Repairable' /\ Once'
  BY <1>1, <1>2 DEF Sound, Formed, Held, Repairable, Once, OnceParts, Idle
<1>4. Lasting'
  BY <1>1, CuredNext DEF Sound, Lasting
<1>5. Underway'
  BY <1>1 DEF Sound, Underway, Idle, Harmless
<1>6. World'
  BY <1>1, <1>2 DEF Sound, World, Harmless, Idle
<1>7. QED BY <1>3, <1>4, <1>5, <1>6 DEF Sound

LEMMA NextSound == ASSUME part \in Parts, Sound, [Next]_vars PROVE Sound'
<1>1. CASE Scan
  BY <1>1, ScanSound
<1>2. CASE \E f \in reported : StartRepair(f)
  BY <1>2, StartSound
<1>3. CASE Fix
  BY <1>3, FixSound
<1>4. CASE Cancel
  BY <1>4, CancelSound
<1>5. CASE Restart \/ SomebodyElse
  BY <1>5, BecomesSound
<1>6. CASE UNCHANGED vars
  BY <1>6, UnchangedSound
<1>7. QED BY <1>1, <1>2, <1>3, <1>4, <1>5, <1>6 DEF Next

LEMMA OnlyRestartClearsAdvice ==
  ASSUME part \in Parts, part # "reboot"
  PROVE  About.advice \cap About.restart = {}
<1> USE DEF T!Parts, N!Parts, S!Parts, H!Parts, C!Parts, I!Parts, U!Parts, K!Parts, T!AnyPart, N!AnyPart,
            S!AnyPart, H!AnyPart, C!AnyPart, I!AnyPart, U!AnyPart, K!AnyPart
<1>1. CASE part \in T!Parts
  BY <1>1, OfT DEF T!About
<1>2. CASE part \in N!Parts
  BY <1>2, OfN DEF N!About
<1>3. CASE part \in S!Parts
  <2>1. About = S!About(part)
    BY <1>3, OfS
  <2>2. CASE part = "pagefile"
    BY <2>1, <2>2 DEF S!About
  <2>3. CASE part = "autostart"
    BY <2>1, <2>3 DEF S!About
  <2>4. CASE part = "clock"
    BY <2>1, <2>4 DEF S!About
  <2>5. CASE part = "restart"
    BY <2>1, <2>5 DEF S!About
  <2>6. QED BY <1>3, <2>2, <2>3, <2>4, <2>5
<1>4. CASE part \in H!Parts
  BY <1>4, OfH DEF H!About
<1>5. CASE part \in C!Parts
  <2>1. CASE part = "dirty"
    BY <2>1, OfC DEF C!About
  <2>2. CASE part = "winsxs"
    BY <2>2, OfC DEF C!About
  <2>3. CASE part \notin {"dirty", "winsxs"}
    <3>1. About = C!AnyPart
      BY <1>5, <2>3, OfC DEF C!About
    <3>2. QED BY <3>1
  <2>4. QED BY <2>1, <2>2, <2>3
<1>6. CASE part \in I!Parts
  <2>1. CASE part = "store"
    BY <2>1, OfI DEF I!About
  <2>2. CASE part = "vss"
    BY <2>2, OfI DEF I!About
  <2>3. CASE part = "wmi"
    BY <2>3, OfI DEF I!About
  <2>4. CASE part = "apps"
    BY <2>4, OfI DEF I!About
  <2>5. CASE part \notin {"store", "vss", "wmi", "apps"}
    <3>1. About = I!AnyPart
      BY <1>6, <2>5, OfI DEF I!About
    <3>2. QED BY <3>1
  <2>6. QED BY <2>1, <2>2, <2>3, <2>4, <2>5
<1>7. CASE part \in U!Parts
  <2>1. CASE part \in {"tasks", "updateservice"}
    <3>1. About.advice = {}
      BY <2>1, OfU DEF U!About
    <3>2. QED BY <3>1
  <2>2. CASE part = "updates"
    <3>1. About.advice = {"advice"} /\ About.restart \subseteq {"reset"}
      BY <2>2, OfU, AdviceIs DEF U!About
    <3>2. QED BY <3>1
  <2>3. QED BY <1>7, <2>1, <2>2
<1>8. CASE part \in K!Parts
  <2>1. CASE part = "bluescreen"
    BY <2>1, OfK DEF K!About
  <2>2. CASE part = "dumps"
    BY <2>2, OfK DEF K!About
  <2>3. CASE part = "addon"
    <3>1. About.advice = {}
      BY <2>3, OfK DEF K!About
    <3>2. QED BY <3>1
  <2>4. QED BY <1>8, <2>1, <2>2, <2>3
<1>9. QED BY <1>1, <1>2, <1>3, <1>4, <1>5, <1>6, <1>7, <1>8 DEF Parts

LEMMA AStartFinishes ==
  ASSUME part = "reboot", Held
  PROVE  "reboot" \notin Found(Restarted(setting))
<1>1. Found(Restarted(setting)) = U!PendingReboot(U!Booted(setting), About.queries)
  BY OfU DEF Found, U!Parts, U!Findings, U!Restarted
<1>2. {"cbs", "wu"} \subseteq DOMAIN setting
  BY DEF Held, Items
<1>3. QED BY <1>1, <1>2 DEF U!PendingReboot, U!Booted, U!Finding

LEMMA SoundRepairs == ASSUME part \in Parts, Sound PROVE RepairedStaysRepaired
<1>1. Held /\ World /\ done \subseteq Cures /\ \A f \in done : Cured(f, setting)
  BY DEF Sound, Repairable, Lasting
<1>2. \A f \in done : f \in Found(Later(f)) => BeyondRepair(f)
  BY <1>1, NotFoundAgain DEF Later
<1>3. \A f \in About.advice \cap About.restart : f \notin Found(Later(f))
  <2>1. CASE part = "reboot"
    <3>1. About.advice = {"reboot"}
      BY <2>1, AdviceIs
    <3>2. QED BY <1>1, <2>1, <3>1, AStartFinishes DEF Later
  <2>2. CASE part # "reboot"
    BY <2>2, OnlyRestartClearsAdvice
  <2>3. QED BY <2>1, <2>2
<1>4. QED BY <1>2, <1>3 DEF RepairedStaysRepaired

(* A finding a repair reported done, and advice a restart clears, is not   *)
(* found by a scan that hears every answer, whatever was repaired, undone, *)
(* cancelled or put right by somebody else since, and however many repairs *)
(* there were (docs/how-it-works.md, "A repaired finding stays repaired"), *)
(* except where BeyondRepair says that a repair may be done and what it    *)
(* was for still there. A repair that could not tell is "unproved" and     *)
(* leaves nothing in done; the updates are judged by the next update.      *)
THEOREM RepairedFindingsStayRepaired == Spec => []RepairedStaysRepaired
<1>1. Init => part \in Parts /\ Sound
  BY InitSound
<1>2. part \in Parts /\ Sound /\ [Next]_vars => (part \in Parts /\ Sound)'
  BY NextSound, PartStays
<1>3. part \in Parts /\ Sound => RepairedStaysRepaired
  BY SoundRepairs
<1>4. QED BY <1>1, <1>2, <1>3, PTL DEF Spec

---------------------------------------------------------------------------
(* Places of a repair before its first change.                             *)
Early == {"begin", "backup", "key", "known"} \cup (IF part = "clock" THEN {"state"} ELSE {})

(* What else is true of Windows when a check finds f, which the repair of  *)
(* f does not look at again, and what it does look at.                     *)
Holds(f, s) ==
  /\ part = "services" /\ f = "guarded" => s.guarded = "disabled"
  /\ part = "policies" => ~s.domain
  /\ part = "restart" => s.up = "long"

Wrong(f, s) ==
  /\ part = "devices" => s[f] = "disabled"
  /\ part = "threshold" => T!KeepsServicesGrouped(s)
  /\ part = "policies" => T!PolicyHit(f, s, TRUE) # {}
  /\ part = "hosts" => T!HostsBlocks(s.hosts) # {}
  /\ part = "adapter" /\ f = "dhcp" => N!DhcpFailed(s)
  /\ part = "adapter" /\ f = "off" => s.admin = "off"
  /\ part = "autostart" => S!MissingTargets(s, f) # {}
  /\ part = "restart" => S!FastStartup(s)
  /\ part = "opengl" =>
       s.card = "works" /\ H!BrokenEntries(s) # {} /\ H!BrokenEntries(s) \subseteq s.beside
  /\ part = "device" => s.problem = f
  /\ part = "apps" => I!BrokenPackages(s) # {}
  /\ part = "addon" => s.crashed

(* What a repair under way has left to do.                                 *)
Lefts ==
  /\ part \in {"downloads", "updates"} /\ ~config.auto_restart_services => repair.at = "begin"
  /\ part = "opengl" /\ repair.at = "key" => before.card = "works"
  /\ part = "opengl" /\ repair.at \in {"backup", "set"} =>
       /\ repair.left # {} /\ repair.left \subseteq H!BrokenEntries(before)
       /\ repair.left = H!BrokenEntries(before) => setting = before
  /\ part = "autostart" /\ repair.at \in {"backup", "delete"} =>
       repair.left \subseteq S!MissingTargets(before, repair.finding)
  /\ part = "policies" /\ repair.at \in {"backup", "delete"} =>
       repair.left \subseteq T!Touches("policies", repair.finding)
  /\ part = "policies" /\ repair.at = "wait" => repair.finding = "defender"
  /\ part = "apps" /\ repair.at = "register" => repair.left \subseteq I!BrokenPackages(before)
  /\ part = "addon" /\ repair.at \in {"backup", "block"} => repair.left \subseteq before.registered
  /\ part = "store" =>
       /\ repair.at # "media" => setting.isos = before.isos
       /\ repair.at = "search" => repair.left \in {before.isos, I!Isos}
       /\ repair.at = "media" => setting.isos = I!Isos /\ repair.left = before.isos

Upright ==
  ~Idle =>
    /\ repair.at \in Early => setting = before
    /\ Kept(repair.finding, setting) = Kept(repair.finding, before)
    /\ Holds(repair.finding, before)
    /\ ~Wrong(repair.finding, before) => setting = before /\ repair.at \in {"begin", "key", "flush"}
    /\ Lefts

(* What the settings of a part hold at any time.                           *)
KeptItems ==
  CASE part = "services" -> {"guarded"}
    [] part = "policies" -> {"domain"}
    [] part = "hosts" -> {"hosts"}
    [] part = "restart" -> {"up"}
    [] part = "dirty" -> {"worn"}
    [] part = "logs" -> {"logs"}
    [] part = "winsxs" -> {"stuck"}
    [] part = "store" -> {"damage", "report", "marked", "isos"}
    [] part = "sfc" -> {"stuck"}
    [] part = "bluescreen" -> {"crashes"}
    [] part = "dumps" -> {"recent"}
    [] part = "addon" -> {"blocked"}
    [] OTHER -> {}

Rooms ==
  /\ KeptItems \subseteq DOMAIN setting
  /\ part = "restart" => setting.up \in {"short", "long"}
  /\ part = "store" => setting.isos \subseteq I!Isos

WellMade ==
  /\ Formed /\ Repairable /\ Rooms
  /\ \A f \in reported \cap Cures : Holds(f, setting)

---------------------------------------------------------------------------
(* A step of a repair is before its first change, or after it; what ends   *)
(* with the word that nothing was changed ends as it began.                *)
Moves ==
  \/ \E place : GoesTo(place) /\ (place \notin Early \/ (repair.at \in Early /\ setting' = setting))
  \/ \E how : Ends(how) /\ (how = "unchanged" => setting' = before \/ "late" \in Lapses)

(* It changes nothing but what the repair is for.                          *)
Spares ==
  /\ DOMAIN setting' = DOMAIN setting
  /\ \A i \in DOMAIN setting \ Touches(repair.finding) : setting'[i] = setting[i]

(* It changes nothing when nothing was wrong any more.                     *)
Heeds ==
  ~Wrong(repair.finding, before) =>
    /\ setting' = before
    /\ repair' = NoRepair \/ repair'.at \in {"key", "flush"}

Leads == repair' # NoRepair => Lefts'

Behaves ==
  /\ Moves /\ Heeds /\ Leads
  /\ DOMAIN setting' = DOMAIN setting
  /\ Kept(repair.finding, setting') = Kept(repair.finding, before)
  /\ repair' = NoRepair => Lent(setting') = Lent(before) \/ "unsaid" \in Lapses
  /\ Rooms'
  /\ \A f : Holds(f, setting) => Holds(f, setting')

(* What the check of each part asks.                                       *)
Asked ==
  CASE part = "services" -> {"auto", "demand", "guarded"}
    [] part = "devices" -> {"devices", "chains"}
    [] part = "threshold" -> {"threshold"}
    [] part = "policies" -> {"domain", "policies", "edition", "defender"}
    [] part = "hosts" -> {"hosts"}
    [] part = "adapter" -> {"addresses", "physical", "servers", "ping", "names"}
    [] part = "connections" -> {"user", "winhttp", "catalog"}
    [] part = "pagefile" -> {"registry", "usage", "settings", "disks"}
    [] part = "autostart" -> {"user", "machine"}
    [] part = "clock" -> {"server"}
    [] part = "restart" -> {"registry"}
    [] part = "opengl" -> {"devices", "key"}
    [] part = "device" -> {"devices", "build", "policy"}
    [] part = "printing" -> {"start", "state", "jobs"}
    [] part = "whea" -> {"events", "test", "aspm"}
    [] part = "dirty" -> {"wmi", "fsutil", "disks"}
    [] part = "winsxs" -> {"store"}
    [] part = "store" -> {"dism"}
    [] part = "vss" -> {"sc"}
    [] part = "wmi" -> {"probe"}
    [] part = "apps" -> {"packages"}
    [] part = "tasks" -> {"inventory"}
    [] part = "updates" -> {"events"}
    [] part = "updateservice" -> {"sc"}
    [] part = "bluescreen" -> {"crashes", "test", "changes"}
    [] part = "addon" -> {"crashes", "registry"}
    [] OTHER -> {}

LEMMA Asks == ASSUME part \in Parts PROVE About.queries = Asked
<1> USE DEF T!Parts, N!Parts, S!Parts, H!Parts, C!Parts, I!Parts, U!Parts, K!Parts, T!AnyPart, N!AnyPart,
            S!AnyPart, H!AnyPart, C!AnyPart, I!AnyPart, U!AnyPart, K!AnyPart, T!About, N!About, S!About,
            H!About, C!About, I!About, U!About, K!About, Asked
<1>1. CASE part \in T!Parts
  <2>1. CASE part = "services"
    BY <2>1, OfT
  <2>2. CASE part = "devices"
    BY <2>2, OfT
  <2>3. CASE part = "threshold"
    BY <2>3, OfT
  <2>4. CASE part = "policies"
    BY <2>4, OfT
  <2>5. CASE part = "hosts"
    BY <2>5, OfT
  <2>6. QED BY <1>1, <2>1, <2>2, <2>3, <2>4, <2>5
<1>2. CASE part \in N!Parts
  <2>1. CASE part = "adapter"
    BY <2>1, OfN
  <2>2. CASE part = "connections"
    BY <2>2, OfN
  <2>3. QED BY <1>2, <2>1, <2>2
<1>3. CASE part \in S!Parts
  <2>1. CASE part = "pagefile"
    BY <2>1, OfS
  <2>2. CASE part = "autostart"
    BY <2>2, OfS
  <2>3. CASE part = "clock"
    BY <2>3, OfS
  <2>4. CASE part = "restart"
    BY <2>4, OfS
  <2>5. QED BY <1>3, <2>1, <2>2, <2>3, <2>4
<1>4. CASE part \in H!Parts
  <2>1. CASE part = "opengl"
    BY <2>1, OfH
  <2>2. CASE part = "device"
    BY <2>2, OfH
  <2>3. CASE part = "printing"
    BY <2>3, OfH
  <2>4. CASE part = "whea"
    BY <2>4, OfH
  <2>5. QED BY <1>4, <2>1, <2>2, <2>3, <2>4
<1>5. CASE part \in C!Parts
  <2>1. CASE part = "dirty"
    BY <2>1, OfC
  <2>2. CASE part = "icons"
    BY <2>2, OfC
  <2>3. CASE part = "temp"
    BY <2>3, OfC
  <2>4. CASE part = "cache"
    BY <2>4, OfC
  <2>5. CASE part = "delivery"
    BY <2>5, OfC
  <2>6. CASE part = "downloads"
    BY <2>6, OfC
  <2>7. CASE part = "logs"
    BY <2>7, OfC
  <2>8. CASE part = "bin"
    BY <2>8, OfC
  <2>9. CASE part = "winsxs"
    BY <2>9, OfC
  <2>10. QED BY <1>5, <2>1, <2>2, <2>3, <2>4, <2>5, <2>6, <2>7, <2>8, <2>9
<1>6. CASE part \in I!Parts
  <2>1. CASE part = "store"
    BY <2>1, OfI
  <2>2. CASE part = "sfc"
    BY <2>2, OfI
  <2>3. CASE part = "vss"
    BY <2>3, OfI
  <2>4. CASE part = "winre"
    BY <2>4, OfI
  <2>5. CASE part = "wmi"
    BY <2>5, OfI
  <2>6. CASE part = "apps"
    BY <2>6, OfI
  <2>7. QED BY <1>6, <2>1, <2>2, <2>3, <2>4, <2>5, <2>6
<1>7. CASE part \in U!Parts
  <2>1. CASE part = "tasks"
    BY <2>1, OfU
  <2>2. CASE part = "updates"
    BY <2>2, OfU
  <2>3. CASE part = "updateservice"
    BY <2>3, OfU
  <2>4. CASE part = "reboot"
    BY <2>4, OfU
  <2>5. QED BY <1>7, <2>1, <2>2, <2>3, <2>4
<1>8. CASE part \in K!Parts
  <2>1. CASE part = "bluescreen"
    BY <2>1, OfK
  <2>2. CASE part = "dumps"
    BY <2>2, OfK
  <2>3. CASE part = "addon"
    BY <2>3, OfK
  <2>4. QED BY <1>8, <2>1, <2>2, <2>3
<1>9. QED BY <1>1, <1>2, <1>3, <1>4, <1>5, <1>6, <1>7, <1>8 DEF Parts

LEMMA FaultsAre ==
  ASSUME part \in Parts, NEW s
  PROVE  /\ Found(s) \subseteq Faults(s)
         /\ part \in N!Parts => N!LessExactly(part, s) \subseteq Faults(s)
         /\ part \in S!Parts => S!LessExactly(part, s) \subseteq Faults(s)
         /\ part \in H!Parts => H!LessExactly(part, s) \subseteq Faults(s)
         /\ part \in K!Parts => K!LessExactly(part, s) \subseteq Faults(s)
<1> USE DEF T!Parts, N!Parts, S!Parts, H!Parts, C!Parts, I!Parts, U!Parts, K!Parts
<1>1. Found(s) \subseteq Faults(s)
  BY DEF Faults
<1>2. part \in N!Parts => N!LessExactly(part, s) \subseteq Faults(s)
  BY DEF Faults
<1>3. part \in S!Parts => S!LessExactly(part, s) \subseteq Faults(s)
  BY DEF Faults
<1>4. part \in H!Parts => H!LessExactly(part, s) \subseteq Faults(s)
  BY DEF Faults
<1>5. part \in K!Parts => K!LessExactly(part, s) \subseteq Faults(s)
  BY DEF Faults
<1>6. QED BY <1>1, <1>2, <1>3, <1>4, <1>5

LEMMA FindsNothingElse ==
  ASSUME part \in Parts, NEW s, NEW answered, answered \subseteq About.queries,
         "names" \notin Lapses, "netsh" \notin Lapses,
         part = "restart" => s.up \in {"short", "long"}
  PROVE  Findings(s, answered) \subseteq Faults(s)
<1> USE DEF T!Parts, N!Parts, S!Parts, H!Parts, C!Parts, I!Parts, U!Parts, K!Parts, T!Findings,
            N!Findings, S!Findings, H!Findings, C!Findings, I!Findings, U!Findings, K!Findings
<1> DEFINE all == About.queries
<1>0. Found(s) = Findings(s, all) /\ all = Asked
  BY Asks DEF Found
<1> HIDE DEF all
<1>1. CASE part = "services"
  <2>1. answered \subseteq all /\ all = {"auto", "demand", "guarded"}
    BY <1>0, <1>1 DEF Asked, all
  <2>2. \A a : Findings(s, a) = T!DisabledServices(s, a)
    BY <1>1, OfT
  <2>3. T!DisabledServices(s, answered) \subseteq T!DisabledServices(s, all)
    BY <2>1 DEF T!DisabledServices
  <2>4. QED BY <1>0, <2>2, <2>3, FaultsAre
<1>2. CASE part = "devices"
  <2>1. answered \subseteq all /\ all = {"devices", "chains"}
    BY <1>0, <1>2 DEF Asked, all
  <2>2. \A a : Findings(s, a) = T!DisabledDevices(s, a)
    BY <1>2, OfT
  <2>3. T!DisabledDevices(s, answered) \subseteq T!DisabledDevices(s, all)
    BY <2>1 DEF T!DisabledDevices
  <2>4. QED BY <1>0, <2>2, <2>3, FaultsAre
<1>3. CASE part = "threshold"
  <2>1. answered \subseteq all /\ all = {"threshold"}
    BY <1>0, <1>3 DEF Asked, all
  <2>2. \A a : Findings(s, a) = T!GroupedServices(s, a)
    BY <1>3, OfT
  <2>3. T!GroupedServices(s, answered) \subseteq T!GroupedServices(s, all)
    BY <2>1 DEF T!GroupedServices
  <2>4. QED BY <1>0, <2>2, <2>3, FaultsAre
<1>4. CASE part = "policies"
  <2>1. answered \subseteq all /\ all = {"domain", "policies", "edition", "defender"}
    BY <1>0, <1>4 DEF Asked, all
  <2>2. \A a : Findings(s, a) = T!HarmfulPolicies(s, a)
    BY <1>4, OfT
  <2>3. T!HarmfulPolicies(s, answered) \subseteq T!HarmfulPolicies(s, all)
    <3>1. ASSUME NEW f \in T!PolicyIds
          PROVE  T!PolicyHit(f, s, "edition" \in answered) \subseteq T!PolicyHit(f, s, TRUE)
      BY DEF T!PolicyHit
    <3>2. QED BY <2>1, <3>1 DEF T!HarmfulPolicies, T!Judged
  <2>4. QED BY <1>0, <2>2, <2>3, FaultsAre
<1>5. CASE part = "hosts"
  <2>1. answered \subseteq all /\ all = {"hosts"}
    BY <1>0, <1>5 DEF Asked, all
  <2>2. \A a : Findings(s, a) = T!BlockingHosts(s, a)
    BY <1>5, OfT
  <2>3. T!BlockingHosts(s, answered) \subseteq T!BlockingHosts(s, all)
    BY <2>1 DEF T!BlockingHosts
  <2>4. QED BY <1>0, <2>2, <2>3, FaultsAre
<1>6. CASE part = "adapter"
  <2>1. answered \subseteq all /\ all = {"addresses", "physical", "servers", "ping", "names"}
    BY <1>0, <1>6 DEF Asked, all
  <2>2. \A a : Findings(s, a) = N!AdapterFindings(s, a)
    BY <1>6, OfN
  <2>3. \/ N!AdapterFindings(s, answered) \subseteq N!AdapterFindings(s, all)
        \/ /\ ~N!Resolves(s)
           /\ N!AdapterFindings(s, answered) \subseteq N!AdapterFindings(s, all) \cup {"names", "advice"}
    BY <2>1 DEF N!AdapterFindings, N!Resolution, N!Finding
  <2>4. ~N!Resolves(s) => {"names", "advice"} \subseteq Faults(s)
    BY <1>6, FaultsAre DEF N!LessExactly
  <2>5. QED BY <1>0, <2>2, <2>3, <2>4, FaultsAre
<1>7. CASE part = "connections"
  <2>1. answered \subseteq all /\ all = {"user", "winhttp", "catalog"}
    BY <1>0, <1>7 DEF Asked, all
  <2>2. \A a : Findings(s, a) = N!ConnectionFindings(s, a)
    BY <1>7, OfN
  <2>3. N!ConnectionFindings(s, answered) \subseteq N!ConnectionFindings(s, all)
    BY <2>1 DEF N!ConnectionFindings
  <2>4. QED BY <1>0, <2>2, <2>3, FaultsAre
<1>8. CASE part = "pagefile"
  <2>1. answered \subseteq all /\ all = {"registry", "usage", "settings", "disks"}
    BY <1>0, <1>8 DEF Asked, all
  <2>2. \A a : Findings(s, a) = S!PageFileFindings(s, a)
    BY <1>8, OfS
  <2>3. S!PageFileFindings(s, answered) \subseteq S!PageFileFindings(s, all)
    BY <2>1 DEF S!PageFileFindings, S!NoPageFile, S!FullDrive, S!UnusableSize, S!Finding
  <2>4. QED BY <1>0, <2>2, <2>3, FaultsAre
<1>9. CASE part = "autostart"
  <2>1. answered \subseteq all /\ all = {"user", "machine"}
    BY <1>0, <1>9 DEF Asked, all
  <2>2. \A a : Findings(s, a) = S!OrphanedStarts(s, a)
    BY <1>9, OfS
  <2>3. S!OrphanedStarts(s, answered) \subseteq S!OrphanedStarts(s, all)
    BY <2>1 DEF S!OrphanedStarts
  <2>4. QED BY <1>0, <2>2, <2>3, FaultsAre
<1>10. CASE part = "clock"
  <2>1. answered \subseteq all /\ all = {"server"}
    BY <1>0, <1>10 DEF Asked, all
  <2>2. \A a : Findings(s, a) = S!ClockFindings(s, a)
    BY <1>10, OfS
  <2>3. S!ClockFindings(s, answered) \subseteq S!ClockFindings(s, all)
    BY <2>1 DEF S!ClockFindings, S!Finding
  <2>4. QED BY <1>0, <2>2, <2>3, FaultsAre
<1>11. CASE part = "restart"
  <2>1. answered \subseteq all /\ all = {"registry"}
    BY <1>0, <1>11 DEF Asked, all
  <2>2. \A a : Findings(s, a) = S!RestartFindings(s, a)
    BY <1>11, OfS
  <2>3. s.up = "long" => "restartadvice" \in Faults(s)
    BY <1>11, FaultsAre DEF S!LessExactly
  <2>4. S!RestartFindings(s, answered) \subseteq
          S!RestartFindings(s, all) \cup (IF s.up = "long" THEN {"restartadvice"} ELSE {})
    BY <1>11, <2>1 DEF S!RestartFindings
  <2>5. QED BY <1>0, <2>2, <2>3, <2>4, FaultsAre
<1>12. CASE part = "opengl"
  <2>1. answered \subseteq all /\ all = {"devices", "key"}
    BY <1>0, <1>12 DEF Asked, all
  <2>2. \A a : Findings(s, a) = H!OpenGlFindings(s, a)
    BY <1>12, OfH
  <2>3. H!OpenGlFindings(s, answered) \subseteq H!OpenGlFindings(s, all)
    BY <2>1 DEF H!OpenGlFindings
  <2>4. QED BY <1>0, <2>2, <2>3, FaultsAre
<1>13. CASE part = "device"
  <2>1. answered \subseteq all /\ all = {"devices", "build", "policy"}
    BY <1>0, <1>13 DEF Asked, all
  <2>2. \A a : Findings(s, a) = H!DeviceFindings(s, a)
    BY <1>13, OfH
  <2>3. {s.problem} \cap {"restart", "driver"} \subseteq Faults(s)
    BY <1>13, FaultsAre DEF H!LessExactly
  <2>4. H!DeviceFindings(s, answered) \subseteq
          H!DeviceFindings(s, all) \cup ({s.problem} \cap {"restart", "driver"})
    BY <2>1 DEF H!DeviceFindings, H!Finding
  <2>5. QED BY <1>0, <2>2, <2>3, <2>4, FaultsAre
<1>14. CASE part = "printing"
  <2>1. answered \subseteq all /\ all = {"start", "state", "jobs"}
    BY <1>0, <1>14 DEF Asked, all
  <2>2. \A a : Findings(s, a) = H!PrintingFindings(s, a)
    BY <1>14, OfH
  <2>3. H!PrintingFindings(s, answered) \subseteq H!PrintingFindings(s, all)
    BY <2>1 DEF H!PrintingFindings, H!Finding
  <2>4. QED BY <1>0, <2>2, <2>3, FaultsAre
<1>15. CASE part = "whea"
  <2>1. answered \subseteq all /\ all = {"events", "test", "aspm"}
    BY <1>0, <1>15 DEF Asked, all
  <2>2. \A a : Findings(s, a) = H!WheaFindings(s, a)
    BY <1>15, OfH
  <2>3. s.logged \ {"fatal"} \subseteq Faults(s)
    BY <1>15, FaultsAre DEF H!LessExactly
  <2>4. /\ H!TestFindings(s, answered) \subseteq H!TestFindings(s, all) \cup (s.logged \ {"fatal"})
        /\ H!BusFindings(s, answered) \subseteq H!BusFindings(s, all) \cup (s.logged \ {"fatal"})
    BY <2>1 DEF H!TestFindings, H!BusFindings, H!Finding
  <2>5. H!WheaFindings(s, answered) \subseteq H!WheaFindings(s, all) \cup (s.logged \ {"fatal"})
    BY <2>1, <2>4 DEF H!WheaFindings, H!Finding
  <2>6. QED BY <1>0, <2>2, <2>3, <2>5, FaultsAre
<1>16. CASE part = "dirty"
  <2>1. answered \subseteq all /\ all = {"wmi", "fsutil", "disks"}
    BY <1>0, <1>16 DEF Asked, all
  <2>2. \A a : Findings(s, a) = C!DirtyBit(s, a) \cup C!SmartWarning(s, a)
    BY <1>16, OfC
  <2>3. /\ C!DirtyBit(s, answered) \subseteq C!DirtyBit(s, all)
        /\ C!SmartWarning(s, answered) \subseteq C!SmartWarning(s, all)
    BY <2>1 DEF C!DirtyBit, C!SmartWarning, C!Finding
  <2>4. QED BY <1>0, <2>2, <2>3, FaultsAre
<1>17. CASE part = "icons"
  <2>1. Findings(s, answered) = Findings(s, all)
    BY <1>17, OfC DEF C!IconCache
  <2>2. QED BY <1>0, <2>1, FaultsAre
<1>18. CASE part = "temp"
  <2>1. Findings(s, answered) = Findings(s, all)
    BY <1>18, OfC DEF C!TempBloat
  <2>2. QED BY <1>0, <2>1, FaultsAre
<1>19. CASE part = "cache"
  <2>1. Findings(s, answered) = Findings(s, all)
    BY <1>19, OfC DEF C!CacheFindings
  <2>2. QED BY <1>0, <2>1, FaultsAre
<1>20. CASE part = "delivery"
  <2>1. Findings(s, answered) = Findings(s, all)
    BY <1>20, OfC DEF C!CacheFindings
  <2>2. QED BY <1>0, <2>1, FaultsAre
<1>21. CASE part = "downloads"
  <2>1. Findings(s, answered) = Findings(s, all)
    BY <1>21, OfC DEF C!UpdateCacheBloat
  <2>2. QED BY <1>0, <2>1, FaultsAre
<1>22. CASE part = "logs"
  <2>1. Findings(s, answered) = Findings(s, all)
    BY <1>22, OfC DEF C!SetupLogs
  <2>2. QED BY <1>0, <2>1, FaultsAre
<1>23. CASE part = "bin"
  <2>1. Findings(s, answered) = Findings(s, all)
    BY <1>23, OfC DEF C!RecycleBin
  <2>2. QED BY <1>0, <2>1, FaultsAre
<1>24. CASE part = "winsxs"
  <2>1. answered \subseteq all /\ all = {"store"}
    BY <1>0, <1>24 DEF Asked, all
  <2>2. \A a : Findings(s, a) = C!ReclaimablePackages(s, a)
    BY <1>24, OfC
  <2>3. C!ReclaimablePackages(s, answered) \subseteq C!ReclaimablePackages(s, all)
    BY <2>1 DEF C!ReclaimablePackages, C!Finding
  <2>4. QED BY <1>0, <2>2, <2>3, FaultsAre
<1>25. CASE part = "store"
  <2>1. answered \subseteq all /\ all = {"dism"}
    BY <1>0, <1>25 DEF Asked, all
  <2>2. \A a : Findings(s, a) = I!ComponentStore(s, a)
    BY <1>25, OfI
  <2>3. I!ComponentStore(s, answered) \subseteq I!ComponentStore(s, all)
    BY <2>1 DEF I!ComponentStore, I!Finding
  <2>4. QED BY <1>0, <2>2, <2>3, FaultsAre
<1>26. CASE part = "sfc"
  <2>1. Findings(s, answered) = Findings(s, all)
    BY <1>26, OfI DEF I!SfcEvidence
  <2>2. QED BY <1>0, <2>1, FaultsAre
<1>27. CASE part = "vss"
  <2>1. answered \subseteq all /\ all = {"sc"}
    BY <1>0, <1>27 DEF Asked, all
  <2>2. \A a : Findings(s, a) = I!VssDisabled(s, a)
    BY <1>27, OfI
  <2>3. I!VssDisabled(s, answered) \subseteq I!VssDisabled(s, all)
    BY <2>1 DEF I!VssDisabled, I!Finding
  <2>4. QED BY <1>0, <2>2, <2>3, FaultsAre
<1>28. CASE part = "winre"
  <2>1. Findings(s, answered) = Findings(s, all)
    BY <1>28, OfI DEF I!WinReDisabled
  <2>2. QED BY <1>0, <2>1, FaultsAre
<1>29. CASE part = "wmi"
  <2>1. answered \subseteq all /\ all = {"probe"}
    BY <1>0, <1>29 DEF Asked, all
  <2>2. \A a : Findings(s, a) = I!WmiFailures(s, a)
    BY <1>29, OfI
  <2>3. I!WmiFailures(s, answered) \subseteq I!WmiFailures(s, all)
    BY <2>1 DEF I!WmiFailures, I!Finding
  <2>4. QED BY <1>0, <2>2, <2>3, FaultsAre
<1>30. CASE part = "apps"
  <2>1. answered \subseteq all /\ all = {"packages"}
    BY <1>0, <1>30 DEF Asked, all
  <2>2. \A a : Findings(s, a) = I!AppPackages(s, a)
    BY <1>30, OfI
  <2>3. I!AppPackages(s, answered) \subseteq I!AppPackages(s, all)
    BY <2>1 DEF I!AppPackages
  <2>4. QED BY <1>0, <2>2, <2>3, FaultsAre
<1>31. CASE part = "tasks"
  <2>1. answered \subseteq all /\ all = {"inventory"}
    BY <1>0, <1>31 DEF Asked, all
  <2>2. \A a : Findings(s, a) = U!TaskFindings(s, a)
    BY <1>31, OfU
  <2>3. U!TaskFindings(s, answered) \subseteq U!TaskFindings(s, all)
    BY <2>1 DEF U!TaskFindings
  <2>4. QED BY <1>0, <2>2, <2>3, FaultsAre
<1>32. CASE part = "updates"
  <2>1. answered \subseteq all /\ all = {"events"}
    BY <1>0, <1>32 DEF Asked, all
  <2>2. \A a : Findings(s, a) = U!UpdateFindings(s, a)
    BY <1>32, OfU
  <2>3. U!UpdateFindings(s, answered) \subseteq U!UpdateFindings(s, all)
    BY <2>1 DEF U!UpdateFindings
  <2>4. QED BY <1>0, <2>2, <2>3, FaultsAre
<1>33. CASE part = "updateservice"
  <2>1. answered \subseteq all /\ all = {"sc"}
    BY <1>0, <1>33 DEF Asked, all
  <2>2. \A a : Findings(s, a) = U!ServiceDisabled(s, a)
    BY <1>33, OfU
  <2>3. U!ServiceDisabled(s, answered) \subseteq U!ServiceDisabled(s, all)
    BY <2>1 DEF U!ServiceDisabled, U!Finding
  <2>4. QED BY <1>0, <2>2, <2>3, FaultsAre
<1>34. CASE part = "reboot"
  <2>1. Findings(s, answered) = Findings(s, all)
    BY <1>34, OfU DEF U!PendingReboot
  <2>2. QED BY <1>0, <2>1, FaultsAre
<1>35. CASE part = "bluescreen"
  <2>1. answered \subseteq all /\ all = {"crashes", "test", "changes"}
    BY <1>0, <1>35 DEF Asked, all
  <2>2. \A a : Findings(s, a) = K!CrashFindings(s, a)
    BY <1>35, OfK
  <2>3. "memory" \in s.crashes => "memory" \in Faults(s)
    BY <1>35, FaultsAre DEF K!LessExactly, K!Finding
  <2>4. CASE "crashes" \in answered
    <3>1. K!Collected(s, answered) = s.crashes /\ K!Collected(s, all) = s.crashes
      BY <2>1, <2>4 DEF K!Collected
    <3>2. K!Changed(s, answered) => K!Changed(s, all)
      BY <2>1, <3>1 DEF K!Changed
    <3>3. K!MemoryTestFinding(s, answered) \in {"memory", K!MemoryTestFinding(s, all)}
      BY <2>1 DEF K!MemoryTestFinding
    <3>4. \A g \in K!CrashFindings(s, answered) :
            g \in K!CrashFindings(s, all) \/ (g = "memory" /\ "memory" \in s.crashes)
      BY <3>1, <3>2, <3>3 DEF K!CrashFindings, K!Finding
    <3>5. QED BY <1>0, <2>2, <2>3, <3>4, FaultsAre
  <2>5. CASE "crashes" \notin answered
    <3>1. K!Collected(s, answered) = {}
      BY <2>5 DEF K!Collected
    <3>2. ~K!Changed(s, answered)
      BY <3>1, NoneCounted DEF K!Changed
    <3>3. K!CrashFindings(s, answered) = {}
      BY <3>1, <3>2 DEF K!CrashFindings, K!Finding
    <3>4. QED BY <2>2, <3>3
  <2>6. QED BY <2>4, <2>5
<1>36. CASE part = "dumps"
  <2>1. Findings(s, answered) = Findings(s, all)
    BY <1>36, OfK DEF K!StaleDumps
  <2>2. QED BY <1>0, <2>1, FaultsAre
<1>37. CASE part = "addon"
  <2>1. answered \subseteq all /\ all = {"crashes", "registry"}
    BY <1>0, <1>37 DEF Asked, all
  <2>2. \A a : Findings(s, a) = K!ShellExtensions(s, a)
    BY <1>37, OfK
  <2>3. s.crashed => "addon" \in Faults(s)
    BY <1>37, FaultsAre DEF K!LessExactly, K!Finding
  <2>4. K!ShellExtensions(s, answered) \subseteq (IF s.crashed THEN {"addon"} ELSE {})
    BY DEF K!ShellExtensions, K!Finding
  <2>5. QED BY <2>2, <2>3, <2>4
<1>38. QED
  BY <1>1, <1>2, <1>3, <1>4, <1>5, <1>6, <1>7, <1>8, <1>9, <1>10, <1>11, <1>12, <1>13, <1>14, <1>15, <1>16, <1>17, <1>18, <1>19, <1>20, <1>21, <1>22, <1>23, <1>24, <1>25, <1>26, <1>27, <1>28, <1>29, <1>30, <1>31, <1>32, <1>33, <1>34, <1>35, <1>36, <1>37 DEF Parts

Plain == (T!Parts \ {"hosts"}) \cup N!Parts \cup S!Parts \cup H!Parts \cup U!Parts

Spared(f, s) == [i \in DOMAIN s \ Touches(f) |-> s[i]]

LEMMA KeptIs ==
  /\ part \in Plain => \A f, s : Kept(f, s) = Spared(f, s)
  /\ part = "hosts" => \A f, s : Kept(f, s) = (UNION s.hosts) \ T!Needed
  /\ part \in C!Parts => \A f, s : Kept(f, s) = C!Kept(part, f, s)
  /\ part \in I!Parts => \A f, s : Kept(f, s) = I!Kept(part, f, s)
  /\ part \in K!Parts => \A f, s : Kept(f, s) = K!Kept(part, f, s)
<1> USE DEF T!Parts, N!Parts, S!Parts, H!Parts, C!Parts, I!Parts, U!Parts, K!Parts
<1>1. part \in Plain => \A f, s : Kept(f, s) = Spared(f, s)
  BY DEF Kept, Plain, Spared
<1>2. part = "hosts" => \A f, s : Kept(f, s) = (UNION s.hosts) \ T!Needed
  BY DEF Kept, T!KeptHosts
<1>3. part \in C!Parts => \A f, s : Kept(f, s) = C!Kept(part, f, s)
  BY DEF Kept
<1>4. part \in I!Parts => \A f, s : Kept(f, s) = I!Kept(part, f, s)
  BY DEF Kept
<1>5. part \in K!Parts => \A f, s : Kept(f, s) = K!Kept(part, f, s)
  BY DEF Kept
<1>6. QED BY <1>1, <1>2, <1>3, <1>4, <1>5

LEMMA LentIs ==
  /\ part \in Parts /\ part # "store" => \A s : Lent(s) = {}
  /\ part = "store" => \A s : Lent(s) = s.isos
  BY DEF Lent, I!Lent, I!Parts

LEMMA TouchesAre ==
  /\ part \in T!Parts => \A f : Touches(f) = T!Touches(part, f)
  /\ part \in N!Parts => \A f : Touches(f) = N!Touches(part, f)
  /\ part \in S!Parts => \A f : Touches(f) = S!Touches(part, f)
  /\ part \in H!Parts => \A f : Touches(f) = H!Touches(part, f)
  /\ part \in U!Parts => \A f : Touches(f) = U!Touches(part, f)
<1> USE DEF T!Parts, N!Parts, S!Parts, H!Parts, U!Parts
<1>1. part \in T!Parts => \A f : Touches(f) = T!Touches(part, f)
  BY DEF Touches
<1>2. part \in N!Parts => \A f : Touches(f) = N!Touches(part, f)
  BY DEF Touches
<1>3. part \in S!Parts => \A f : Touches(f) = S!Touches(part, f)
  BY DEF Touches
<1>4. part \in H!Parts => \A f : Touches(f) = H!Touches(part, f)
  BY DEF Touches
<1>5. part \in U!Parts => \A f : Touches(f) = U!Touches(part, f)
  BY DEF Touches
<1>6. QED BY <1>1, <1>2, <1>3, <1>4, <1>5

(* What no repair touches of what a finding says of Windows.               *)
LEMMA LeavesTold ==
  ASSUME part \in {"services", "policies", "restart"}, repair.finding \in Cures
  PROVE  KeptItems \cap Touches(repair.finding) = {}
<1>1. CASE part = "services"
  BY <1>1, TouchesAre DEF T!Parts, T!Touches, KeptItems, Cures
<1>2. CASE part = "policies"
  <2>1. Touches(repair.finding) \subseteq T!PolicyValues \cup {"realtime"}
    <3>1. repair.finding \in {"wsus", "store", "defender", "blocked", "hidden", "noAutoUpdate"}
      BY <1>2 DEF Cures, T!PolicyIds, T!SingleValues
    <3>2. Touches(repair.finding) = T!Touches("policies", repair.finding)
      BY <1>2, TouchesAre DEF T!Parts
    <3>3. CASE repair.finding \in {"wsus", "store", "defender"}
      BY <3>2, <3>3 DEF T!Touches, T!PolicyValues
    <3>4. CASE repair.finding \in {"blocked", "hidden", "noAutoUpdate"}
      BY <3>2, <3>4 DEF T!Touches, T!PolicyValues, T!SingleValues
    <3>5. QED BY <3>1, <3>3, <3>4
  <2>2. QED
    BY <1>2, <2>1 DEF KeptItems, T!PolicyValues, T!WsusValues, T!StoreValues, T!DefenderValues, T!SingleValues
<1>3. CASE part = "restart"
  BY <1>3, TouchesAre DEF S!Parts, S!Touches, KeptItems
<1>4. QED BY <1>1, <1>2, <1>3

(* Where a part is settings that a repair touches or leaves alone.         *)
LEMMA PlainBehaves ==
  ASSUME part \in Plain, WellMade, Upright, ~Idle, UNCHANGED around, Moves, Spares, Heeds, Leads
  PROVE  Behaves
<1>1. repair.finding \in Cures /\ KeptItems \subseteq DOMAIN setting
  BY DEF WellMade, Repairable, Rooms
<1>2. part' = part /\ before' = before
  BY DEF around
<1>3. Kept(repair.finding, setting') = Kept(repair.finding, before)
  <2>1. /\ Kept(repair.finding, setting') = Spared(repair.finding, setting')
        /\ Kept(repair.finding, setting) = Spared(repair.finding, setting)
    BY KeptIs
  <2>2. Spared(repair.finding, setting') = Spared(repair.finding, setting)
    BY DEF Spares, Spared
  <2>3. QED BY <2>1, <2>2 DEF Upright
<1>4. part \in Parts /\ part \notin {"hosts", "store", "addon", "sfc", "dirty", "logs", "winsxs", "bluescreen", "dumps"}
  BY DEF Plain, Parts, T!Parts, N!Parts, S!Parts, H!Parts, U!Parts
<1>5. Lent(setting') = Lent(before)
  BY <1>4, LentIs
<1>6. part \in {"services", "policies", "restart"} =>
        \A i \in KeptItems : i \in DOMAIN setting /\ setting'[i] = setting[i]
  BY <1>1, LeavesTold DEF Spares
<1>7. \A f : Holds(f, setting) => Holds(f, setting')
  BY <1>6 DEF Holds, KeptItems
<1>8. Rooms'
  <2>1. KeptItems' = KeptItems
    BY <1>2 DEF KeptItems
  <2>2. part = "restart" => setting'.up = setting.up
    BY <1>6 DEF KeptItems
  <2>3. QED BY <1>1, <1>2, <1>4, <2>1, <2>2 DEF WellMade, Rooms, Spares
<1>9. QED BY <1>3, <1>5, <1>7, <1>8 DEF Behaves, Spares

(* The ways a step spares what it is not for.                              *)
LEMMA NothingSpared == ASSUME setting' = setting PROVE Spares
  BY DEF Spares

LEMMA OneSpared ==
  ASSUME NEW i \in Touches(repair.finding), NEW v, setting' = [setting EXCEPT ![i] = v]
  PROVE  Spares
  BY DEF Spares

LEMMA CouldSpare ==
  ASSUME NEW i \in Touches(repair.finding), NEW v, Could(i, v)
  PROVE  Spares
  BY NothingSpared, OneSpared DEF Could

(* Parts whose repairs do not look again and have nothing more to go by.   *)
Simple == {"services", "connections", "pagefile", "clock", "printing", "whea", "tasks", "updateservice"}

LEMMA SimpleBehaves ==
  ASSUME part \in Simple \/ (part = "adapter" /\ repair.finding \in {"servers", "names"}),
         WellMade, Upright, ~Idle, UNCHANGED around, Moves, Spares
  PROVE  Behaves
<1>1. part \in Plain
  BY DEF Simple, Plain, T!Parts, N!Parts, S!Parts, H!Parts, U!Parts
<1>2. Heeds
  BY DEF Heeds, Wrong, Simple
<1>3. Leads
  BY DEF Leads, Lefts, Simple, around
<1>4. QED BY <1>1, <1>2, <1>3, PlainBehaves

(* The ways a step of a repair goes on or ends.                            *)
LEMMA MovesOn ==
  ASSUME NEW place, GoesTo(place), place \notin Early \/ (repair.at \in Early /\ setting' = setting)
  PROVE  Moves
  BY DEF Moves

LEMMA MovesOff ==
  ASSUME Upright, ~Idle, NEW how, Ends(how), how = "unchanged" => repair.at \in Early /\ setting' = setting
  PROVE  Moves
  BY DEF Moves, Upright

(* The repairs, one by one.                                                *)
LEMMA ServiceBehaves ==
  ASSUME part = "services", repair.finding # "guarded", T!FixService(repair.finding),
         WellMade, Upright, ~Idle, UNCHANGED around
  PROVE  Behaves
<1>1. Formed
  BY DEF WellMade
<1>2. {repair.finding, "running"} \subseteq Touches(repair.finding)
  BY TouchesAre DEF T!Parts, T!Touches
<1>3. Spares
  BY <1>1, <1>2, ServiceSteps, NothingSpared, OneSpared, CouldSpare
<1>4. Moves
  BY <1>1, ServiceSteps DEF Moves, Early, Upright
<1>5. QED BY <1>3, <1>4, SimpleBehaves DEF Simple


LEMMA GuardedServiceBehaves ==
  ASSUME part = "services", repair.finding = "guarded", T!FixServiceInRegistry,
         WellMade, Upright, ~Idle, UNCHANGED around
  PROVE  Behaves
<1>1. Formed
  BY DEF WellMade
<1>2. "start" \in Touches(repair.finding)
  BY TouchesAre DEF T!Parts, T!Touches
<1>3. Spares
  BY <1>1, <1>2, GuardedServiceSteps, NothingSpared, OneSpared, CouldSpare
<1>4. Moves
  BY <1>1, GuardedServiceSteps DEF Moves, Early, Upright
<1>5. QED BY <1>3, <1>4, SimpleBehaves DEF Simple


LEMMA DeadDnsBehaves ==
  ASSUME part = "adapter", repair.finding = "servers", N!FixDeadDns,
         WellMade, Upright, ~Idle, UNCHANGED around
  PROVE  Behaves
<1>1. Formed
  BY DEF WellMade
<1>2. "dns" \in Touches(repair.finding)
  BY TouchesAre DEF N!Parts, N!Touches
<1>3. Spares
  BY <1>1, <1>2, DeadDnsSteps, NothingSpared, OneSpared, CouldSpare
<1>4. Moves
  BY <1>1, DeadDnsSteps DEF Moves, Early, Upright
<1>5. QED BY <1>3, <1>4, SimpleBehaves DEF Simple


LEMMA NamesBehave ==
  ASSUME part = "adapter", repair.finding = "names", N!FixNames,
         WellMade, Upright, ~Idle, UNCHANGED around
  PROVE  Behaves
<1>1. Formed
  BY DEF WellMade
<1>2. "cache" \in Touches(repair.finding)
  BY TouchesAre DEF N!Parts, N!Touches
<1>3. Spares
  BY <1>1, <1>2, NamesSteps, NothingSpared, OneSpared, CouldSpare
<1>4. Moves
  BY <1>1, NamesSteps DEF Moves, Early, Upright
<1>5. QED BY <1>3, <1>4, SimpleBehaves DEF Simple


LEMMA ProxyBehaves ==
  ASSUME part = "connections", repair.finding \in {"user", "winhttp"}, N!FixProxy(repair.finding),
         WellMade, Upright, ~Idle, UNCHANGED around
  PROVE  Behaves
<1>1. Formed
  BY DEF WellMade
<1>2. repair.finding \in Touches(repair.finding)
  BY TouchesAre DEF N!Parts, N!Touches
<1>3. Spares
  BY <1>1, <1>2, ProxySteps, NothingSpared, OneSpared, CouldSpare
<1>4. Moves
  BY <1>1, ProxySteps DEF Moves, Early, Upright
<1>5. QED BY <1>3, <1>4, SimpleBehaves DEF Simple


LEMMA CatalogBehaves ==
  ASSUME part = "connections", repair.finding = "catalog", N!FixCatalog,
         WellMade, Upright, ~Idle, UNCHANGED around
  PROVE  Behaves
<1>1. Formed
  BY DEF WellMade
<1>2. "catalog" \in Touches(repair.finding)
  BY TouchesAre DEF N!Parts, N!Touches
<1>3. Spares
  BY <1>1, <1>2, CatalogSteps, NothingSpared, OneSpared, CouldSpare
<1>4. Moves
  BY <1>1, CatalogSteps DEF Moves, Early, Upright
<1>5. QED BY <1>3, <1>4, SimpleBehaves DEF Simple


LEMMA PageFileBehaves ==
  ASSUME part = "pagefile", S!EnableAutomaticManagement \/ S!SetSystemManaged,
         WellMade, Upright, ~Idle, UNCHANGED around
  PROVE  Behaves
<1>1. Formed
  BY DEF WellMade
<1>2. "files" \in Touches(repair.finding)
  BY TouchesAre DEF S!Parts, S!Touches
<1>3. Spares
  BY <1>1, <1>2, PageFileSteps, NothingSpared, OneSpared, CouldSpare
<1>4. Moves
  BY <1>1, PageFileSteps DEF Moves, Early, Upright
<1>5. QED BY <1>3, <1>4, SimpleBehaves DEF Simple


LEMMA ClockBehaves ==
  ASSUME part = "clock", S!FixClock,
         WellMade, Upright, ~Idle, UNCHANGED around
  PROVE  Behaves
<1>1. Formed
  BY DEF WellMade
<1>2. {"clock", "running"} \subseteq Touches(repair.finding)
  BY TouchesAre DEF S!Parts, S!Touches
<1>3. Spares
  BY <1>1, <1>2, ClockSteps, NothingSpared, OneSpared, CouldSpare
<1>4. Moves
  <2>1. {"begin", "state"} \subseteq Early /\ Early \cap {"start", "resync", "measure"} = {}
    BY DEF Early
  <2>2. repair.at \in Early => setting = before
    BY DEF Upright
  <2>3. \/ /\ repair.at \in Early /\ setting' = setting
           /\ Ends("failed") \/ Ends("unchanged") \/ GoesTo("start") \/ GoesTo("state") \/ GoesTo("resync")
        \/ GoesTo("resync") \/ GoesTo("measure") \/ Ends("failed") \/ Ends("done")
    BY <1>1, <2>1, ClockSteps
  <2>4. QED BY <2>1, <2>2, <2>3, MovesOn, MovesOff
<1>5. QED BY <1>3, <1>4, SimpleBehaves DEF Simple


LEMMA PrintingBehaves ==
  ASSUME part = "printing", H!ClearPrintQueue,
         WellMade, Upright, ~Idle, UNCHANGED around
  PROVE  Behaves
<1>1. Formed
  BY DEF WellMade
<1>2. {"jobs", "spooler"} \subseteq Touches(repair.finding)
  BY TouchesAre DEF H!Parts, H!Touches
<1>3. Spares
  BY <1>1, <1>2, PrintingSteps, NothingSpared, OneSpared, CouldSpare
<1>4. Moves
  BY <1>1, PrintingSteps DEF Moves, Early, Upright
<1>5. QED BY <1>3, <1>4, SimpleBehaves DEF Simple


LEMMA AspmBehaves ==
  ASSUME part = "whea", repair.finding = "pcie", H!SwitchAspmOff,
         WellMade, Upright, ~Idle, UNCHANGED around
  PROVE  Behaves
<1>1. Formed
  BY DEF WellMade
<1>2. {"ac", "dc"} \subseteq Touches(repair.finding)
  BY TouchesAre DEF H!Parts, H!Touches
<1>3. Spares
  BY <1>1, <1>2, AspmSteps, NothingSpared, OneSpared, CouldSpare
<1>4. Moves
  BY <1>1, AspmSteps DEF Moves, Early, Upright
<1>5. QED BY <1>3, <1>4, SimpleBehaves DEF Simple


LEMMA MemoryTestBehaves ==
  ASSUME part = "whea", repair.finding # "pcie", H!ScheduleMemoryTest,
         WellMade, Upright, ~Idle, UNCHANGED around
  PROVE  Behaves
<1>1. Formed
  BY DEF WellMade
<1>2. "test" \in Touches(repair.finding)
  BY TouchesAre DEF H!Parts, H!Touches
<1>3. Spares
  BY <1>1, <1>2, MemoryTestSteps, NothingSpared, OneSpared, CouldSpare
<1>4. Moves
  BY <1>1, MemoryTestSteps DEF Moves, Early, Upright
<1>5. QED BY <1>3, <1>4, SimpleBehaves DEF Simple


LEMMA TaskBehaves ==
  ASSUME part = "tasks", U!DisableTask(repair.finding),
         WellMade, Upright, ~Idle, UNCHANGED around
  PROVE  Behaves
<1>1. Formed
  BY DEF WellMade
<1>2. ~U!LeftToItsOwner(repair.finding) => repair.finding[2] \in Touches(repair.finding)
  BY TouchesAre DEF U!Parts, U!Touches
<1>3. Spares
  BY <1>1, <1>2, TaskSteps, NothingSpared, OneSpared, CouldSpare
<1>4. Moves
  BY <1>1, TaskSteps DEF Moves, Early, Upright
<1>5. QED BY <1>3, <1>4, SimpleBehaves DEF Simple


LEMMA UpdateServiceBehaves ==
  ASSUME part = "updateservice", U!EnableUpdateService,
         WellMade, Upright, ~Idle, UNCHANGED around
  PROVE  Behaves
<1>1. Formed
  BY DEF WellMade
<1>2. {"start", "running"} \subseteq Touches(repair.finding)
  BY TouchesAre DEF U!Parts, U!Touches
<1>3. Spares
  BY <1>1, <1>2, UpdateServiceSteps, NothingSpared, OneSpared, CouldSpare
<1>4. Moves
  BY <1>1, UpdateServiceSteps DEF Moves, Early, Upright
<1>5. QED BY <1>3, <1>4, SimpleBehaves DEF Simple

LEMMA EndsRepair == ASSUME NEW how, Ends(how) PROVE repair' = NoRepair
  BY DEF Ends

(* Where a part has nothing else to go by but what it looks at again.      *)
LEMMA LookingBehaves ==
  ASSUME part \in {"devices", "threshold", "adapter", "restart", "device"},
         WellMade, Upright, ~Idle, UNCHANGED around, Moves, Spares, Heeds
  PROVE  Behaves
<1>1. part \in Plain
  BY DEF Plain, T!Parts, N!Parts, S!Parts, H!Parts, U!Parts
<1>2. Leads
  BY DEF Leads, Lefts, around
<1>3. QED BY <1>1, <1>2, PlainBehaves

LEMMA DeviceBehaves ==
  ASSUME part = "devices", T!FixDevice(repair.finding),
         WellMade, Upright, ~Idle, UNCHANGED around
  PROVE  Behaves
<1>1. Formed
  BY DEF WellMade
<1>2. repair.finding \in Touches(repair.finding)
  BY TouchesAre DEF T!Parts, T!Touches
<1>3. Spares
  BY <1>1, <1>2, DeviceSteps, NothingSpared, OneSpared, CouldSpare
<1>4. Moves
  BY <1>1, DeviceSteps DEF Moves, Early, Upright
<1>5. Heeds
  <2>1. SUFFICES ASSUME ~Wrong(repair.finding, before)
                 PROVE  setting' = before /\ repair' = NoRepair
    BY DEF Heeds
  <2>2. setting = before /\ repair.at \in {"begin", "key", "flush"} /\ setting[repair.finding] # "disabled"
    BY <2>1 DEF Upright, Wrong
  <2>3. QED BY <1>1, <2>2, DeviceSteps, EndsRepair
<1>6. QED BY <1>3, <1>4, <1>5, LookingBehaves


LEMMA ThresholdBehaves ==
  ASSUME part = "threshold", T!FixSplitThreshold,
         WellMade, Upright, ~Idle, UNCHANGED around
  PROVE  Behaves
<1>1. Formed
  BY DEF WellMade
<1>2. "threshold" \in Touches(repair.finding)
  BY TouchesAre DEF T!Parts, T!Touches
<1>3. Spares
  BY <1>1, <1>2, ThresholdSteps, NothingSpared, OneSpared, CouldSpare
<1>4. Moves
  BY <1>1, ThresholdSteps DEF Moves, Early, Upright
<1>5. Heeds
  <2>1. SUFFICES ASSUME ~Wrong(repair.finding, before)
                 PROVE  setting' = before /\ repair' = NoRepair
    BY DEF Heeds
  <2>2. setting = before /\ repair.at \in {"begin", "key", "flush"} /\ ~T!KeepsServicesGrouped(setting)
    BY <2>1 DEF Upright, Wrong
  <2>3. QED BY <1>1, <2>2, ThresholdSteps, EndsRepair
<1>6. QED BY <1>3, <1>4, <1>5, LookingBehaves


LEMMA DhcpBehaves ==
  ASSUME part = "adapter", repair.finding = "dhcp", N!FixNoDhcp,
         WellMade, Upright, ~Idle, UNCHANGED around
  PROVE  Behaves
<1>1. Formed
  BY DEF WellMade
<1>2. "address" \in Touches(repair.finding)
  BY TouchesAre DEF N!Parts, N!Touches
<1>3. Spares
  BY <1>1, <1>2, DhcpSteps, NothingSpared, OneSpared, CouldSpare
<1>4. Moves
  BY <1>1, DhcpSteps DEF Moves, Early, Upright
<1>5. Heeds
  <2>1. SUFFICES ASSUME ~Wrong(repair.finding, before)
                 PROVE  setting' = before /\ repair' = NoRepair
    BY DEF Heeds
  <2>2. setting = before /\ repair.at \in {"begin", "key", "flush"} /\ ~N!DhcpFailed(setting)
    BY <2>1 DEF Upright, Wrong
  <2>3. QED BY <1>1, <2>2, DhcpSteps, EndsRepair
<1>6. QED BY <1>3, <1>4, <1>5, LookingBehaves


LEMMA RestartBehaves ==
  ASSUME part = "restart", S!FixRestart,
         WellMade, Upright, ~Idle, UNCHANGED around
  PROVE  Behaves
<1>1. Formed
  BY DEF WellMade
<1>2. "hiberboot" \in Touches(repair.finding)
  BY TouchesAre DEF S!Parts, S!Touches
<1>3. Spares
  BY <1>1, <1>2, RestartSteps, NothingSpared, OneSpared, CouldSpare
<1>4. Moves
  <2>1. {"begin", "backup"} \subseteq Early /\ Early \cap {"write", "read"} = {}
    BY DEF Early
  <2>2. \/ /\ repair.at \in Early /\ setting' = setting
           /\ Ends("failed") \/ Ends("unchanged") \/ Ends("done") \/ GoesTo("backup") \/ GoesTo("write")
        \/ GoesTo("read") \/ Ends("failed") \/ Ends("done")
    BY <1>1, <2>1, RestartSteps
  <2>3. QED BY <2>1, <2>2, MovesOn, MovesOff
<1>5. Heeds
  <2>1. SUFFICES ASSUME ~Wrong(repair.finding, before)
                 PROVE  setting' = before /\ repair' = NoRepair
    BY DEF Heeds
  <2>2. setting = before /\ repair.at \in {"begin", "key", "flush"} /\ ~S!FastStartup(setting)
    BY <2>1 DEF Upright, Wrong
  <2>3. QED BY <1>1, <2>2, RestartSteps, EndsRepair
<1>6. QED BY <1>3, <1>4, <1>5, LookingBehaves


LEMMA RemedyBehaves ==
  ASSUME part = "device", H!RepairDevice(repair.finding),
         WellMade, Upright, ~Idle, UNCHANGED around
  PROVE  Behaves
<1>1. Formed
  BY DEF WellMade
<1>2. "problem" \in Touches(repair.finding)
  BY TouchesAre DEF H!Parts, H!Touches
<1>3. Spares
  BY <1>1, <1>2, RemedySteps, NothingSpared, OneSpared, CouldSpare
<1>4. Moves
  BY <1>1, RemedySteps DEF Moves, Early, Upright
<1>5. Heeds
  <2>1. SUFFICES ASSUME ~Wrong(repair.finding, before)
                 PROVE  setting' = before /\ repair' = NoRepair
    BY DEF Heeds
  <2>2. setting = before /\ repair.at \in {"begin", "key", "flush"} /\ setting.problem # repair.finding
    BY <2>1 DEF Upright, Wrong
  <2>3. QED BY <1>1, <2>2, RemedySteps, EndsRepair
<1>6. QED BY <1>3, <1>4, <1>5, LookingBehaves


LEMMA AdapterOffBehaves ==
  ASSUME part = "adapter", repair.finding = "off", N!FixAdapterOff,
         WellMade, Upright, ~Idle, UNCHANGED around
  PROVE  Behaves
<1>1. Formed
  BY DEF WellMade
<1>2. {"admin", "address"} \subseteq Touches(repair.finding)
  BY TouchesAre DEF N!Parts, N!Touches
<1>3. Spares
  BY <1>1, <1>2, AdapterOffSteps DEF Spares
<1>4. Moves
  <2>1. {"begin"} \subseteq Early /\ Early \cap {"enable", "read"} = {}
    BY DEF Early
  <2>2. \/ GoesTo("enable") \/ GoesTo("read") \/ Ends("failed") \/ Ends("done")
    BY <1>1, <2>1, AdapterOffSteps
  <2>3. QED BY <2>1, <2>2, MovesOn, MovesOff
<1>5. Heeds
  <2>1. SUFFICES ASSUME ~Wrong(repair.finding, before)
                 PROVE  setting' = before /\ repair' = NoRepair
    BY DEF Heeds
  <2>2. setting = before /\ repair.at \in {"begin", "key", "flush"} /\ setting.admin # "off"
    BY <2>1 DEF Upright, Wrong
  <2>3. QED BY <1>1, <2>2, AdapterOffSteps, EndsRepair
<1>6. QED BY <1>3, <1>4, <1>5, LookingBehaves

LEMMA ResetBehaves ==
  ASSUME part = "updates", U!ResetComponents,
         WellMade, Upright, ~Idle, UNCHANGED around
  PROVE  Behaves
<1>1. Formed /\ part \in Plain
  BY DEF WellMade, Plain, U!Parts
<1>2. "folders" \in Touches(repair.finding)
  BY TouchesAre DEF U!Parts, U!Touches
<1>3. Spares
  BY <1>1, <1>2, ResetSteps, NothingSpared, OneSpared
<1>4. "begin" \in Early /\ Early \cap {"rename", "second", "start"} = {}
  BY DEF Early
<1>5. ~config.auto_restart_services => repair.at = "begin"
  BY DEF Upright, Lefts
<1>6. \/ /\ repair.at \in Early /\ setting' = setting
         /\ Ends("unchanged") \/ (config.auto_restart_services /\ GoesTo("rename"))
      \/ /\ config.auto_restart_services
         /\ GoesTo("second") \/ GoesTo("start") \/ Ends("failed") \/ Ends("done")
  BY <1>1, <1>4, <1>5, ResetSteps
<1>7. Moves
  BY <1>4, <1>6, MovesOn, MovesOff
<1>8. Heeds
  BY DEF Heeds, Wrong
<1>9. Leads
  BY <1>6, EndsRepair DEF Leads, Lefts, around
<1>10. QED BY <1>1, <1>3, <1>7, <1>8, <1>9, PlainBehaves


LEMMA AutostartBehaves ==
  ASSUME part = "autostart", S!RemoveOrphans(repair.finding),
         WellMade, Upright, ~Idle, UNCHANGED around
  PROVE  Behaves
<1>1. Formed /\ part \in Plain
  BY DEF WellMade, Plain, S!Parts
<1>2. Touches(repair.finding) = S!MissingTargets(before, repair.finding)
  BY TouchesAre DEF S!Parts, S!Touches
<1>3. Early = {"begin", "backup", "key", "known"}
  BY DEF Early
<1>4. /\ repair.at \in Early => setting = before
      /\ repair.at \in {"backup", "delete"} => repair.left \subseteq S!MissingTargets(before, repair.finding)
  BY DEF Upright, Lefts
<1>5. Spares
  BY <1>1, <1>2, <1>4, AutostartSteps, NothingSpared, CouldSpare
<1>6. \/ /\ repair.at \in Early /\ setting' = setting
         /\ Ends("failed") \/ Ends("unchanged") \/ Ends("done") \/ GoesTo("backup") \/ GoesTo("delete")
      \/ GoesTo("delete") \/ GoesTo("read") \/ Ends("failed") \/ Ends("done")
  BY <1>1, <1>3, AutostartSteps
<1>7. Moves
  BY <1>3, <1>6, MovesOn, MovesOff
<1>8. Heeds
  <2>1. SUFFICES ASSUME ~Wrong(repair.finding, before)
                 PROVE  setting' = before /\ repair' = NoRepair
    BY DEF Heeds
  <2>2. setting = before /\ repair.at \in {"begin", "key", "flush"} /\ S!MissingTargets(setting, repair.finding) = {}
    BY <2>1 DEF Upright, Wrong
  <2>3. QED BY <1>1, <2>2, AutostartSteps, EndsRepair
<1>9. Leads
  <2>1. SUFFICES ASSUME repair' # NoRepair, repair'.at \in {"backup", "delete"}
                 PROVE  repair'.left \subseteq S!MissingTargets(before, repair'.finding)
    BY DEF Leads, Lefts, around
  <2>2. repair'.finding = repair.finding /\ repair'.left \subseteq S!MissingTargets(before, repair.finding)
    BY <1>1, <1>3, <1>4, <2>1, AutostartSteps, EndsRepair DEF GoesTo
  <2>3. QED BY <2>2
<1>10. QED BY <1>1, <1>5, <1>7, <1>8, <1>9, PlainBehaves


(* What depends on the edition is not in force when that cannot be read.   *)
LEMMA FewerHits ==
  ASSUME NEW f, NEW s, NEW edition \in BOOLEAN
  PROVE  T!PolicyHit(f, s, edition) \subseteq T!PolicyHit(f, s, TRUE)
<1>1. CASE edition
  BY <1>1
<1>2. CASE ~edition
  BY <1>2 DEF T!PolicyHit
<1>3. QED BY <1>1, <1>2

LEMMA HitsAreTouched ==
  ASSUME part = "policies", NEW f \in T!PolicyIds, NEW s, NEW edition
  PROVE  T!PolicyHit(f, s, edition) \subseteq Touches(f)
<1>1. Touches(f) = T!Touches("policies", f)
  BY TouchesAre DEF T!Parts
<1>2. f \in {"wsus", "store", "defender", "blocked", "hidden", "noAutoUpdate"}
  BY DEF T!PolicyIds, T!SingleValues
<1>3. CASE f = "wsus"
  BY <1>1, <1>3 DEF T!PolicyHit, T!Touches
<1>4. CASE f = "store"
  BY <1>1, <1>4 DEF T!PolicyHit, T!Touches
<1>5. CASE f = "defender"
  BY <1>1, <1>5 DEF T!PolicyHit, T!Touches
<1>6. CASE f \notin {"wsus", "store", "defender"}
  BY <1>1, <1>6 DEF T!PolicyHit, T!Touches
<1>7. QED BY <1>3, <1>4, <1>5, <1>6

LEMMA PoliciesBehave ==
  ASSUME part = "policies", T!FixPolicy(repair.finding),
         WellMade, Upright, ~Idle, UNCHANGED around
  PROVE  Behaves
<1>1. Formed /\ part \in Plain /\ repair.finding \in T!PolicyIds
  BY DEF WellMade, Plain, T!Parts, Repairable, Cures
<1>2. /\ Touches(repair.finding) = T!Touches("policies", repair.finding)
      /\ repair.finding = "defender" => "realtime" \in Touches(repair.finding)
  <2>1. Touches(repair.finding) = T!Touches("policies", repair.finding)
    BY TouchesAre DEF T!Parts
  <2>2. QED BY <2>1 DEF T!Touches
<1>3. Early = {"begin", "backup", "key", "known"}
  BY DEF Early
<1>4. /\ repair.at \in Early => setting = before
      /\ repair.at \in {"backup", "delete"} => repair.left \subseteq T!Touches("policies", repair.finding)
      /\ repair.at = "wait" => repair.finding = "defender"
  BY DEF Upright, Lefts
<1>5. Spares
  <2>1. CASE repair.at \in {"begin", "backup", "check"}
    BY <1>1, <2>1, PolicySteps, NothingSpared
  <2>2. CASE repair.at = "delete"
    <3>1. PICK v \in repair.left : Could(v, FALSE)
      BY <1>1, <2>2, PolicySteps
    <3>2. QED BY <1>2, <1>4, <2>2, <3>1, CouldSpare
  <2>3. CASE repair.at = "wait"
    <3>1. PICK on : setting' = [setting EXCEPT !.realtime = on]
      BY <1>1, <2>3, PolicySteps
    <3>2. QED BY <1>2, <1>4, <2>3, <3>1, OneSpared
  <2>4. QED BY <1>1, <2>1, <2>2, <2>3, PolicySteps
<1>6. \/ /\ repair.at \in Early /\ setting' = setting
         /\ Ends("failed") \/ Ends("unchanged") \/ GoesTo("backup") \/ GoesTo("delete")
      \/ GoesTo("delete") \/ GoesTo("check") \/ GoesTo("wait")
      \/ Ends("failed") \/ Ends("done") \/ Ends("unproved")
  <2>1. CASE repair.at \in {"begin", "backup"}
    BY <1>1, <1>3, <2>1, PolicySteps
  <2>2. CASE repair.at = "delete"
    BY <1>1, <2>2, PolicySteps
  <2>3. CASE repair.at \in {"check", "wait"}
    BY <1>1, <2>3, PolicySteps
  <2>4. QED BY <1>1, <2>1, <2>2, <2>3, PolicySteps
<1>7. Moves
  BY <1>3, <1>6, MovesOn, MovesOff
<1>8. Heeds
  <2>1. SUFFICES ASSUME ~Wrong(repair.finding, before)
                 PROVE  setting' = before /\ repair' = NoRepair
    BY DEF Heeds
  <2>2. setting = before /\ repair.at \in {"begin", "key", "flush"} /\ T!PolicyHit(repair.finding, setting, TRUE) = {}
    BY <2>1 DEF Upright, Wrong
  <2>3. repair.at = "begin"
    BY <1>1, <2>2, PolicySteps
  <2>4. \A edition \in BOOLEAN : T!PolicyHit(repair.finding, setting, edition) = {}
    BY <2>2, FewerHits
  <2>5. setting' = setting /\ (Ends("failed") \/ Ends("unchanged"))
    BY <1>1, <2>3, <2>4, PolicySteps
  <2>6. QED BY <2>2, <2>5, EndsRepair
<1>9. Leads
  <2>1. SUFFICES ASSUME repair' # NoRepair
                 PROVE  /\ repair'.finding = repair.finding
                        /\ repair'.at \in {"backup", "delete"} => repair'.left \subseteq T!Touches("policies", repair.finding)
                        /\ repair'.at = "wait" => repair.finding = "defender"
    BY DEF Leads, Lefts, around
  <2>2. QED
    <3>1. CASE repair.at = "begin"
      <4>1. PICK edition \in BOOLEAN : GoesTo("backup") /\ repair'.left = T!PolicyHit(repair.finding, setting, edition)
        BY <1>1, <2>1, <3>1, PolicySteps, EndsRepair
      <4>2. QED BY <1>1, <1>2, <4>1, HitsAreTouched DEF GoesTo
    <3>2. CASE repair.at = "backup"
      <4>1. GoesTo("delete") /\ repair'.left = repair.left
        BY <1>1, <2>1, <3>2, PolicySteps, EndsRepair
      <4>2. QED BY <1>4, <3>2, <4>1 DEF GoesTo
    <3>3. CASE repair.at = "delete"
      <4>1. PICK v \in repair.left : (GoesTo("delete") \/ GoesTo("check")) /\ repair'.left = repair.left \ {v}
        BY <1>1, <2>1, <3>3, PolicySteps, EndsRepair
      <4>2. QED BY <1>4, <3>3, <4>1 DEF GoesTo
    <3>4. CASE repair.at \in {"check", "wait"}
      <4>1. repair.finding = "defender" /\ GoesTo("wait")
        BY <1>1, <1>4, <2>1, <3>4, PolicySteps, EndsRepair
      <4>2. QED BY <4>1 DEF GoesTo
    <3>5. QED BY <1>1, <3>1, <3>2, <3>3, <3>4, PolicySteps
<1>10. QED BY <1>1, <1>5, <1>7, <1>8, <1>9, PlainBehaves

(* What the repair of the OpenGL entries has seen where it is.             *)
LEMMA OpenGlLooks ==
  ASSUME Formed, H!RepairOpenGl
  PROVE  /\ repair.at = "begin" /\ repair'.at = "key" => setting.card = "works"
         /\ repair.at = "key" /\ repair'.at = "backup" => H!BrokenEntries(setting) \subseteq setting.beside
         /\ repair.at = "set" /\ repair'.at = "set" => repair'.left # {}
<1>. USE DEF H!At, H!Go, H!Step, H!Return, H!End, H!NoAnswer, H!With,
            NoRepair, NoFinding, H!NoRepair, H!NoFinding
<1>1. ASSUME repair.at = "begin", repair'.at = "key" PROVE setting.card = "works"
  BY <1>1 DEF H!RepairOpenGl
<1>2. ASSUME repair.at = "key", repair'.at = "backup" PROVE H!BrokenEntries(setting) \subseteq setting.beside
  BY <1>2 DEF H!RepairOpenGl, H!Take
<1>3. ASSUME repair.at = "set", repair'.at = "set" PROVE repair'.left # {}
  <2>1. PICK e : H!SetEntry(e)
    BY <1>3 DEF H!RepairOpenGl
  <2>2. repair' # NoRepair
    BY <1>3
  <2>3. \E s : H!Step(s, saved, IF repair.left \ {e} = {} THEN "read" ELSE "set", repair.left \ {e})
    BY <2>1, <2>2 DEF H!SetEntry
  <2>4. /\ repair'.at = IF repair.left \ {e} = {} THEN "read" ELSE "set"
        /\ repair'.left = repair.left \ {e}
    BY <2>3 DEF Formed
  <2>5. QED BY <1>3, <2>4
<1>4. QED BY <1>1, <1>2, <1>3

LEMMA OpenGlBehaves ==
  ASSUME part = "opengl", H!RepairOpenGl,
         WellMade, Upright, ~Idle, UNCHANGED around
  PROVE  Behaves
<1>1. Formed /\ part \in Plain
  BY DEF WellMade, Plain, H!Parts
<1>2. Touches(repair.finding) = H!BrokenEntries(before)
  BY TouchesAre DEF H!Parts, H!Touches
<1>3. Early = {"begin", "backup", "key", "known"}
  BY DEF Early
<1>4. /\ repair.at \in Early => setting = before
      /\ repair.at = "key" => before.card = "works"
      /\ repair.at \in {"backup", "set"} =>
           /\ repair.left # {} /\ repair.left \subseteq H!BrokenEntries(before)
           /\ repair.left = H!BrokenEntries(before) => setting = before
  BY DEF Upright, Lefts
<1>5. ASSUME repair.at = "set"
      PROVE  \E e \in repair.left :
               /\ Could(e, "there")
               /\ \/ (GoesTo("set") \/ GoesTo("read")) /\ repair'.left = repair.left \ {e}
                  \/ Ends("failed")
                  \/ Ends("unchanged") /\ (setting' = before \/ "late" \in Lapses)
  <2>1. PICK e \in {"wide", "wow"} :
          /\ "wide" \in repair.left => e = "wide"
          /\ "wide" \notin repair.left => e = "wow"
          /\ Could(e, "there")
          /\ \/ (GoesTo("set") \/ GoesTo("read")) /\ repair'.left = repair.left \ {e}
             \/ Ends("failed")
             \/ /\ repair.left = H!BrokenEntries(before)
                /\ setting' = setting \/ "late" \in Lapses
                /\ Ends("unchanged")
    BY <1>1, <1>5, OpenGlSteps
  <2>2. e \in repair.left
    <3>1. repair.left \subseteq {"wide", "wow"} /\ repair.left # {}
      BY <1>4, <1>5 DEF H!BrokenEntries, H!Entries
    <3>2. QED BY <2>1, <3>1
  <2>3. QED BY <1>4, <1>5, <2>1, <2>2
<1>6. Spares
  <2>1. CASE repair.at = "set"
    BY <1>2, <1>4, <1>5, <2>1, CouldSpare
  <2>2. CASE repair.at # "set"
    BY <1>1, <2>2, OpenGlSteps, NothingSpared
  <2>3. QED BY <2>1, <2>2
<1>7. Moves
  <2>1. CASE repair.at = "set"
    BY <1>3, <1>5, <2>1 DEF Moves
  <2>2. CASE repair.at # "set"
    <3>1. \/ /\ repair.at \in Early /\ setting' = setting
             /\ \/ Ends("failed") \/ Ends("unchanged") \/ Ends("done") \/ GoesTo("key") \/ GoesTo("backup")
                \/ GoesTo("set")
          \/ Ends("failed") \/ Ends("done")
      BY <1>1, <1>3, <2>2, OpenGlSteps
    <3>2. QED BY <1>3, <3>1, MovesOn, MovesOff
  <2>3. QED BY <2>1, <2>2
<1>8. Heeds
  <2>1. SUFFICES ASSUME ~Wrong(repair.finding, before)
                 PROVE  setting' = before /\ (repair' = NoRepair \/ repair'.at = "key")
    BY DEF Heeds
  <2>2. /\ setting = before /\ repair.at \in {"begin", "key", "flush"}
        /\ ~(setting.card = "works" /\ H!BrokenEntries(setting) # {} /\ H!BrokenEntries(setting) \subseteq setting.beside)
    BY <2>1 DEF Upright, Wrong
  <2>3. CASE repair.at = "begin"
    BY <1>1, <2>2, <2>3, OpenGlSteps, EndsRepair DEF GoesTo
  <2>4. CASE repair.at = "key"
    <3>1. \/ repair' = NoRepair /\ setting' = setting
          \/ H!BrokenEntries(setting) # {} /\ GoesTo("backup")
      BY <1>1, <2>4, OpenGlSteps, EndsRepair
    <3>2. ~(H!BrokenEntries(setting) # {} /\ GoesTo("backup"))
      BY <1>1, <1>4, <2>2, <2>4, OpenGlLooks DEF GoesTo
    <3>3. QED BY <2>2, <3>1, <3>2
  <2>5. QED BY <1>1, <2>2, <2>3, <2>4, OpenGlSteps
<1>9. Leads
  <2>1. SUFFICES ASSUME repair' # NoRepair
                 PROVE  /\ repair'.at = "key" => before.card = "works"
                        /\ repair'.at \in {"backup", "set"} =>
                             /\ repair'.left # {} /\ repair'.left \subseteq H!BrokenEntries(before)
                             /\ repair'.left = H!BrokenEntries(before) => setting' = before
    BY DEF Leads, Lefts, around
  <2>2. CASE repair.at = "begin"
    <3>1. GoesTo("key")
      BY <1>1, <2>1, <2>2, OpenGlSteps, EndsRepair
    <3>2. QED BY <1>1, <1>3, <1>4, <2>2, <3>1, OpenGlLooks DEF GoesTo
  <2>3. CASE repair.at = "key"
    <3>1. /\ GoesTo("backup") /\ repair'.left = H!BrokenEntries(setting) /\ H!BrokenEntries(setting) # {}
          /\ setting' = setting
      BY <1>1, <2>1, <2>3, OpenGlSteps, EndsRepair
    <3>2. QED BY <1>3, <1>4, <2>3, <3>1 DEF GoesTo
  <2>4. CASE repair.at = "backup"
    <3>1. GoesTo("set") /\ repair'.left = repair.left /\ setting' = setting
      BY <1>1, <2>1, <2>4, OpenGlSteps, EndsRepair
    <3>2. QED BY <1>4, <2>4, <3>1 DEF GoesTo
  <2>5. CASE repair.at = "set"
    <3>1. PICK e \in repair.left : (GoesTo("set") \/ GoesTo("read")) /\ repair'.left = repair.left \ {e}
      BY <1>5, <2>1, <2>5, EndsRepair
    <3>2. repair'.at = "set" => repair'.left # {}
      BY <1>1, <2>5, OpenGlLooks
    <3>3. repair'.at \in {"set", "read"}
      BY <3>1 DEF GoesTo
    <3>4. repair'.left \subseteq H!BrokenEntries(before) /\ repair'.left # H!BrokenEntries(before)
      BY <1>4, <2>5, <3>1
    <3>5. QED BY <3>2, <3>3, <3>4
  <2>6. CASE repair.at = "read"
    BY <1>1, <2>1, <2>6, OpenGlSteps, EndsRepair
  <2>7. QED BY <1>1, <2>2, <2>3, <2>4, <2>5, <2>6, OpenGlSteps
<1>10. QED BY <1>1, <1>6, <1>7, <1>8, <1>9, PlainBehaves


(* The hosts file keeps the names Windows does not need.                   *)
LEMMA UnblockingKeeps ==
  ASSUME NEW file
  PROVE  (UNION T!UnblockHosts(file)) \ T!Needed = (UNION file) \ T!Needed
<1>1. ASSUME NEW n \in (UNION T!UnblockHosts(file)) \ T!Needed
      PROVE  n \in (UNION file) \ T!Needed
  <2>1. PICK line \in T!UnblockHosts(file) : n \in line
    BY <1>1
  <2>2. line \in file \/ \E l \in file : line = l \ T!Needed
    BY <2>1 DEF T!UnblockHosts, T!HostsBlocks
  <2>3. QED BY <1>1, <2>1, <2>2
<1>2. ASSUME NEW n \in (UNION file) \ T!Needed
      PROVE  n \in (UNION T!UnblockHosts(file)) \ T!Needed
  <2>1. PICK line \in file : n \in line
    BY <1>2
  <2>2. CASE line \in T!HostsBlocks(file)
    <3>1. n \in line \ T!Needed /\ line \ T!Needed # {}
      BY <1>2, <2>1
    <3>2. line \ T!Needed \in T!UnblockHosts(file)
      BY <2>2, <3>1 DEF T!UnblockHosts
    <3>3. QED BY <1>2, <3>1, <3>2
  <2>3. CASE line \notin T!HostsBlocks(file)
    <3>1. line \in T!UnblockHosts(file)
      BY <2>1, <2>3 DEF T!UnblockHosts
    <3>2. QED BY <1>2, <2>1, <3>1
  <2>4. QED BY <2>2, <2>3
<1>3. QED BY <1>1, <1>2

LEMMA HostsBehave ==
  ASSUME part = "hosts", T!FixHosts,
         WellMade, Upright, ~Idle, UNCHANGED around
  PROVE  Behaves
<1>1. Formed /\ "hosts" \in DOMAIN setting
  BY DEF WellMade, Rooms, KeptItems
<1>2. "begin" \in Early /\ "flush" \notin Early
  BY DEF Early
<1>3. repair.at = "begin" => setting = before
  BY <1>2 DEF Upright
<1>4. Moves
  BY <1>1, <1>2, HostsSteps, MovesOn, MovesOff
<1>5. Heeds
  <2>1. SUFFICES ASSUME ~Wrong(repair.finding, before)
                 PROVE  setting' = before /\ (repair' = NoRepair \/ repair'.at = "flush")
    BY DEF Heeds
  <2>2. setting = before /\ T!HostsBlocks(setting.hosts) = {}
    BY <2>1 DEF Upright, Wrong
  <2>3. QED BY <1>1, <2>2, HostsSteps, EndsRepair DEF GoesTo
<1>6. Leads
  BY DEF Leads, Lefts, around
<1>7. DOMAIN setting' = DOMAIN setting
  BY <1>1, HostsSteps
<1>8. Kept(repair.finding, setting') = Kept(repair.finding, before)
  <2>1. \A f, s : Kept(f, s) = (UNION s.hosts) \ T!Needed
    BY KeptIs
  <2>2. CASE setting' = setting
    BY <2>2 DEF Upright
  <2>3. CASE setting' = [setting EXCEPT !.hosts = T!UnblockHosts(setting.hosts)] /\ repair.at = "begin"
    <3>1. setting'.hosts = T!UnblockHosts(before.hosts)
      BY <1>1, <1>3, <2>3
    <3>2. QED BY <2>1, <3>1, UnblockingKeeps
  <2>4. CASE setting' = [setting EXCEPT !.hosts = setting.hosts \cup {{"update"}}] /\ repair.at = "begin"
    <3>1. setting'.hosts = before.hosts \cup {{"update"}}
      BY <1>1, <1>3, <2>4
    <3>2. "update" \in T!Needed
      BY DEF T!Needed
    <3>3. (UNION setting'.hosts) \ T!Needed = (UNION before.hosts) \ T!Needed
      BY <3>1, <3>2
    <3>4. QED BY <2>1, <3>3
  <2>5. QED BY <1>1, <2>2, <2>3, <2>4, HostsSteps
<1>9. Lent(setting') = Lent(before)
  BY LentIs DEF Parts, T!Parts
<1>10. Rooms'
  <2>1. KeptItems' = {"hosts"}
    BY DEF KeptItems, around
  <2>2. QED BY <1>1, <1>7, <2>1 DEF Rooms, around
<1>11. \A f : Holds(f, setting) => Holds(f, setting')
  BY DEF Holds
<1>12. QED BY <1>4, <1>5, <1>6, <1>7, <1>8, <1>9, <1>10, <1>11 DEF Behaves

(* Where only some of the settings of a part must be left alone.           *)
Partial == C!Parts \cup (I!Parts \ {"store"}) \cup K!Parts

LEMMA PartialBehaves ==
  ASSUME part \in Partial, WellMade, Upright, ~Idle, UNCHANGED around, Moves, Heeds, Leads,
         DOMAIN setting' = DOMAIN setting,
         Kept(repair.finding, setting') = Kept(repair.finding, setting)
  PROVE  Behaves
<1>1. part \in Parts /\ part \notin {"services", "policies", "restart", "store"}
  BY DEF Partial, Parts, C!Parts, I!Parts, K!Parts
<1>2. Kept(repair.finding, setting') = Kept(repair.finding, before)
  BY DEF Upright
<1>3. Lent(setting') = Lent(before)
  BY <1>1, LentIs
<1>4. Rooms'
  <2>1. KeptItems' = KeptItems
    BY DEF KeptItems, around
  <2>2. part' = part
    BY DEF around
  <2>3. QED BY <1>1, <2>1, <2>2 DEF Rooms, WellMade
<1>5. \A f : Holds(f, setting) => Holds(f, setting')
  BY <1>1 DEF Holds
<1>6. QED BY <1>2, <1>3, <1>4, <1>5 DEF Behaves

(* A part without anything more to go by, where no repair looks again.     *)
LEMMA PlainlyHeeds ==
  ASSUME part \in Partial \ {"downloads", "apps", "addon"}, UNCHANGED around
  PROVE  Heeds /\ Leads
<1>1. part \notin {"devices", "threshold", "policies", "hosts", "adapter", "autostart", "restart", "opengl",
                   "device", "apps", "addon", "downloads", "updates", "store"}
  BY DEF Partial, C!Parts, I!Parts, K!Parts
<1>2. Heeds
  BY <1>1 DEF Heeds, Wrong
<1>3. Leads
  BY <1>1 DEF Leads, Lefts, around
<1>4. QED BY <1>2, <1>3

(* Of a folder or a volume nothing needs to be left alone.                 *)
LEMMA NothingKept ==
  ASSUME part \in {"icons", "temp", "cache", "delivery", "downloads", "vss", "winre", "wmi"}
  PROVE  \A f, s : Kept(f, s) = {}
<1>1. CASE part \in {"icons", "temp", "cache", "delivery", "downloads"}
  BY <1>1, KeptIs DEF C!Parts, C!Kept
<1>2. CASE part \in {"vss", "winre", "wmi"}
  BY <1>2, KeptIs DEF I!Parts, I!Kept
<1>3. QED BY <1>1, <1>2

LEMMA EarlyPlaces ==
  /\ "begin" \in Early
  /\ part # "clock" =>
       Early = {"begin", "backup", "key", "known"}
  BY DEF Early

LEMMA DirtyBehaves ==
  ASSUME part = "dirty", C!RunChkdsk, WellMade, Upright, ~Idle, UNCHANGED around
  PROVE  Behaves
<1>1. part \in Partial \ {"downloads", "apps", "addon"} /\ "worn" \in DOMAIN setting
  BY DEF Partial, C!Parts, WellMade, Rooms, KeptItems
<1>2. Moves
  BY ChkdskSteps, MovesOff
<1>3. DOMAIN setting' = DOMAIN setting /\ setting'.worn = setting.worn
  BY <1>1, ChkdskSteps
<1>4. Kept(repair.finding, setting') = Kept(repair.finding, setting)
  BY <1>3, KeptIs DEF C!Parts, C!Kept
<1>5. QED BY <1>1, <1>2, <1>3, <1>4, PlainlyHeeds, PartialBehaves

LEMMA IconsBehave ==
  ASSUME part = "icons", C!RebuildIconCache, WellMade, Upright, ~Idle, UNCHANGED around
  PROVE  Behaves
<1>1. part \in Partial \ {"downloads", "apps", "addon"}
  BY DEF Partial, C!Parts
<1>2. Moves
  BY IconSteps, MovesOff
<1>3. DOMAIN setting' = DOMAIN setting
  BY IconSteps
<1>4. Kept(repair.finding, setting') = Kept(repair.finding, setting)
  BY NothingKept
<1>5. QED BY <1>1, <1>2, <1>3, <1>4, PlainlyHeeds, PartialBehaves

LEMMA SweptWell == \A files : C!CleanupResult(files) \in {"done", "failed"}
  BY DEF C!CleanupResult

LEMMA FolderBehaves ==
  ASSUME NEW f, part \in {"temp", "cache"}, C!CleanFolder(f), WellMade, Upright, ~Idle, UNCHANGED around
  PROVE  Behaves
<1>1. part \in Partial \ {"downloads", "apps", "addon"} /\ Formed
  BY DEF Partial, C!Parts, WellMade
<1>2. Moves
  <2>1. CASE repair.at = "begin" /\ setting' = setting /\ GoesTo("sweep")
    BY <2>1, EarlyPlaces, MovesOn
  <2>2. CASE Ends(C!CleanupResult(setting[f]))
    <3>1. C!CleanupResult(setting[f]) # "unchanged"
      BY SweptWell
    <3>2. QED BY <2>2, <3>1, MovesOff
  <2>3. QED BY <1>1, <2>1, <2>2, FolderSteps
<1>3. DOMAIN setting' = DOMAIN setting
  BY <1>1, FolderSteps
<1>4. Kept(repair.finding, setting') = Kept(repair.finding, setting)
  BY NothingKept
<1>5. QED BY <1>1, <1>2, <1>3, <1>4, PlainlyHeeds, PartialBehaves

LEMMA DeliveryBehaves ==
  ASSUME part = "delivery", C!CleanDelivery, WellMade, Upright, ~Idle, UNCHANGED around
  PROVE  Behaves
<1>1. part \in Partial \ {"downloads", "apps", "addon"} /\ Formed
  BY DEF Partial, C!Parts, WellMade
<1>2. Moves
  <2>1. CASE GoesTo("rest")
    <3>1. "rest" \notin Early
      BY EarlyPlaces
    <3>2. QED BY <2>1, <3>1, MovesOn
  <2>2. CASE repair.at = "begin" /\ setting' = setting /\ GoesTo("sweep")
    BY <2>2, EarlyPlaces, MovesOn
  <2>3. CASE Ends("done")
    BY <2>3, MovesOff
  <2>4. CASE Ends(C!CleanupResult(setting.delivery))
    <3>1. C!CleanupResult(setting.delivery) # "unchanged"
      BY SweptWell
    <3>2. QED BY <2>4, <3>1, MovesOff
  <2>5. QED BY <1>1, <2>1, <2>2, <2>3, <2>4, DeliverySteps
<1>3. DOMAIN setting' = DOMAIN setting
  BY <1>1, DeliverySteps
<1>4. Kept(repair.finding, setting') = Kept(repair.finding, setting)
  BY NothingKept
<1>5. QED BY <1>1, <1>2, <1>3, <1>4, PlainlyHeeds, PartialBehaves

LEMMA DownloadsBehave ==
  ASSUME part = "downloads", C!CleanUpdateCache, WellMade, Upright, ~Idle, UNCHANGED around
  PROVE  Behaves
<1>1. part \in Partial /\ Formed
  BY DEF Partial, C!Parts, WellMade
<1>2. ~config.auto_restart_services => repair.at = "begin"
  BY DEF Upright, Lefts
<1>3. Moves
  <2>1. CASE repair.at = "begin" /\ setting' = setting /\ (GoesTo("sweep") \/ Ends("unchanged"))
    BY <2>1, EarlyPlaces, MovesOn, MovesOff
  <2>2. CASE GoesTo("start")
    <3>1. "start" \notin Early
      BY EarlyPlaces
    <3>2. QED BY <2>2, <3>1, MovesOn
  <2>3. CASE Ends("failed")
    BY <2>3, MovesOff
  <2>4. CASE Ends(C!CleanupResult(repair.left))
    <3>1. C!CleanupResult(repair.left) # "unchanged"
      BY SweptWell
    <3>2. QED BY <2>4, <3>1, MovesOff
  <2>5. QED BY <1>1, <1>2, <2>1, <2>2, <2>3, <2>4, UpdateCacheSteps
<1>4. Heeds
  BY DEF Heeds, Wrong
<1>5. Leads
  <2>1. repair' # NoRepair => config.auto_restart_services
    BY <1>1, UpdateCacheSteps DEF Ends
  <2>2. QED BY <2>1 DEF Leads, Lefts, around
<1>6. DOMAIN setting' = DOMAIN setting
  BY <1>1, UpdateCacheSteps
<1>7. Kept(repair.finding, setting') = Kept(repair.finding, setting)
  BY NothingKept
<1>8. QED BY <1>1, <1>3, <1>4, <1>5, <1>6, <1>7, PartialBehaves

LEMMA LogsBehave ==
  ASSUME part = "logs", C!CleanLogs, WellMade, Upright, ~Idle, UNCHANGED around
  PROVE  Behaves
<1>1. part \in Partial \ {"downloads", "apps", "addon"} /\ Formed /\ "logs" \in DOMAIN setting
  BY DEF Partial, C!Parts, WellMade, Rooms, KeptItems
<1>2. Moves
  BY <1>1, LogSteps, EarlyPlaces, MovesOn, MovesOff
<1>3. DOMAIN setting' = DOMAIN setting /\ setting'.logs \ {"log"} = setting.logs \ {"log"}
  BY <1>1, LogSteps
<1>4. Kept(repair.finding, setting') = Kept(repair.finding, setting)
  BY <1>3, KeptIs DEF C!Parts, C!Kept
<1>5. QED BY <1>1, <1>2, <1>3, <1>4, PlainlyHeeds, PartialBehaves

LEMMA BinBehaves ==
  ASSUME part = "bin", C!EmptyRecycleBin, WellMade, Upright, ~Idle, UNCHANGED around
  PROVE  Behaves
<1>1. part \in Partial \ {"downloads", "apps", "addon"} /\ Formed
  BY DEF Partial, C!Parts, WellMade
<1>2. Moves
  <2>1. CASE GoesTo("sweep")
    <3>1. "sweep" \notin Early
      BY EarlyPlaces
    <3>2. QED BY <2>1, <3>1, MovesOn
  <2>2. CASE Ends("failed") \/ Ends("done")
    BY <2>2, MovesOff
  <2>3. QED BY <1>1, <2>1, <2>2, BinSteps
<1>3. DOMAIN setting' = DOMAIN setting
  BY <1>1, BinSteps
<1>4. \A d \in DOMAIN setting :
        (IF d \in C!Drives THEN setting'[d] \cap {"stub"} ELSE setting'[d])
          = IF d \in C!Drives THEN setting[d] \cap {"stub"} ELSE setting[d]
  <2>1. CASE \E cleared \in SUBSET C!Drives :
               setting' = [d \in DOMAIN setting |-> IF d \in cleared THEN setting[d] \ {"item"} ELSE setting[d]]
    BY <2>1
  <2>2. CASE setting' = [d \in DOMAIN setting |->
                           IF d \in C!Drives THEN setting[d] \cap {"stub"} ELSE setting[d]]
    BY <2>2
  <2>3. QED BY <1>1, <2>1, <2>2, BinSteps
<1>5. Kept(repair.finding, setting') = Kept(repair.finding, setting)
  <2>1. \A f, s : Kept(f, s) = [d \in DOMAIN s |-> IF d \in C!Drives THEN s[d] \cap {"stub"} ELSE s[d]]
    BY KeptIs DEF C!Parts, C!Kept
  <2>2. QED BY <1>3, <1>4, <2>1
<1>6. QED BY <1>1, <1>2, <1>3, <1>5, PlainlyHeeds, PartialBehaves

LEMMA WinSxSBehaves ==
  ASSUME part = "winsxs", C!CleanComponentStore, WellMade, Upright, ~Idle, UNCHANGED around
  PROVE  Behaves
<1>1. part \in Partial \ {"downloads", "apps", "addon"} /\ Formed /\ "stuck" \in DOMAIN setting
  BY DEF Partial, C!Parts, WellMade, Rooms, KeptItems
<1>2. Moves
  <2>1. CASE repair.at = "begin" /\ setting' = setting /\ GoesTo("cleanup")
    BY <2>1, EarlyPlaces, MovesOn
  <2>2. CASE GoesTo("count")
    <3>1. "count" \notin Early
      BY EarlyPlaces
    <3>2. QED BY <2>2, <3>1, MovesOn
  <2>3. CASE \E how \in {"failed", "done", "nothing", "unproved"} : Ends(how)
    BY <2>3, MovesOff
  <2>4. QED BY <1>1, <2>1, <2>2, <2>3, WinSxSSteps
<1>3. DOMAIN setting' = DOMAIN setting /\ setting'.stuck = setting.stuck
  BY <1>1, WinSxSSteps
<1>4. Kept(repair.finding, setting') = Kept(repair.finding, setting)
  BY <1>3, KeptIs DEF C!Parts, C!Kept
<1>5. QED BY <1>1, <1>2, <1>3, <1>4, PlainlyHeeds, PartialBehaves

(* The repairs of Windows' own files.                                      *)
LEMMA SfcBehaves ==
  ASSUME part = "sfc", I!RunSfc, WellMade, Upright, ~Idle, UNCHANGED around
  PROVE  Behaves
<1>1. part \in Partial \ {"downloads", "apps", "addon"} /\ "stuck" \in DOMAIN setting
  BY DEF Partial, I!Parts, WellMade, Rooms, KeptItems
<1>2. Moves
  BY SfcSteps, MovesOff
<1>3. DOMAIN setting' = DOMAIN setting /\ setting'.stuck = setting.stuck
  BY <1>1, SfcSteps
<1>4. Kept(repair.finding, setting') = Kept(repair.finding, setting)
  BY <1>3, KeptIs DEF I!Parts, I!Kept
<1>5. QED BY <1>1, <1>2, <1>3, <1>4, PlainlyHeeds, PartialBehaves

LEMMA VssBehaves ==
  ASSUME part = "vss", I!EnableVss, WellMade, Upright, ~Idle, UNCHANGED around
  PROVE  Behaves
<1>1. part \in Partial \ {"downloads", "apps", "addon"} /\ Formed
  BY DEF Partial, I!Parts, WellMade
<1>2. "start" \notin Early /\ "read" \notin Early
  BY EarlyPlaces
<1>3. Moves
  BY <1>1, <1>2, VssSteps, MovesOn, MovesOff
<1>4. DOMAIN setting' = DOMAIN setting
  BY <1>1, VssSteps DEF Could
<1>5. Kept(repair.finding, setting') = Kept(repair.finding, setting)
  BY NothingKept
<1>6. QED BY <1>1, <1>3, <1>4, <1>5, PlainlyHeeds, PartialBehaves

LEMMA WinReBehaves ==
  ASSUME part = "winre", I!EnableWinRe, WellMade, Upright, ~Idle, UNCHANGED around
  PROVE  Behaves
<1>1. part \in Partial \ {"downloads", "apps", "addon"} /\ Formed
  BY DEF Partial, I!Parts, WellMade
<1>2. "read" \notin Early
  BY EarlyPlaces
<1>3. Moves
  BY <1>1, <1>2, WinReSteps, MovesOn, MovesOff
<1>4. DOMAIN setting' = DOMAIN setting
  BY <1>1, WinReSteps DEF Could
<1>5. Kept(repair.finding, setting') = Kept(repair.finding, setting)
  BY NothingKept
<1>6. QED BY <1>1, <1>3, <1>4, <1>5, PlainlyHeeds, PartialBehaves

LEMMA WmiBehaves ==
  ASSUME part = "wmi", I!SalvageWmi, WellMade, Upright, ~Idle, UNCHANGED around
  PROVE  Behaves
<1>1. part \in Partial \ {"downloads", "apps", "addon"} /\ Formed
  BY DEF Partial, I!Parts, WellMade
<1>2. "probe" \notin Early
  BY EarlyPlaces
<1>3. Moves
  BY <1>1, <1>2, WmiSteps, MovesOn, MovesOff
<1>4. DOMAIN setting' = DOMAIN setting
  BY <1>1, WmiSteps
<1>5. Kept(repair.finding, setting') = Kept(repair.finding, setting)
  BY NothingKept
<1>6. QED BY <1>1, <1>3, <1>4, <1>5, PlainlyHeeds, PartialBehaves

LEMMA AppsBehave ==
  ASSUME part = "apps", I!ReregisterPackages, WellMade, Upright, ~Idle, UNCHANGED around
  PROVE  Behaves
<1>1. part \in Partial /\ Formed
  BY DEF Partial, I!Parts, WellMade
<1>2. "begin" \in Early /\ "register" \notin Early /\ "read" \notin Early
  BY EarlyPlaces
<1>3. /\ repair.at = "begin" => setting = before
      /\ repair.at = "register" => repair.left \subseteq I!BrokenPackages(before)
  BY <1>2 DEF Upright, Lefts
<1>4. Moves
  BY <1>1, <1>2, AppsSteps, MovesOn, MovesOff
<1>5. Heeds
  <2>1. SUFFICES ASSUME ~Wrong(repair.finding, before)
                 PROVE  setting' = before /\ repair' = NoRepair
    BY DEF Heeds
  <2>2. setting = before /\ I!BrokenPackages(setting) = {} /\ repair.at \in {"begin", "key", "flush"}
    BY <2>1 DEF Upright, Wrong
  <2>3. QED BY <1>1, <2>2, AppsSteps, EndsRepair
<1>6. Leads
  <2>1. SUFFICES ASSUME repair' # NoRepair, repair'.at = "register"
                 PROVE  repair'.left \subseteq I!BrokenPackages(before)
    BY DEF Leads, Lefts, around
  <2>2. GoesTo("register") /\ repair'.left = I!BrokenPackages(setting) /\ repair.at = "begin"
    BY <1>1, <2>1, AppsSteps, EndsRepair DEF GoesTo
  <2>3. QED BY <1>3, <2>2
<1>7. DOMAIN setting' = DOMAIN setting
  BY <1>1, AppsSteps
<1>8. \A a \in DOMAIN setting \ I!BrokenPackages(before) : setting'[a] = setting[a]
  <2>1. CASE setting' = setting
    BY <2>1
  <2>2. CASE repair.at = "register" /\ \E fixed \in SUBSET repair.left :
               setting' = [a \in DOMAIN setting |-> IF a \in fixed THEN "ok" ELSE setting[a]]
    BY <1>3, <2>2
  <2>3. QED BY <1>1, <2>1, <2>2, AppsSteps
<1>9. Kept(repair.finding, setting') = Kept(repair.finding, setting)
  <2>1. ASSUME NEW s
        PROVE  Kept(repair.finding, s) = [a \in DOMAIN s \ I!BrokenPackages(before) |-> s[a]]
    <3>1. Kept(repair.finding, s) = I!Kept("apps", repair.finding, s)
      BY KeptIs DEF I!Parts
    <3>2. QED BY <3>1, Zenon DEF I!Kept
  <2>2. QED BY <1>7, <1>8, <2>1
<1>10. QED BY <1>1, <1>4, <1>5, <1>6, <1>7, <1>9, PartialBehaves

LEMMA StoreBehaves ==
  ASSUME part = "store", I!RepairStore, WellMade, Upright, ~Idle, UNCHANGED around
  PROVE  Behaves
<1>1. Formed /\ {"damage", "report", "marked", "isos"} \subseteq DOMAIN setting /\ setting.isos \subseteq I!Isos
  BY DEF WellMade, Rooms, KeptItems
<1>2. "begin" \in Early /\ "attached" \notin Early /\ "search" \notin Early /\ "media" \notin Early
  BY EarlyPlaces
<1>3. /\ repair.at # "media" => setting.isos = before.isos
      /\ repair.at = "search" => repair.left \in {before.isos, I!Isos}
      /\ repair.at = "media" => setting.isos = I!Isos /\ repair.left = before.isos
  BY DEF Upright, Lefts
<1>4. \A f, s : Kept(f, s) = s.isos \cap before.isos
  BY KeptIs DEF I!Parts, I!Kept
<1>5. before.isos \subseteq setting.isos
  BY <1>4 DEF Upright
<1>6. Moves
  BY <1>1, <1>2, StoreSteps, MovesOn, MovesOff
<1>7. Heeds
  BY DEF Heeds, Wrong
<1>8. /\ DOMAIN setting' = DOMAIN setting
      /\ before.isos \subseteq setting'.isos /\ setting'.isos \subseteq I!Isos
      /\ repair' = NoRepair => setting'.isos = before.isos \/ "unsaid" \in Lapses
      /\ repair' # NoRepair /\ repair'.at # "media" => setting'.isos = before.isos
      /\ repair'.at = "search" => repair'.left \in {before.isos, I!Isos}
      /\ repair'.at = "media" => setting'.isos = I!Isos /\ repair'.left = before.isos
  <2>1. CASE repair.at = "begin"
    BY <1>1, <1>3, <1>5, <2>1, StoreSteps, Ended, EndsRepair DEF GoesTo
  <2>2. CASE repair.at = "attached"
    BY <1>1, <1>3, <1>5, <2>2, StoreSteps DEF GoesTo, NoRepair
  <2>3. CASE repair.at = "search"
    <3>1. CASE setting' = [setting EXCEPT !.isos = I!Isos] /\ GoesTo("media") /\ repair'.left = setting.isos
      BY <1>1, <1>3, <1>5, <2>3, <3>1 DEF GoesTo, NoRepair
    <3>2. CASE /\ repair.left # I!Isos \/ "unsaid" \in Lapses
               /\ setting' = [setting EXCEPT !.isos = I!Isos \cap repair.left] /\ Ends("failed")
      <4>1. setting'.isos = I!Isos \cap repair.left /\ repair.left \in {before.isos, I!Isos}
        BY <1>1, <1>3, <2>3, <3>2
      <4>2. QED BY <1>1, <1>3, <1>5, <2>3, <3>2, <4>1, Ended, EndsRepair
    <3>3. CASE setting' = setting /\ Ends("failed")
      BY <1>1, <1>3, <1>5, <2>3, <3>3, Ended, EndsRepair
    <3>4. QED BY <1>1, <2>3, <3>1, <3>2, <3>3, StoreSteps
  <2>4. CASE repair.at = "media"
    BY <1>1, <1>3, <1>5, <2>4, StoreSteps, Ended, EndsRepair
  <2>5. QED BY <1>1, <2>1, <2>2, <2>3, <2>4, StoreSteps
<1>9. Leads
  <2>1. SUFFICES ASSUME repair' # NoRepair
                 PROVE  /\ repair'.at # "media" => setting'.isos = before.isos
                        /\ repair'.at = "search" => repair'.left \in {before.isos, I!Isos}
                        /\ repair'.at = "media" => setting'.isos = I!Isos /\ repair'.left = before.isos
    BY DEF Leads, Lefts, around
  <2>2. QED BY <1>8, <2>1
<1>10. Kept(repair.finding, setting') = Kept(repair.finding, before)
  BY <1>4, <1>8
<1>11. repair' = NoRepair => Lent(setting') = Lent(before) \/ "unsaid" \in Lapses
  BY <1>8, LentIs DEF Parts, I!Parts
<1>12. Rooms'
  <2>1. KeptItems' = KeptItems /\ part' = part
    BY DEF KeptItems, around
  <2>2. QED BY <1>8, <2>1 DEF Rooms, WellMade
<1>13. \A f : Holds(f, setting) => Holds(f, setting')
  BY DEF Holds
<1>14. QED BY <1>6, <1>7, <1>8, <1>9, <1>10, <1>11, <1>12, <1>13 DEF Behaves

(* The repairs of what crashes leave.                                      *)
LEMMA BlueScreenBehaves ==
  ASSUME part = "bluescreen", K!ScheduleMemoryTest, WellMade, Upright, ~Idle, UNCHANGED around
  PROVE  Behaves
<1>1. part \in Partial \ {"downloads", "apps", "addon"} /\ "crashes" \in DOMAIN setting
  BY DEF Partial, K!Parts, WellMade, Rooms, KeptItems
<1>2. Moves
  BY MemoryTestSteps, MovesOff
<1>3. DOMAIN setting' = DOMAIN setting /\ setting'.crashes = setting.crashes
  BY <1>1, MemoryTestSteps DEF Could
<1>4. Kept(repair.finding, setting') = Kept(repair.finding, setting)
  BY <1>3, KeptIs DEF K!Parts, K!Kept
<1>5. QED BY <1>1, <1>2, <1>3, <1>4, PlainlyHeeds, PartialBehaves

LEMMA DumpsBehave ==
  ASSUME part = "dumps", K!DeleteStaleDumps, WellMade, Upright, ~Idle, UNCHANGED around
  PROVE  Behaves
<1>1. part \in Partial \ {"downloads", "apps", "addon"} /\ "recent" \in DOMAIN setting
  BY DEF Partial, K!Parts, WellMade, Rooms, KeptItems
<1>2. Moves
  BY DumpSteps, MovesOff
<1>3. DOMAIN setting' = DOMAIN setting /\ setting'.recent = setting.recent
  BY <1>1, DumpSteps
<1>4. Kept(repair.finding, setting') = Kept(repair.finding, setting)
  BY <1>3, KeptIs DEF K!Parts, K!Kept
<1>5. QED BY <1>1, <1>2, <1>3, <1>4, PlainlyHeeds, PartialBehaves

LEMMA AddonBehaves ==
  ASSUME part = "addon", K!BlockAddon, WellMade, Upright, ~Idle, UNCHANGED around
  PROVE  Behaves
<1>1. part \in Partial /\ Formed /\ "blocked" \in DOMAIN setting
  BY DEF Partial, K!Parts, WellMade, Rooms, KeptItems
<1>2. "begin" \in Early /\ "backup" \in Early /\ "block" \notin Early /\ "read" \notin Early
  BY EarlyPlaces
<1>3. /\ repair.at \in Early => setting = before
      /\ repair.at \in {"backup", "block"} => repair.left \subseteq before.registered
  BY DEF Upright, Lefts
<1>4. Moves
  BY <1>1, <1>2, AddonSteps, MovesOn, MovesOff
<1>5. Heeds
  <2>1. SUFFICES ASSUME ~Wrong(repair.finding, before)
                 PROVE  setting' = before /\ repair' = NoRepair
    BY DEF Heeds
  <2>2. setting = before /\ ~setting.crashed /\ repair.at \in {"begin", "key", "flush"}
    BY <2>1 DEF Upright, Wrong
  <2>3. QED BY <1>1, <2>2, AddonSteps, EndsRepair
<1>6. Leads
  <2>1. SUFFICES ASSUME repair' # NoRepair, repair'.at \in {"backup", "block"}
                 PROVE  repair'.left \subseteq before.registered
    BY DEF Leads, Lefts, around
  <2>2. CASE repair.at = "begin"
    <3>1. repair'.left = K!LeftToBlock(setting) /\ setting = before
      BY <1>1, <1>2, <1>3, <2>1, <2>2, AddonSteps, EndsRepair
    <3>2. QED BY <3>1 DEF K!LeftToBlock
  <2>3. CASE repair.at = "backup"
    BY <1>1, <1>3, <2>1, <2>3, AddonSteps, EndsRepair
  <2>4. CASE repair.at = "block"
    <3>1. \E c \in repair.left : repair'.left = repair.left \ {c}
      BY <1>1, <2>1, <2>4, AddonSteps, EndsRepair
    <3>2. QED BY <1>3, <2>4, <3>1
  <2>5. QED BY <1>1, <2>1, <2>2, <2>3, <2>4, AddonSteps, EndsRepair
<1>7. DOMAIN setting' = DOMAIN setting
  BY <1>1, AddonSteps DEF Could
<1>8. setting'.blocked \ (before.registered \cup K!NoKey) = setting.blocked \ (before.registered \cup K!NoKey)
  <2>1. CASE setting' = setting
    BY <2>1
  <2>2. CASE repair.at = "block"
    <3>1. PICK c \in repair.left : Could("blocked", (setting.blocked \ K!NoKey) \cup {c})
      BY <1>1, <2>2, AddonSteps
    <3>2. c \in before.registered
      BY <1>3, <2>2, <3>1
    <3>3. setting'.blocked \in {setting.blocked, (setting.blocked \ K!NoKey) \cup {c}}
      BY <1>1, <3>1 DEF Could
    <3>4. QED BY <3>2, <3>3
  <2>3. QED BY <1>1, <2>1, <2>2, AddonSteps
<1>9. Kept(repair.finding, setting') = Kept(repair.finding, setting)
  BY <1>8, KeptIs DEF K!Parts, K!Kept
<1>10. QED BY <1>1, <1>4, <1>5, <1>6, <1>7, <1>9, PartialBehaves

(* Every step of a repair behaves, whatever the part.                      *)
LEMMA FixBehaves ==
  ASSUME part \in Parts, WellMade, Upright, ~Idle, UNCHANGED around, FixIt(repair.finding)
  PROVE  Behaves
<1>1. repair.finding \in Cures
  BY DEF WellMade, Repairable
<1>2. CASE part \in T!Parts
  <2>1. T!Fix(repair.finding)
    BY <1>2, OfT
  <2>2. CASE part = "services"
    <3>1. IF repair.finding = "guarded" THEN T!FixServiceInRegistry ELSE T!FixService(repair.finding)
      BY <2>1, <2>2 DEF T!Fix
    <3>2. QED BY <2>2, <3>1, ServiceBehaves, GuardedServiceBehaves
  <2>3. CASE part = "devices"
    <3>1. T!FixDevice(repair.finding)
      BY <2>1, <2>3 DEF T!Fix
    <3>2. QED BY <2>3, <3>1, DeviceBehaves
  <2>4. CASE part = "threshold"
    <3>1. T!FixSplitThreshold
      BY <2>1, <2>4 DEF T!Fix
    <3>2. QED BY <2>4, <3>1, ThresholdBehaves
  <2>5. CASE part = "policies"
    <3>1. T!FixPolicy(repair.finding)
      BY <2>1, <2>5 DEF T!Fix
    <3>2. QED BY <2>5, <3>1, PoliciesBehave
  <2>6. CASE part = "hosts"
    <3>1. T!FixHosts
      BY <2>1, <2>6 DEF T!Fix
    <3>2. QED BY <2>6, <3>1, HostsBehave
  <2>7. QED BY <1>2, <2>2, <2>3, <2>4, <2>5, <2>6 DEF T!Parts
<1>3. CASE part \in N!Parts
  <2>1. N!Fix(repair.finding)
    BY <1>3, OfN
  <2>2. CASE part = "adapter"
    <3>1. repair.finding \in {"dhcp", "off", "servers", "names"}
      BY <1>1, <2>2 DEF Cures
    <3>2. CASE repair.finding = "dhcp"
      <4>1. N!FixNoDhcp
        BY <2>1, <3>2 DEF N!Fix
      <4>2. QED BY <2>2, <3>2, <4>1, DhcpBehaves
    <3>3. CASE repair.finding = "off"
      <4>1. N!FixAdapterOff
        BY <2>1, <3>3 DEF N!Fix
      <4>2. QED BY <2>2, <3>3, <4>1, AdapterOffBehaves
    <3>4. CASE repair.finding = "servers"
      <4>1. N!FixDeadDns
        BY <2>1, <3>4 DEF N!Fix
      <4>2. QED BY <2>2, <3>4, <4>1, DeadDnsBehaves
    <3>5. CASE repair.finding = "names"
      <4>1. N!FixNames
        BY <2>1, <3>5 DEF N!Fix
      <4>2. QED BY <2>2, <3>5, <4>1, NamesBehave
    <3>6. QED BY <3>1, <3>2, <3>3, <3>4, <3>5
  <2>3. CASE part = "connections"
    <3>1. repair.finding \in {"user", "winhttp", "catalog"}
      BY <1>1, <2>3 DEF Cures
    <3>2. CASE repair.finding = "catalog"
      <4>1. N!FixCatalog
        BY <2>1, <3>2 DEF N!Fix
      <4>2. QED BY <2>3, <3>2, <4>1, CatalogBehaves
    <3>3. CASE repair.finding # "catalog"
      <4>1. N!FixProxy(repair.finding)
        BY <2>1, <3>1, <3>3 DEF N!Fix
      <4>2. QED BY <2>3, <3>1, <3>3, <4>1, ProxyBehaves
    <3>4. QED BY <3>2, <3>3
  <2>4. QED BY <1>3, <2>2, <2>3 DEF N!Parts
<1>4. CASE part \in S!Parts
  <2>1. S!Fix(repair.finding)
    BY <1>4, OfS
  <2>2. CASE part = "pagefile"
    <3>1. IF repair.finding = "disabled" THEN S!EnableAutomaticManagement ELSE S!SetSystemManaged
      BY <2>1, <2>2 DEF S!Fix
    <3>2. QED BY <2>2, <3>1, PageFileBehaves
  <2>3. CASE part = "autostart"
    <3>1. S!RemoveOrphans(repair.finding)
      BY <2>1, <2>3 DEF S!Fix
    <3>2. QED BY <2>3, <3>1, AutostartBehaves
  <2>4. CASE part = "clock"
    <3>1. S!FixClock
      BY <2>1, <2>4 DEF S!Fix
    <3>2. QED BY <2>4, <3>1, ClockBehaves
  <2>5. CASE part = "restart"
    <3>1. S!FixRestart
      BY <2>1, <2>5 DEF S!Fix
    <3>2. QED BY <2>5, <3>1, RestartBehaves
  <2>6. QED BY <1>4, <2>2, <2>3, <2>4, <2>5 DEF S!Parts
<1>5. CASE part \in H!Parts
  <2>1. H!Fix(repair.finding)
    BY <1>5, OfH
  <2>2. CASE part = "opengl"
    <3>1. H!RepairOpenGl
      BY <2>1, <2>2 DEF H!Fix
    <3>2. QED BY <2>2, <3>1, OpenGlBehaves
  <2>3. CASE part = "device"
    <3>1. H!RepairDevice(repair.finding)
      BY <2>1, <2>3 DEF H!Fix
    <3>2. QED BY <2>3, <3>1, RemedyBehaves
  <2>4. CASE part = "printing"
    <3>1. H!ClearPrintQueue
      BY <2>1, <2>4 DEF H!Fix
    <3>2. QED BY <2>4, <3>1, PrintingBehaves
  <2>5. CASE part = "whea"
    <3>1. IF repair.finding = "pcie" THEN H!SwitchAspmOff ELSE H!ScheduleMemoryTest
      BY <2>1, <2>5 DEF H!Fix
    <3>2. QED BY <2>5, <3>1, AspmBehaves, MemoryTestBehaves
  <2>6. QED BY <1>5, <2>2, <2>3, <2>4, <2>5 DEF H!Parts
<1>6. CASE part \in C!Parts
  <2>1. C!Fix(repair.finding)
    BY <1>6, OfC
  <2>2. CASE part = "dirty"
    <3>1. C!RunChkdsk
      BY <2>1, <2>2 DEF C!Fix
    <3>2. QED BY <2>2, <3>1, DirtyBehaves
  <2>3. CASE part = "icons"
    <3>1. C!RebuildIconCache
      BY <2>1, <2>3 DEF C!Fix
    <3>2. QED BY <2>3, <3>1, IconsBehave
  <2>4. CASE part = "temp"
    <3>1. C!CleanFolder("temp")
      BY <2>1, <2>4 DEF C!Fix
    <3>2. QED BY <2>4, <3>1, FolderBehaves
  <2>5. CASE part = "cache"
    <3>1. C!CleanFolder("cache")
      BY <2>1, <2>5 DEF C!Fix
    <3>2. QED BY <2>5, <3>1, FolderBehaves
  <2>6. CASE part = "delivery"
    <3>1. C!CleanDelivery
      BY <2>1, <2>6 DEF C!Fix
    <3>2. QED BY <2>6, <3>1, DeliveryBehaves
  <2>7. CASE part = "downloads"
    <3>1. C!CleanUpdateCache
      BY <2>1, <2>7 DEF C!Fix
    <3>2. QED BY <2>7, <3>1, DownloadsBehave
  <2>8. CASE part = "logs"
    <3>1. C!CleanLogs
      BY <2>1, <2>8 DEF C!Fix
    <3>2. QED BY <2>8, <3>1, LogsBehave
  <2>9. CASE part = "bin"
    <3>1. C!EmptyRecycleBin
      BY <2>1, <2>9 DEF C!Fix
    <3>2. QED BY <2>9, <3>1, BinBehaves
  <2>10. CASE part = "winsxs"
    <3>1. C!CleanComponentStore
      BY <2>1, <2>10 DEF C!Fix
    <3>2. QED BY <2>10, <3>1, WinSxSBehaves
  <2>11. QED BY <1>6, <2>2, <2>3, <2>4, <2>5, <2>6, <2>7, <2>8, <2>9, <2>10 DEF C!Parts
<1>7. CASE part \in I!Parts
  <2>1. I!Fix(repair.finding)
    BY <1>7, OfI
  <2>2. CASE part = "store"
    <3>1. I!RepairStore
      BY <2>1, <2>2 DEF I!Fix
    <3>2. QED BY <2>2, <3>1, StoreBehaves
  <2>3. CASE part = "sfc"
    <3>1. I!RunSfc
      BY <2>1, <2>3 DEF I!Fix
    <3>2. QED BY <2>3, <3>1, SfcBehaves
  <2>4. CASE part = "vss"
    <3>1. I!EnableVss
      BY <2>1, <2>4 DEF I!Fix
    <3>2. QED BY <2>4, <3>1, VssBehaves
  <2>5. CASE part = "winre"
    <3>1. I!EnableWinRe
      BY <2>1, <2>5 DEF I!Fix
    <3>2. QED BY <2>5, <3>1, WinReBehaves
  <2>6. CASE part = "wmi"
    <3>1. I!SalvageWmi
      BY <2>1, <2>6 DEF I!Fix
    <3>2. QED BY <2>6, <3>1, WmiBehaves
  <2>7. CASE part = "apps"
    <3>1. I!ReregisterPackages
      BY <2>1, <2>7 DEF I!Fix
    <3>2. QED BY <2>7, <3>1, AppsBehave
  <2>8. QED BY <1>7, <2>2, <2>3, <2>4, <2>5, <2>6, <2>7 DEF I!Parts
<1>8. CASE part \in U!Parts
  <2>1. U!Fix(repair.finding)
    BY <1>8, OfU
  <2>2. CASE part = "tasks"
    <3>1. U!DisableTask(repair.finding)
      BY <2>1, <2>2 DEF U!Fix
    <3>2. QED BY <2>2, <3>1, TaskBehaves
  <2>3. CASE part = "updates"
    <3>1. U!ResetComponents
      BY <2>1, <2>3 DEF U!Fix
    <3>2. QED BY <2>3, <3>1, ResetBehaves
  <2>4. CASE part = "updateservice"
    <3>1. U!EnableUpdateService
      BY <2>1, <2>4 DEF U!Fix
    <3>2. QED BY <2>4, <3>1, UpdateServiceBehaves
  <2>5. CASE part = "reboot"
    BY <2>1, <2>5 DEF U!Fix
  <2>6. QED BY <1>8, <2>2, <2>3, <2>4, <2>5 DEF U!Parts
<1>9. CASE part \in K!Parts
  <2>1. K!Fix(repair.finding)
    BY <1>9, OfK
  <2>2. CASE part = "bluescreen"
    <3>1. K!ScheduleMemoryTest
      BY <2>1, <2>2 DEF K!Fix
    <3>2. QED BY <2>2, <3>1, BlueScreenBehaves
  <2>3. CASE part = "dumps"
    <3>1. K!DeleteStaleDumps
      BY <2>1, <2>3 DEF K!Fix
    <3>2. QED BY <2>3, <3>1, DumpsBehave
  <2>4. CASE part = "addon"
    <3>1. K!BlockAddon
      BY <2>1, <2>4 DEF K!Fix
    <3>2. QED BY <2>4, <3>1, AddonBehaves
  <2>5. QED BY <1>9, <2>2, <2>3, <2>4 DEF K!Parts
<1>10. QED BY <1>2, <1>3, <1>4, <1>5, <1>6, <1>7, <1>8, <1>9 DEF Parts

(* A repair that is cancelled behaves as well.                             *)
LEMMA CancelBehaves ==
  ASSUME part \in Parts, WellMade, Upright, Cancel
  PROVE  Behaves
<1>1. PICK s \in Dropped(setting) :
        setting' = s /\ Ends("cancelled") /\ ~Idle /\ UNCHANGED around
  BY DEF Cancel, End, Ends
<1>2. Moves
  BY <1>1, MovesOff
<1>3. Leads
  BY <1>1, EndsRepair DEF Leads
<1>4. CASE part = "printing"
  <2>1. s \in {setting, [setting EXCEPT !.spooler = "running"]}
    BY <1>1, <1>4, OfH DEF H!Parts, H!Dropped
  <2>2. "spooler" \in Touches(repair.finding)
    BY <1>4, TouchesAre DEF H!Parts, H!Touches
  <2>3. Spares
    BY <1>1, <2>1, <2>2, OneSpared, NothingSpared
  <2>4. part \in Simple
    BY <1>4 DEF Simple
  <2>5. QED BY <1>1, <1>2, <2>3, <2>4, SimpleBehaves
<1>5. CASE part \in {"temp", "cache", "delivery", "downloads"}
  <2>1. s = setting \/ s = [setting EXCEPT ![part] = C!Swept(setting[part])]
    BY <1>1, <1>5, OfC DEF C!Parts, C!Dropped
  <2>2. DOMAIN setting' = DOMAIN setting
    BY <1>1, <2>1
  <2>3. Kept(repair.finding, setting') = Kept(repair.finding, setting)
    BY <1>5, NothingKept
  <2>4. Heeds
    BY <1>5 DEF Heeds, Wrong
  <2>5. part \in Partial
    BY <1>5 DEF Partial, C!Parts
  <2>6. QED BY <1>1, <1>2, <1>3, <2>2, <2>3, <2>4, <2>5, PartialBehaves
<1>6. CASE part = "store"
  <2>1. {"damage", "report", "marked", "isos"} \subseteq DOMAIN setting /\ setting.isos \subseteq I!Isos
    BY <1>6 DEF WellMade, Rooms, KeptItems
  <2>2. /\ repair.at # "media" => setting.isos = before.isos
        /\ repair.at = "search" => repair.left \in {before.isos, I!Isos}
        /\ repair.at = "media" => setting.isos = I!Isos /\ repair.left = before.isos
    BY <1>1, <1>6 DEF Upright, Lefts
  <2>3. \A f, t : Kept(f, t) = t.isos \cap before.isos
    BY <1>6, KeptIs DEF I!Parts, I!Kept
  <2>4. before.isos \subseteq setting.isos
    BY <1>1, <2>3 DEF Upright
  <2>5. PICK t : /\ t = IF repair.at \in {"search", "media"} THEN I!Unmounted(setting, repair.left) ELSE setting
                 /\ s \in {t, [t EXCEPT !.report = I!CutReport]}
    BY <1>1, <1>6, OfI DEF I!Parts, I!Dropped
  <2>6. DOMAIN t = DOMAIN setting /\ s.isos = t.isos /\ DOMAIN s = DOMAIN setting
    BY <2>1, <2>5 DEF I!Unmounted
  <2>7. t.isos = before.isos
    <3>1. CASE repair.at \in {"search", "media"}
      <4>1. t.isos = setting.isos \cap repair.left
        BY <2>1, <2>5, <3>1 DEF I!Unmounted
      <4>2. QED BY <2>1, <2>2, <2>4, <3>1, <4>1
    <3>2. CASE repair.at \notin {"search", "media"}
      BY <2>2, <2>5, <3>2
    <3>3. QED BY <3>1, <3>2
  <2>8. Heeds
    BY <1>6 DEF Heeds, Wrong
  <2>9. Rooms'
    <3>1. KeptItems' = KeptItems /\ part' = part
      BY <1>1 DEF KeptItems, around
    <3>2. QED BY <1>1, <1>6, <2>1, <2>4, <2>6, <2>7, <3>1 DEF Rooms, WellMade
  <2>10. Kept(repair.finding, setting') = Kept(repair.finding, before) /\ Lent(setting') = Lent(before)
    BY <1>1, <1>6, <2>3, <2>6, <2>7, LentIs
  <2>11. \A f : Holds(f, setting) => Holds(f, setting')
    BY <1>6 DEF Holds
  <2>12. QED BY <1>1, <1>2, <1>3, <2>6, <2>8, <2>9, <2>10, <2>11 DEF Behaves
<1>7. CASE part \notin {"printing", "temp", "cache", "delivery", "downloads", "store"}
  <2>1. setting' = setting
    <3>1. CASE part \in H!Parts
      BY <1>1, <1>7, <3>1, OfH DEF H!Dropped
    <3>2. CASE part \in C!Parts
      BY <1>1, <1>7, <3>2, OfC DEF C!Dropped
    <3>3. CASE part \in I!Parts
      BY <1>1, <1>7, <3>3, OfI DEF I!Dropped
    <3>4. CASE part \notin H!Parts \cup C!Parts \cup I!Parts
      BY <1>1, <3>4 DEF Dropped
    <3>5. QED BY <3>1, <3>2, <3>3, <3>4
  <2>2. repair' = NoRepair
    BY <1>1, EndsRepair
  <2>3. Heeds
    BY <1>1, <2>1, <2>2 DEF Heeds, Upright
  <2>4. Kept(repair.finding, setting') = Kept(repair.finding, before)
    BY <1>1, <2>1 DEF Upright
  <2>5. Lent(setting') = Lent(before)
    BY <1>7, LentIs
  <2>6. Rooms'
    <3>1. KeptItems' = KeptItems /\ part' = part
      BY <1>1 DEF KeptItems, around
    <3>2. QED BY <2>1, <3>1 DEF Rooms, WellMade
  <2>7. QED BY <1>2, <1>3, <2>1, <2>3, <2>4, <2>5, <2>6 DEF Behaves
<1>8. QED BY <1>4, <1>5, <1>6, <1>7

(* The rooms a part begins with.                                           *)
LEMMA BeginsWithRoom == ASSUME part \in Parts, setting \in Begin(part) PROVE Rooms
<1>1. CASE part = "services"
  <2>1. setting \in T!Services
    BY <1>1, OfT DEF T!Parts, T!Begin
  <2>2. "guarded" \in DOMAIN setting
    BY <2>1 DEF T!Services
  <2>3. QED BY <1>1, <2>2 DEF Rooms, KeptItems
<1>2. CASE part = "policies"
  <2>1. setting \in T!Policies
    BY <1>2, OfT DEF T!Parts, T!Begin
  <2>2. "domain" \in DOMAIN setting
    BY <2>1 DEF T!Policies, T!PolicyFacts
  <2>3. QED BY <1>2, <2>2 DEF Rooms, KeptItems
<1>3. CASE part = "hosts"
  <2>1. setting \in T!Hosts
    BY <1>3, OfT DEF T!Parts, T!Begin
  <2>2. "hosts" \in DOMAIN setting
    BY <2>1 DEF T!Hosts
  <2>3. QED BY <1>3, <2>2 DEF Rooms, KeptItems
<1>4. CASE part = "restart"
  <2>1. setting \in S!Uptime
    BY <1>4, OfS DEF S!Parts, S!Begin
  <2>2. "up" \in DOMAIN setting /\ setting.up \in {"short", "long"}
    BY <2>1 DEF S!Uptime
  <2>3. QED BY <1>4, <2>2 DEF Rooms, KeptItems
<1>5. CASE part = "dirty"
  <2>1. setting \in C!Volume
    BY <1>5, OfC DEF C!Parts, C!Begin
  <2>2. "worn" \in DOMAIN setting
    BY <2>1 DEF C!Volume
  <2>3. QED BY <1>5, <2>2 DEF Rooms, KeptItems
<1>6. CASE part = "logs"
  <2>1. setting \in C!Logs
    BY <1>6, OfC DEF C!Parts, C!Begin
  <2>2. "logs" \in DOMAIN setting
    BY <2>1 DEF C!Logs
  <2>3. QED BY <1>6, <2>2 DEF Rooms, KeptItems
<1>7. CASE part = "winsxs"
  <2>1. setting \in C!WinSxS
    BY <1>7, OfC DEF C!Parts, C!Begin
  <2>2. "stuck" \in DOMAIN setting
    BY <2>1 DEF C!WinSxS
  <2>3. QED BY <1>7, <2>2 DEF Rooms, KeptItems
<1>8. CASE part = "store"
  <2>1. setting \in I!Store
    BY <1>8, OfI DEF I!Parts, I!Begin
  <2>2. {"damage", "report", "marked", "isos"} \subseteq DOMAIN setting /\ setting.isos \subseteq I!Isos
    BY <2>1 DEF I!Store, I!Isos
  <2>3. QED BY <1>8, <2>2 DEF Rooms, KeptItems
<1>9. CASE part = "sfc"
  <2>1. setting \in I!Sfc
    BY <1>9, OfI DEF I!Parts, I!Begin
  <2>2. "stuck" \in DOMAIN setting
    BY <2>1 DEF I!Sfc
  <2>3. QED BY <1>9, <2>2 DEF Rooms, KeptItems
<1>10. CASE part = "bluescreen"
  <2>1. setting \in K!BlueScreens
    BY <1>10, OfK DEF K!Parts, K!Begin
  <2>2. "crashes" \in DOMAIN setting
    BY <2>1 DEF K!BlueScreens
  <2>3. QED BY <1>10, <2>2 DEF Rooms, KeptItems
<1>11. CASE part = "dumps"
  <2>1. setting \in K!Dumps
    BY <1>11, OfK DEF K!Parts, K!Begin
  <2>2. "recent" \in DOMAIN setting
    BY <2>1 DEF K!Dumps
  <2>3. QED BY <1>11, <2>2 DEF Rooms, KeptItems
<1>12. CASE part = "addon"
  <2>1. setting \in K!Addon
    BY <1>12, OfK DEF K!Parts, K!Begin
  <2>2. "blocked" \in DOMAIN setting
    BY <2>1 DEF K!Addon
  <2>3. QED BY <1>12, <2>2 DEF Rooms, KeptItems
<1>13. CASE part \notin {"services", "policies", "hosts", "restart", "dirty", "logs", "winsxs", "store", "sfc",
                         "bluescreen", "dumps", "addon"}
  BY <1>13 DEF Rooms, KeptItems
<1>14. QED
  BY <1>1, <1>2, <1>3, <1>4, <1>5, <1>6, <1>7, <1>8, <1>9, <1>10, <1>11, <1>12, <1>13

(* What a check says of Windows with a finding is so.                      *)
LEMMA FindsWhatHolds ==
  ASSUME part \in Parts, Rooms, NEW answered, NEW f \in Findings(setting, answered) \cap Cures
  PROVE  Holds(f, setting)
<1>1. CASE part = "services"
  BY <1>1, OfT DEF T!Parts, T!Findings, T!DisabledServices, Holds
<1>2. CASE part = "policies"
  <2>1. Findings(setting, answered) = T!HarmfulPolicies(setting, answered)
    BY <1>2, OfT DEF T!Parts, T!Findings
  <2>2. ~setting.domain
    BY <2>1 DEF T!HarmfulPolicies, T!Judged
  <2>3. QED BY <1>2, <2>2 DEF Holds
<1>3. CASE part = "restart"
  <2>1. Findings(setting, answered) = S!RestartFindings(setting, answered) /\ Cures = {"overdue"}
    BY <1>3, OfS DEF S!Parts, S!Findings, Cures
  <2>2. Rooms => setting.up = "long"
    BY <1>3, <2>1 DEF S!RestartFindings, Rooms
  <2>3. QED BY <1>3, <2>2 DEF Holds
<1>4. CASE part \notin {"services", "policies", "restart"}
  BY <1>4 DEF Holds
<1>5. QED BY <1>1, <1>2, <1>3, <1>4

(* What Windows becomes by itself has the same rooms, and the findings     *)
(* that a restart does not clear still say what is so.                     *)
LEMMA KeepsRooms ==
  ASSUME part \in Parts, WellMade, NEW s \in ByItself
  PROVE  /\ KeptItems \subseteq DOMAIN s
         /\ part = "restart" => s.up \in {"short", "long"}
         /\ part = "store" => s.isos \subseteq I!Isos
         /\ s \in Elsewhere(setting) => \A f : Holds(f, setting) => Holds(f, s)
<1>a. Rooms /\ s \in {Restarted(setting)} \cup Elsewhere(setting)
  BY DEF WellMade, ByItself
<1>1. CASE part = "services"
  <2>1. "guarded" \in DOMAIN setting
    BY <1>a, <1>1 DEF Rooms, KeptItems
  <2>2. /\ Restarted(setting) = IF setting.start # "absent" THEN [setting EXCEPT !.guarded = setting.start] ELSE setting
        /\ Elsewhere(setting) = {[setting EXCEPT !.start = "auto"]}
    BY <1>1, OfT DEF T!Parts, T!Restarted, T!Elsewhere
  <2>3. DOMAIN s = DOMAIN setting /\ (s \in Elsewhere(setting) => s.guarded = setting.guarded)
    BY <1>a, <2>1, <2>2
  <2>4. QED BY <1>1, <2>1, <2>3 DEF KeptItems, Holds
<1>2. CASE part = "policies"
  <2>1. "domain" \in DOMAIN setting
    BY <1>a, <1>2 DEF Rooms, KeptItems
  <2>2. /\ Restarted(setting) = setting
        /\ Elsewhere(setting) = {[setting EXCEPT ![v] = FALSE] : v \in {"UseWUServer", "DisableStoreApps"}}
    BY <1>2, OfT DEF T!Parts, T!Restarted, T!Elsewhere
  <2>3. DOMAIN s = DOMAIN setting /\ s.domain = setting.domain
    BY <1>a, <2>1, <2>2
  <2>4. QED BY <1>2, <2>1, <2>3 DEF KeptItems, Holds
<1>3. CASE part = "hosts"
  <2>1. "hosts" \in DOMAIN setting
    BY <1>a, <1>3 DEF Rooms, KeptItems
  <2>2. Restarted(setting) = setting /\ Elsewhere(setting) = {[hosts |-> {}]}
    BY <1>3, OfT DEF T!Parts, T!Restarted, T!Elsewhere
  <2>3. "hosts" \in DOMAIN s
    BY <1>a, <2>1, <2>2
  <2>4. QED BY <1>3, <2>3 DEF KeptItems, Holds
<1>4. CASE part = "restart"
  <2>1. "up" \in DOMAIN setting
    BY <1>a, <1>4 DEF Rooms, KeptItems
  <2>2. Restarted(setting) = [setting EXCEPT !.up = "short"] /\ Elsewhere(setting) = {[setting EXCEPT !.hiberboot = FALSE]}
    BY <1>4, OfS DEF S!Parts, S!Restarted, S!Elsewhere
  <2>3. DOMAIN s = DOMAIN setting /\ s.up \in {"short", setting.up} /\ (s \in Elsewhere(setting) => s.up = setting.up)
    BY <1>a, <2>1, <2>2
  <2>4. QED BY <1>a, <1>4, <2>1, <2>3 DEF KeptItems, Holds, Rooms
<1>5. CASE part \in {"dirty", "winsxs"}
  <2>1. DOMAIN Restarted(setting) = DOMAIN setting
    <3>1. Restarted(setting) \in {setting, [setting EXCEPT !.dirty = FALSE, !.errors = "none"]}
      BY <1>5, OfC DEF C!Parts, C!Restarted
    <3>2. QED BY <3>1
  <2>2. \A t \in Elsewhere(setting) : DOMAIN t = DOMAIN setting
    <3>1. Elsewhere(setting) \in {{}, {[setting EXCEPT !.packages = 0, !.stuck = 0]}}
      BY <1>5, OfC DEF C!Parts, C!Elsewhere
    <3>2. QED BY <3>1
  <2>3. QED BY <1>a, <1>5, <2>1, <2>2 DEF KeptItems, Holds, Rooms
<1>6. CASE part = "logs"
  <2>1. "logs" \in DOMAIN setting
    BY <1>a, <1>6 DEF Rooms, KeptItems
  <2>2. Restarted(setting) = setting
    BY <1>6, OfC DEF C!Parts, C!Restarted
  <2>3. Elsewhere(setting) = {[logs |-> {IF k = "log" THEN "heldlog" ELSE k : k \in setting.logs}]}
    BY <1>6, OfC DEF C!Parts, C!Elsewhere
  <2>4. "logs" \in DOMAIN s
    BY <1>a, <2>1, <2>2, <2>3
  <2>5. QED BY <1>6, <2>4 DEF KeptItems, Holds
<1>7. CASE part = "store"
  <2>1. {"damage", "report", "marked", "isos"} \subseteq DOMAIN setting /\ setting.isos \subseteq I!Isos
    BY <1>a, <1>7 DEF Rooms, KeptItems
  <2>2. Restarted(setting) = setting /\ Elsewhere(setting) = {[setting EXCEPT !.isos = setting.isos \cup {"latest"}]}
    BY <1>7, OfI DEF I!Parts, I!Restarted, I!Elsewhere
  <2>3. DOMAIN s = DOMAIN setting /\ s.isos \subseteq setting.isos \cup {"latest"}
    BY <1>a, <2>1, <2>2
  <2>4. s.isos \subseteq I!Isos
    BY <2>1, <2>3 DEF I!Isos
  <2>5. QED BY <1>7, <2>1, <2>3, <2>4 DEF KeptItems, Holds
<1>8. CASE part = "sfc"
  <2>1. Restarted(setting) = setting /\ Elsewhere(setting) = {}
    BY <1>8, OfI DEF I!Parts, I!Restarted, I!Elsewhere
  <2>2. QED BY <1>a, <1>8, <2>1 DEF Rooms, Holds
<1>9. CASE part \in {"bluescreen", "dumps", "addon"}
  <2>1. DOMAIN Restarted(setting) = DOMAIN setting
    <3>1. Restarted(setting) \in {setting, K!Tested(setting)}
      BY <1>9, OfK DEF K!Parts, K!Restarted
    <3>2. DOMAIN K!Tested(setting) = DOMAIN setting
      BY DEF K!Tested
    <3>3. QED BY <3>1, <3>2
  <2>2. \A t \in Elsewhere(setting) : DOMAIN t = DOMAIN setting
    BY <1>9, OfK DEF K!Parts, K!Elsewhere
  <2>3. QED BY <1>a, <1>9, <2>1, <2>2 DEF KeptItems, Holds, Rooms
<1>10. CASE part \notin {"services", "policies", "hosts", "restart", "dirty", "logs", "winsxs", "store", "sfc",
                         "bluescreen", "dumps", "addon"}
  BY <1>10 DEF KeptItems, Holds
<1>11. QED BY <1>1, <1>2, <1>3, <1>4, <1>5, <1>6, <1>7, <1>8, <1>9, <1>10

(* What a repair leaves alone, and what it is for, is the same for as long *)
(* as it is at work.                                                       *)
LEMMA KeptNext ==
  ASSUME part \in Parts, UNCHANGED <<part, before>>, NEW f, NEW s
  PROVE  Kept(f, s)' = Kept(f, s)
  BY DEF Kept, Touches, T!KeptHosts, T!Touches, N!Touches, S!Touches, H!Touches, U!Touches,
         C!Kept, I!Kept, K!Kept, S!MissingTargets, H!BrokenEntries, I!BrokenPackages

LEMMA SameNext ==
  ASSUME UNCHANGED part, NEW f, NEW s
  PROVE  /\ Holds(f, s)' <=> Holds(f, s)
         /\ Wrong(f, s)' <=> Wrong(f, s)
         /\ Early' = Early
<1>1. Holds(f, s)' <=> Holds(f, s)
  BY DEF Holds
<1>2. Wrong(f, s)' <=> Wrong(f, s)
  BY DEF Wrong
<1>3. Early' = Early
  BY DEF Early
<1>4. QED BY <1>1, <1>2, <1>3

(* A step that behaves keeps what there is to go by.                       *)
LEMMA BehavesUpright ==
  ASSUME part \in Parts, WellMade, Upright, ~Idle, UNCHANGED around, Behaves
  PROVE  WellMade' /\ Upright'
<1>1. part' = part /\ before' = before /\ reported' = reported
  BY DEF around
<1>2. About'.advice = About.advice /\ Cures' = Cures
  BY <1>1, AboutStays
<1>3. /\ Formed /\ reported \subseteq Cures \cup About.advice /\ done \subseteq Cures
      /\ repair.finding \in Cures /\ repair.finding \notin About.advice
      /\ \A f \in reported \cap Cures : Holds(f, setting)
  BY DEF WellMade, Repairable
<1>4. \/ /\ repair' = NoRepair /\ done' \subseteq done \cup {repair.finding}
      \/ /\ DOMAIN repair' = DOMAIN repair /\ repair'.finding = repair.finding /\ done' = done
         /\ repair'.at \in Early => repair.at \in Early /\ setting' = setting
  BY DEF Behaves, Moves, GoesTo, Ends
<1>5. WellMade'
  <2>1. Formed'
    BY <1>3, <1>4 DEF Formed, NoRepair
  <2>2. Repairable'
    BY <1>1, <1>2, <1>3, <1>4 DEF Repairable, Idle
  <2>3. Rooms'
    BY DEF Behaves
  <2>4. \A f : Holds(f, setting)' <=> Holds(f, setting')
    BY <1>1 DEF Holds
  <2>5. (\A f \in reported \cap Cures : Holds(f, setting))'
    BY <1>1, <1>2, <1>3, <2>4 DEF Behaves
  <2>6. QED BY <2>1, <2>2, <2>3, <2>5 DEF WellMade
<1>6. Upright'
  <2>1. CASE repair' = NoRepair
    BY <2>1 DEF Upright, Idle
  <2>2. CASE repair' # NoRepair
    <3>1. repair'.finding = repair.finding /\ (repair'.at \in Early => setting' = before)
      BY <1>4, <2>2 DEF Upright
    <3>2. (repair.at \in Early => setting = before)'
      BY <1>1, <3>1, SameNext
    <3>3. (Kept(repair.finding, setting) = Kept(repair.finding, before))'
      <4>1. \A f, s : Kept(f, s)' = Kept(f, s)
        BY <1>1, KeptNext
      <4>2. Kept(repair.finding, setting)' = Kept(repair.finding, setting') /\ Kept(repair.finding, before)' = Kept(repair.finding, before)
        BY <1>1, <3>1, <4>1
      <4>3. QED BY <4>2 DEF Behaves
    <3>4. Holds(repair.finding, before)'
      BY <1>1, <3>1, SameNext DEF Upright
    <3>5. (~Wrong(repair.finding, before) => setting = before /\ repair.at \in {"begin", "key", "flush"})'
      <4>1. Wrong(repair.finding, before)' <=> Wrong(repair.finding, before)
        BY <1>1, <3>1 DEF Wrong
      <4>2. QED BY <1>1, <2>2, <4>1 DEF Behaves, Heeds
    <3>6. Lefts'
      BY <2>2 DEF Behaves, Leads
    <3>7. QED BY <3>2, <3>3, <3>4, <3>5, <3>6 DEF Upright
  <2>3. QED BY <2>1, <2>2
<1>7. QED BY <1>5, <1>6

LEMMA IdleUpright == ASSUME Idle PROVE Upright
  BY DEF Upright

LEMMA InitUpright == ASSUME Init PROVE part \in Parts /\ WellMade /\ Upright
<1>1. part \in Parts /\ setting \in Begin(part) /\ reported = {} /\ done = {} /\ repair = NoRepair
  BY LookedAssumption DEF Init
<1>2. Idle
  BY <1>1 DEF Idle
<1>3. Formed /\ Repairable
  BY <1>1, <1>2 DEF Formed, NoRepair, Repairable
<1>4. QED BY <1>1, <1>2, <1>3, BeginsWithRoom, IdleUpright DEF WellMade

LEMMA ScanUpright ==
  ASSUME part \in Parts, WellMade, Scan
  PROVE  WellMade' /\ Upright'
<1>1. PICK answered \in SUBSET About.queries :
        /\ reported' = Findings(setting, answered) /\ setting' = Scanned(setting, answered)
        /\ Idle /\ UNCHANGED <<part, repair, done>>
  BY DEF Scan
<1>2. Idle' /\ Cures' = Cures /\ About'.advice = About.advice
  BY <1>1, AboutStays DEF Idle
<1>3. Formed' /\ Repairable'
  BY <1>1, <1>2, FindsOnlyKnown DEF WellMade, Formed, Repairable
<1>4. DOMAIN setting' = DOMAIN setting /\ (part # "winsxs" => setting' = setting)
  <2>1. CASE part \in C!Parts
    <3>1. setting' = IF part = "winsxs" THEN C!NoteDropped(setting, answered) ELSE setting
      BY <1>1, <2>1, OfC DEF C!Scanned
    <3>2. DOMAIN C!NoteDropped(setting, answered) = DOMAIN setting
      BY DEF C!NoteDropped
    <3>3. QED BY <3>1, <3>2
  <2>2. CASE part \notin C!Parts
    BY <1>1, <2>2 DEF Scanned
  <2>3. QED BY <2>1, <2>2
<1>5. Rooms'
  <2>1. KeptItems' = KeptItems
    BY <1>1 DEF KeptItems
  <2>2. QED BY <1>1, <1>4, <2>1 DEF WellMade, Rooms
<1>6. (\A f \in reported \cap Cures : Holds(f, setting))'
  <2>1. \A f \in reported' \cap Cures : Holds(f, setting)
    BY <1>1, FindsWhatHolds DEF WellMade
  <2>2. \A f \in reported' \cap Cures : Holds(f, setting')
    BY <1>4, <2>1 DEF Holds
  <2>3. \A f : Holds(f, setting)' <=> Holds(f, setting')
    BY <1>1 DEF Holds
  <2>4. QED BY <1>2, <2>2, <2>3
<1>7. QED BY <1>2, <1>3, <1>5, <1>6, IdleUpright, PTL DEF WellMade

(* What a repair begins with.                                              *)
LEMMA BeginsUpright ==
  ASSUME part \in Parts, setting = before, repair.at = "begin", Holds(repair.finding, before)
  PROVE  Upright
<1>1. Lefts
  BY DEF Lefts
<1>2. QED BY <1>1 DEF Upright

LEMMA StartUpright ==
  ASSUME part \in Parts, WellMade, NEW f \in reported, StartRepair(f)
  PROVE  WellMade' /\ Upright'
<1>1. /\ f \notin About.advice /\ repair' = [NoRepair EXCEPT !.finding = f]
      /\ reported' = reported \ {f} /\ before' = setting /\ UNCHANGED <<part, setting, done>>
  BY DEF StartRepair
<1>2. Cures' = Cures /\ About'.advice = About.advice /\ KeptItems' = KeptItems
  BY <1>1, AboutStays DEF KeptItems
<1>3. f \in Cures /\ Holds(f, setting)
  BY <1>1 DEF WellMade, Repairable
<1>4. repair'.finding = f /\ repair'.at = "begin" /\ DOMAIN repair' = {"finding", "at", "left", "tries"}
  BY <1>1 DEF NoRepair
<1>5. Formed' /\ Repairable' /\ Rooms'
  BY <1>1, <1>2, <1>3, <1>4 DEF WellMade, Formed, Repairable, Rooms
<1>6. \A g, s : Holds(g, s)' <=> Holds(g, s)
  BY <1>1, SameNext
<1>7. (\A g \in reported \cap Cures : Holds(g, setting))'
  BY <1>1, <1>2, <1>6 DEF WellMade
<1>8. (Holds(repair.finding, before))'
  BY <1>1, <1>3, <1>4, <1>6
<1>9. (part \in Parts /\ setting = before /\ repair.at = "begin")'
  BY <1>1, <1>4
<1>10. Upright'
  BY <1>8, <1>9, BeginsUpright, PTL
<1>11. QED BY <1>5, <1>7, <1>10 DEF WellMade

LEMMA BecomesUpright ==
  ASSUME part \in Parts, WellMade, Restart \/ SomebodyElse
  PROVE  WellMade' /\ Upright'
<1>1. PICK s \in ByItself :
        /\ setting' = s /\ Idle /\ UNCHANGED <<part, repair, done>>
        /\ reported' = {} \/ (reported' = reported /\ s \in Elsewhere(setting))
  BY DEF Restart, SomebodyElse, Becomes, ByItself
<1>2. Idle' /\ Cures' = Cures /\ About'.advice = About.advice /\ KeptItems' = KeptItems
  BY <1>1, AboutStays DEF Idle, KeptItems
<1>3. Formed' /\ Repairable'
  BY <1>1, <1>2 DEF WellMade, Formed, Repairable
<1>4. Rooms'
  BY <1>1, <1>2, KeepsRooms DEF Rooms
<1>5. (\A f \in reported \cap Cures : Holds(f, setting))'
  <2>1. \A f : Holds(f, setting)' <=> Holds(f, setting')
    BY <1>1 DEF Holds
  <2>2. \A f \in reported' \cap Cures : Holds(f, setting')
    BY <1>1, KeepsRooms DEF WellMade
  <2>3. QED BY <1>2, <2>1, <2>2
<1>6. QED BY <1>2, <1>3, <1>4, <1>5, IdleUpright, PTL DEF WellMade

LEMMA UnchangedUpright ==
  ASSUME part \in Parts, WellMade, Upright, UNCHANGED vars
  PROVE  WellMade' /\ Upright'
<1>1. UNCHANGED <<part, config, setting, saved, reported, repair, count, report, before, first, done>>
  BY DEF vars
<1>2. Cures' = Cures /\ About'.advice = About.advice /\ KeptItems' = KeptItems
  BY <1>1, AboutStays DEF KeptItems
<1>3. WellMade'
  <2>1. Formed' /\ Repairable' /\ Rooms'
    BY <1>1, <1>2 DEF WellMade, Formed, Repairable, Idle, Rooms
  <2>2. (\A f \in reported \cap Cures : Holds(f, setting))'
    BY <1>1, <1>2, SameNext DEF WellMade
  <2>3. QED BY <2>1, <2>2 DEF WellMade
<1>4. Upright'
  <2>1. \A f, s : Kept(f, s)' = Kept(f, s)
    BY <1>1, KeptNext
  <2>2. \A f, s : /\ Holds(f, s)' <=> Holds(f, s)
                  /\ Wrong(f, s)' <=> Wrong(f, s)
    BY <1>1, SameNext
  <2>3. Early' = Early
    BY <1>1 DEF Early
  <2>4. Lefts' <=> Lefts
    BY <1>1 DEF Lefts
  <2>5. Idle' <=> Idle
    BY <1>1 DEF Idle
  <2>6. QED BY <1>1, <2>1, <2>2, <2>3, <2>4, <2>5 DEF Upright
<1>5. QED BY <1>3, <1>4

(* What a repair looks at again is what its check found.                   *)
LEMMA WrongIsFound ==
  ASSUME part \in Parts, NEW s, NEW f \in About.again \cap Cures, Holds(f, s), Wrong(f, s)
  PROVE  f \in Faults(s)
<1> USE DEF T!Parts, N!Parts, S!Parts, H!Parts, C!Parts, I!Parts, U!Parts, K!Parts, T!AnyPart, N!AnyPart,
            S!AnyPart, H!AnyPart, C!AnyPart, I!AnyPart, U!AnyPart, K!AnyPart, T!About, N!About, S!About,
            H!About, C!About, I!About, U!About, K!About, T!Findings, N!Findings, S!Findings, H!Findings,
            I!Findings
<1>a. /\ Findings(s, About.queries) \subseteq Faults(s)
      /\ part \in H!Parts => H!LessExactly(part, s) \subseteq Faults(s)
      /\ part \in K!Parts => K!LessExactly(part, s) \subseteq Faults(s)
  BY FaultsAre DEF Found
<1>b. About.queries = Asked
  BY Asks
<1>1. CASE part = "services"
  <2>1. About.again = {"guarded"} /\ Findings(s, Asked) = T!DisabledServices(s, {"auto", "demand", "guarded"})
    BY <1>1, OfT DEF Asked
  <2>2. QED BY <1>a, <1>b, <1>1, <2>1 DEF T!DisabledServices, Holds
<1>2. CASE part = "devices"
  <2>1. About.again = T!CoreDevices /\ Findings(s, Asked) = T!DisabledDevices(s, {"devices", "chains"})
    BY <1>2, OfT DEF Asked
  <2>2. QED BY <1>a, <1>b, <1>2, <2>1 DEF T!DisabledDevices, Wrong
<1>3. CASE part = "threshold"
  <2>1. About.again = {"grouped"} /\ Findings(s, Asked) = T!GroupedServices(s, {"threshold"})
    BY <1>3, OfT DEF Asked
  <2>2. QED BY <1>a, <1>b, <1>3, <2>1 DEF T!GroupedServices, Wrong
<1>4. CASE part = "policies"
  <2>1. /\ About.again = T!PolicyIds \ {"defender"}
        /\ Findings(s, Asked) = T!HarmfulPolicies(s, {"domain", "policies", "edition", "defender"})
    BY <1>4, OfT DEF Asked
  <2>2. T!PolicyHit(f, s, TRUE) # {} /\ ~s.domain
    BY <1>4 DEF Wrong, Holds
  <2>3. f \in T!HarmfulPolicies(s, {"domain", "policies", "edition", "defender"})
    BY <2>1, <2>2 DEF T!HarmfulPolicies, T!Judged
  <2>4. QED BY <1>a, <1>b, <2>1, <2>3
<1>5. CASE part = "hosts"
  <2>1. About.again = {"blocks"} /\ Findings(s, Asked) = T!BlockingHosts(s, {"hosts"})
    BY <1>5, OfT DEF Asked
  <2>2. QED BY <1>a, <1>b, <1>5, <2>1 DEF T!BlockingHosts, Wrong
<1>6. CASE part = "adapter"
  <2>1. /\ About.again = {"dhcp", "off"}
        /\ Findings(s, Asked) = N!AdapterFindings(s, {"addresses", "physical", "servers", "ping", "names"})
    BY <1>6, OfN DEF Asked
  <2>2. CASE f = "dhcp"
    <3>1. N!DhcpFailed(s)
      BY <1>6, <2>2 DEF Wrong
    <3>2. QED BY <1>a, <1>b, <2>1, <2>2, <3>1 DEF N!AdapterFindings, N!Finding
  <2>3. CASE f = "off"
    <3>1. N!SwitchedOff(s)
      BY <1>6, <2>3 DEF Wrong, N!SwitchedOff
    <3>2. QED BY <1>a, <1>b, <2>1, <2>3, <3>1 DEF N!AdapterFindings, N!Finding
  <2>4. QED BY <2>1, <2>2, <2>3
<1>7. CASE part = "autostart"
  <2>1. About.again = {"user", "machine"} /\ Findings(s, Asked) = S!OrphanedStarts(s, {"user", "machine"})
    BY <1>7, OfS DEF Asked
  <2>2. QED BY <1>a, <1>b, <1>7, <2>1 DEF S!OrphanedStarts, Wrong
<1>8. CASE part = "restart"
  <2>1. About.again = {"overdue"} /\ Findings(s, Asked) = S!RestartFindings(s, {"registry"})
    BY <1>8, OfS DEF Asked
  <2>2. QED BY <1>a, <1>b, <1>8, <2>1 DEF S!RestartFindings, Wrong, Holds
<1>9. CASE part = "opengl"
  <2>1. About.again = {"opengl"} /\ Findings(s, Asked) = H!OpenGlFindings(s, {"devices", "key"})
    BY <1>9, OfH DEF Asked
  <2>2. QED BY <1>a, <1>b, <1>9, <2>1 DEF H!OpenGlFindings, Wrong
<1>10. CASE part = "device"
  <2>1. About.again = {"restart", "driver"}
    BY <1>10, OfH
  <2>2. f \in H!LessExactly(part, s)
    BY <1>10, <2>1 DEF H!LessExactly, H!Finding, Wrong
  <2>3. QED BY <1>a, <1>10, <2>2
<1>11. CASE part = "apps"
  <2>1. About.again = {"apps"} /\ Findings(s, Asked) = I!AppPackages(s, {"packages"})
    BY <1>11, OfI DEF Asked
  <2>2. QED BY <1>a, <1>b, <1>11, <2>1 DEF I!AppPackages, I!Finding, Wrong
<1>12. CASE part = "addon"
  <2>1. About.again = {"addon"}
    BY <1>12, OfK
  <2>2. f \in K!LessExactly(part, s)
    BY <1>12, <2>1 DEF K!LessExactly, K!Finding, Wrong
  <2>3. QED BY <1>a, <1>12, <2>2
<1>13. CASE part \notin {"services", "devices", "threshold", "policies", "hosts", "adapter", "autostart", "restart",
                         "opengl", "device", "apps", "addon"}
  <2>1. About.again = {}
    <3>1. CASE part \in T!Parts
      BY <1>13, <3>1
    <3>2. CASE part \in N!Parts
      BY <1>13, <3>2, OfN
    <3>3. CASE part \in S!Parts
      BY <1>13, <3>3, OfS
    <3>4. CASE part \in H!Parts
      BY <1>13, <3>4, OfH
    <3>5. CASE part \in C!Parts
      <4>1. About = C!About(part)
        BY <3>5, OfC
      <4>2. CASE part = "dirty"
        BY <4>1, <4>2
      <4>3. CASE part = "winsxs"
        BY <4>1, <4>3
      <4>4. CASE part \notin {"dirty", "winsxs"}
        BY <3>5, <4>1, <4>4
      <4>5. QED BY <4>2, <4>3, <4>4
    <3>6. CASE part \in I!Parts
      BY <1>13, <3>6, OfI
    <3>7. CASE part \in U!Parts
      BY <1>13, <3>7, OfU
    <3>8. CASE part \in K!Parts
      <4>1. About = K!About(part)
        BY <3>8, OfK
      <4>2. CASE part = "bluescreen"
        BY <4>1, <4>2
      <4>3. CASE part = "dumps"
        BY <4>1, <4>3
      <4>4. QED BY <1>13, <3>8, <4>2, <4>3
    <3>9. QED BY <3>1, <3>2, <3>3, <3>4, <3>5, <3>6, <3>7, <3>8 DEF Parts
  <2>2. QED BY <2>1
<1>14. QED
  BY <1>1, <1>2, <1>3, <1>4, <1>5, <1>6, <1>7, <1>8, <1>9, <1>10, <1>11, <1>12, <1>13

(* Every step keeps a repair upright.                                      *)
LEMMA FixUpright ==
  ASSUME part \in Parts, WellMade, Upright, Fix \/ Cancel
  PROVE  ~Idle /\ Behaves /\ WellMade' /\ Upright'
<1>1. ~Idle /\ UNCHANGED around
  BY DEF Fix, Cancel
<1>2. Behaves
  <2>1. CASE Fix
    BY <1>1, <2>1, FixBehaves DEF Fix
  <2>2. CASE Cancel
    BY <2>2, CancelBehaves
  <2>3. QED BY <2>1, <2>2
<1>3. QED BY <1>1, <1>2, BehavesUpright

LEMMA NextUpright ==
  ASSUME part \in Parts, WellMade, Upright, [Next]_vars
  PROVE  WellMade' /\ Upright'
<1>1. CASE Scan
  BY <1>1, ScanUpright
<1>2. ASSUME NEW f \in reported, StartRepair(f) PROVE WellMade' /\ Upright'
  BY <1>2, StartUpright
<1>3. CASE Fix \/ Cancel
  BY <1>3, FixUpright
<1>4. CASE Restart \/ SomebodyElse
  BY <1>4, BecomesUpright
<1>5. CASE UNCHANGED vars
  BY <1>5, UnchangedUpright
<1>6. QED BY <1>1, <1>2, <1>3, <1>4, <1>5 DEF Next

(* A repair takes its steps, or is cancelled, alone.                       *)
LEMMA OnlyRepairs ==
  ASSUME Next, ~Idle
  PROVE  Fix \/ Cancel
BY DEF Next, Scan, StartRepair, Restart, SomebodyElse, Becomes

(* Only a scan finds.                                                      *)
LEMMA OnlyScansFind ==
  ASSUME part \in Parts, WellMade, [Next]_vars, ~(reported' \subseteq reported),
         Lapses \cap {"names", "netsh"} = {}
  PROVE  reported' \subseteq Faults(setting)
<1>1. Scan
  BY DEF Next, vars, StartRepair, Fix, Cancel, around, Restart, SomebodyElse
<1>2. PICK answered \in SUBSET About.queries : reported' = Findings(setting, answered)
  BY <1>1 DEF Scan
<1>3. QED BY <1>2, FindsNothingElse DEF WellMade, Rooms

(* A repair that ends with nothing changed ends as it began.               *)
LEMMA EndsAsItBegan ==
  ASSUME part \in Parts, WellMade, Upright, [Next]_vars, ~Idle, repair' = NoRepair,
         report'.how = "unchanged", "late" \notin Lapses
  PROVE  setting' = before
<1>1. CASE UNCHANGED vars
  BY <1>1 DEF vars, Idle
<1>2. CASE Next
  <2>1. Moves
    BY <1>2, OnlyRepairs, FixUpright DEF Behaves
  <2>2. CASE \E place : GoesTo(place) /\ (place \notin Early \/ (repair.at \in Early /\ setting' = setting))
    <3>1. NoRepair.at \in Early
      BY DEF NoRepair, Early
    <3>2. repair.at \in Early /\ setting' = setting
      BY <2>2, <3>1 DEF GoesTo
    <3>3. QED BY <3>2 DEF Upright
  <2>3. CASE \E how : Ends(how) /\ (how = "unchanged" => setting' = before \/ "late" \in Lapses)
    BY <2>3 DEF Ends
  <2>4. QED BY <2>1, <2>2, <2>3 DEF Moves
<1>3. QED BY <1>1, <1>2

(* What somebody has put right is not repaired.                            *)
LEMMA LeftAlone ==
  ASSUME part \in Parts, WellMade, Upright, [Next]_vars, ~Idle,
         repair.finding \in About.again \ Faults(before)
  PROVE  setting' = before
<1>1. repair.finding \in Cures /\ Holds(repair.finding, before)
  BY DEF WellMade, Repairable, Upright
<1>2. ~Wrong(repair.finding, before)
  BY <1>1, WrongIsFound
<1>3. CASE UNCHANGED vars
  BY <1>2, <1>3 DEF vars, Upright
<1>4. CASE Next
  BY <1>2, <1>4, OnlyRepairs, FixUpright DEF Behaves, Heeds
<1>5. QED BY <1>3, <1>4

(* A repair keeps what its finding did not name and gives back the rest.   *)
LEMMA KeepsTheRest ==
  ASSUME part \in Parts, WellMade, Upright, [Next]_vars, ~Idle, ~UNCHANGED vars, "unsaid" \notin Lapses
  PROVE  /\ Kept(repair.finding, setting') = Kept(repair.finding, before)
         /\ repair' = NoRepair => Lent(setting') = Lent(before)
BY OnlyRepairs, FixUpright DEF Behaves

(* What WinMedic says is so: a scan that hears only some of the answers    *)
(* finds nothing that is not there, and a repair that says that nothing    *)
(* was changed has changed nothing, wherever it failed or ran out of time  *)
(* (engine/runner.rs, RepairError::unchanged; the check and the repair of  *)
(* each module). The lapses it excludes are those the findings are about.  *)
THEOREM WhatIsSaidIsSo ==
  ASSUME Lapses \cap {"names", "netsh", "late"} = {}
  PROVE  Spec => ReportsAreTrue
<1>1. Init => part \in Parts /\ WellMade /\ Upright
  BY InitUpright
<1>2. part \in Parts /\ WellMade /\ Upright /\ [Next]_vars => (part \in Parts /\ WellMade /\ Upright)'
  BY NextUpright, PartStays
<1>3. part \in Parts /\ WellMade /\ [Next]_vars
        => [~(reported' \subseteq reported) => reported' \subseteq Faults(setting)]_vars
  BY OnlyScansFind
<1>4. part \in Parts /\ WellMade /\ Upright /\ [Next]_vars
        => [~Idle /\ repair' = NoRepair /\ report'.how = "unchanged" => setting' = before]_vars
  BY EndsAsItBegan
<1>5. QED BY <1>1, <1>2, <1>3, <1>4, PTL DEF Spec, ReportsAreTrue, NothingInvented, UnchangedMeansUnchanged

(* A repair that looks again before it changes anything leaves alone what  *)
(* somebody has put right since the scan, at each of its steps and however *)
(* it ends, cancelled, failed or out of time (the repairs of tweaks.rs,    *)
(* network.rs, registry_startup.rs, clock_restart.rs,                      *)
(* opengl_driver.rs, devices.rs, system_integrity.rs and                   *)
(* shell_extensions.rs that read before they write).                       *)
THEOREM WhatWasPutRightStaysAlone == Spec => PutRightIsLeftAlone
<1>1. Init => part \in Parts /\ WellMade /\ Upright
  BY InitUpright
<1>2. part \in Parts /\ WellMade /\ Upright /\ [Next]_vars => (part \in Parts /\ WellMade /\ Upright)'
  BY NextUpright, PartStays
<1>3. part \in Parts /\ WellMade /\ Upright /\ [Next]_vars
        => [~Idle /\ repair.finding \in About.again \ Faults(before) => setting' = before]_vars
  BY LeftAlone
<1>4. QED BY <1>1, <1>2, <1>3, PTL DEF Spec, PutRightIsLeftAlone

(* A repair changes nothing but what its finding named, at no step, and    *)
(* what it borrows it has given back when it ends, also when it is         *)
(* cancelled or a command fails. The lapse it excludes is the one a        *)
(* finding is about.                                                       *)
THEOREM OnlyTheFindingIsRepaired ==
  ASSUME "unsaid" \notin Lapses
  PROVE  Spec => OnlyWhatWasReported
<1>1. Init => part \in Parts /\ WellMade /\ Upright
  BY InitUpright
<1>2. part \in Parts /\ WellMade /\ Upright /\ [Next]_vars => (part \in Parts /\ WellMade /\ Upright)'
  BY NextUpright, PartStays
<1>3. part \in Parts /\ WellMade /\ Upright /\ [Next]_vars
        => [~Idle => /\ Kept(repair.finding, setting') = Kept(repair.finding, before)
                     /\ repair' = NoRepair => Lent(setting') = Lent(before)]_vars
  BY KeepsTheRest
<1>4. QED BY <1>1, <1>2, <1>3, PTL DEF Spec, OnlyWhatWasReported
=============================================================================
