-------------------------- MODULE DecisionsProofs --------------------------
(***************************************************************************)
(* Theorems about Decisions, for any findings and checks and any bounds:   *)
(* archived findings are sorted out, what waits for a restart waits until  *)
(* it and no longer, and what was decided holds for the next run.          *)
(***************************************************************************)
EXTENDS Decisions, TLAPS

(* A list stays one when it is filtered, joined with another, recorded in, *)
(* ticked, carried over and settled.                                       *)
LEMMA EmptyList == IsFindingList(NoFindings) /\ DOMAIN NoFindings = {}
BY DEF IsFindingList, NoFindings

LEMMA FilteredList ==
  ASSUME NEW f, IsFindingList(f), NEW S \in SUBSET DOMAIN f
  PROVE  /\ IsFindingList(Restrict(f, S))
         /\ DOMAIN Restrict(f, S) = S
         /\ \A i \in S : Restrict(f, S)[i] = f[i]
BY DEF IsFindingList, Restrict

LEMMA JoinedList ==
  ASSUME NEW f, NEW g, IsFindingList(f), IsFindingList(g)
  PROVE  /\ IsFindingList(Join(f, g))
         /\ DOMAIN Join(f, g) = DOMAIN f \cup DOMAIN g
         /\ \A i \in DOMAIN f : Join(f, g)[i] = f[i]
         /\ \A i \in DOMAIN g \ DOMAIN f : Join(f, g)[i] = g[i]
BY DEF IsFindingList, Join

LEMMA ReportedList ==
  ASSUME NEW found \in SUBSET Ids
  PROVE  /\ IsFindingList(Reported(found))
         /\ DOMAIN Reported(found) = found
         /\ \A i \in found : ~Reported(found)[i].is_reboot_pending
BY DEF IsFindingList, Reported, Fresh, Finding, Severities

LEMMA CarriedFinding ==
  ASSUME NEW f \in Finding, NEW k \in Finding, NEW g,
         g = [f EXCEPT !.is_reboot_pending = @ \/ k.is_reboot_pending,
                       !.is_selected = /\ ~k.is_reboot_pending
                                       /\ k.is_selected /\ ~f.advice_only,
                       !.fix_error = @ \/ k.fix_error]
  PROVE  g \in Finding /\ (g.is_reboot_pending <=> f.is_reboot_pending \/ k.is_reboot_pending)
<1> DEFINE pending == f.is_reboot_pending \/ k.is_reboot_pending
           selected == ~k.is_reboot_pending /\ k.is_selected /\ ~f.advice_only
           error == f.fix_error \/ k.fix_error
<1>1. pending \in BOOLEAN /\ selected \in BOOLEAN /\ error \in BOOLEAN
  OBVIOUS
<1>2. g = [f EXCEPT !.is_reboot_pending = pending, !.is_selected = selected,
                    !.fix_error = error]
  OBVIOUS
<1> HIDE DEF pending, selected, error
<1>3. g \in Finding /\ g.is_reboot_pending = pending
  BY <1>1, <1>2 DEF Finding
<1> QED BY <1>3 DEF pending

LEMMA CarriedList ==
  ASSUME NEW fresh, NEW known, IsFindingList(fresh), IsFindingList(known)
  PROVE  /\ IsFindingList(CarryOver(fresh, known))
         /\ DOMAIN CarryOver(fresh, known) = DOMAIN fresh
         /\ \A i \in DOMAIN fresh :
              CarryOver(fresh, known)[i].is_reboot_pending
                <=> \/ fresh[i].is_reboot_pending
                    \/ i \in DOMAIN known /\ known[i].is_reboot_pending
<1>1. \A i \in DOMAIN fresh : fresh[i] \in Finding
  BY DEF IsFindingList
<1>2. \A i \in DOMAIN known : known[i] \in Finding
  BY DEF IsFindingList
<1>3. ASSUME NEW i \in DOMAIN fresh
      PROVE  /\ CarryOver(fresh, known)[i] \in Finding
             /\ CarryOver(fresh, known)[i].is_reboot_pending
                  <=> \/ fresh[i].is_reboot_pending
                      \/ i \in DOMAIN known /\ known[i].is_reboot_pending
  <2>1. CASE i \in DOMAIN known
    <3>1. fresh[i] \in Finding /\ known[i] \in Finding
      BY <1>1, <1>2, <1>3, <2>1
    <3>2. CarryOver(fresh, known)[i] =
            [fresh[i] EXCEPT !.is_reboot_pending = @ \/ known[i].is_reboot_pending,
                             !.is_selected = /\ ~known[i].is_reboot_pending
                                             /\ known[i].is_selected /\ ~fresh[i].advice_only,
                             !.fix_error = @ \/ known[i].fix_error]
      BY <1>3, <2>1 DEF CarryOver
    <3>3. /\ CarryOver(fresh, known)[i] \in Finding
          /\ CarryOver(fresh, known)[i].is_reboot_pending
               <=> fresh[i].is_reboot_pending \/ known[i].is_reboot_pending
      BY <3>1, <3>2, CarriedFinding
    <3> QED BY <2>1, <3>3
  <2>2. CASE i \notin DOMAIN known
    BY <1>1, <1>3, <2>2 DEF CarryOver
  <2> QED BY <2>1, <2>2
<1> QED BY <1>3 DEF IsFindingList, CarryOver

LEMMA SettledList ==
  ASSUME NEW f, IsFindingList(f)
  PROVE  IsFindingList(Settled(f)) /\ DOMAIN Settled(f) = DOMAIN f
<1>1. ASSUME NEW i \in DOMAIN f PROVE Settled(f)[i] \in Finding
  BY <1>1 DEF IsFindingList, Settled, Finding
<1> QED BY <1>1 DEF IsFindingList, Settled

LEMMA RecordedFinding ==
  ASSUME NEW f \in Finding, NEW result \in RepairResults
  PROVE  RecordRepair(f, result) \in Finding
BY DEF RecordRepair, Finding, RepairResults

(* A list keeps what waits in it.                                          *)
LEMMA WaitingIsListed ==
  ASSUME NEW f, NEW i
  PROVE  i \in Waiting(f) <=> /\ i \in DOMAIN f
                              /\ f[i].is_reboot_pending /\ i \notin Notices
BY DEF Waiting, RepairWaits

(* What a scan reports, decided by what is known, lists all that is known  *)
(* to wait, still waiting.                                                 *)
LEMMA DecidedList ==
  ASSUME NEW fresh, NEW known, IsFindingList(fresh), IsFindingList(known)
  PROVE  /\ IsFindingList(Decided(fresh, known))
         /\ Waiting(known) \subseteq Waiting(Decided(fresh, known))
<1> DEFINE carried == CarryOver(fresh, known)
           kept == Restrict(known, Waiting(known))
<1>1. Waiting(known) \in SUBSET DOMAIN known
  BY DEF Waiting
<1>2. IsFindingList(carried) /\ DOMAIN carried = DOMAIN fresh
  BY CarriedList
<1>3. IsFindingList(kept) /\ DOMAIN kept = Waiting(known)
      /\ \A i \in Waiting(known) : kept[i] = known[i]
  BY <1>1, FilteredList
<1>4. Decided(fresh, known) = Join(carried, kept)
  BY DEF Decided, KeepWaiting
<1>5. /\ IsFindingList(Join(carried, kept))
      /\ DOMAIN Join(carried, kept) = DOMAIN fresh \cup Waiting(known)
      /\ \A i \in DOMAIN fresh : Join(carried, kept)[i] = carried[i]
      /\ \A i \in Waiting(known) \ DOMAIN fresh : Join(carried, kept)[i] = kept[i]
  <2> HIDE DEF carried, kept
  <2>1. /\ IsFindingList(Join(carried, kept))
        /\ DOMAIN Join(carried, kept) = DOMAIN carried \cup DOMAIN kept
        /\ \A i \in DOMAIN carried : Join(carried, kept)[i] = carried[i]
        /\ \A i \in DOMAIN kept \ DOMAIN carried : Join(carried, kept)[i] = kept[i]
    BY <1>2, <1>3, JoinedList
  <2> QED BY <1>2, <1>3, <2>1
<1>6. ASSUME NEW i \in Waiting(known) PROVE i \in Waiting(Join(carried, kept))
  <2>1. known[i].is_reboot_pending /\ i \notin Notices /\ i \in DOMAIN known
    BY <1>6, WaitingIsListed
  <2>2. CASE i \in DOMAIN fresh
    <3>1. carried[i].is_reboot_pending
      BY <2>1, <2>2, CarriedList
    <3>2. Join(carried, kept)[i] = carried[i] /\ i \in DOMAIN Join(carried, kept)
      BY <1>5, <2>2
    <3> HIDE DEF carried, kept
    <3> QED BY <2>1, <3>1, <3>2, WaitingIsListed
  <2>3. CASE i \notin DOMAIN fresh
    <3>1. Join(carried, kept)[i] = known[i] /\ i \in DOMAIN Join(carried, kept)
      BY <1>3, <1>5, <1>6, <2>3
    <3> HIDE DEF carried, kept
    <3> QED BY <2>1, <3>1, WaitingIsListed
  <2> QED BY <2>2, <2>3
<1> QED BY <1>4, <1>5, <1>6

---------------------------------------------------------------------------
(* The archived findings are sorted out, with a window or without.         *)
Sorted == /\ DOMAIN shown \cap archived = {}
          /\ DOMAIN hidden \subseteq archived

(* A repair run works on findings that are shown and do not wait.          *)
Runs == /\ ~open => run = "idle"
        /\ run # "repair" => fixing = {}
        /\ \A i \in fixing : i \in DOMAIN shown /\ ~shown[i].is_reboot_pending

(* What waits in the middle of a scan waited when it began.                *)
Scans == run = "scan" => Waiting(shown) \cup Waiting(hidden) \subseteq Waiting(last)

IInv == TypeOK /\ Sorted /\ Runs /\ Scans

LEMMA InitHolds == Init => IInv
<1> SUFFICES ASSUME Init PROVE IInv
  OBVIOUS
<1>1. /\ IsFindingList(shown) /\ IsFindingList(hidden) /\ IsFindingList(last)
      /\ IsFindingList(file.issues) /\ IsFindingList(helper.issues)
  BY EmptyList DEF Init, HelperOff
<1>3. world \in World /\ boot \in 0..MaxBoot
  BY WorldsAssumption DEF Init
<1>4. TypeOK
  BY <1>1, <1>3 DEF Init, TypeOK, HelperOff
<1>2. Sorted /\ Runs /\ Scans
  BY EmptyList DEF Init, Sorted, Runs, Scans
<1> QED BY <1>2, <1>4 DEF IInv

---------------------------------------------------------------------------
(* What a step may not take from what waits.                               *)
WaitsOn == Waiting(shown) \cup Waiting(hidden) \subseteq Waiting(shown') \cup Waiting(hidden')

(* Sorting a list into shown and hidden loses and moves nothing.           *)
LEMMA SortedList ==
  ASSUME NEW f, IsFindingList(f)
  PROVE  /\ IsFindingList(Shown(f)) /\ IsFindingList(Hidden(f))
         /\ DOMAIN Shown(f) = DOMAIN f \ archived
         /\ DOMAIN Hidden(f) = DOMAIN f \cap archived
         /\ Waiting(f) = Waiting(Shown(f)) \cup Waiting(Hidden(f))
<1>1. /\ IsFindingList(Shown(f)) /\ DOMAIN Shown(f) = DOMAIN f \ archived
      /\ \A i \in DOMAIN f \ archived : Shown(f)[i] = f[i]
  <2>1. DOMAIN f \ archived \in SUBSET DOMAIN f
    OBVIOUS
  <2> QED BY <2>1, FilteredList DEF Shown
<1>2. /\ IsFindingList(Hidden(f)) /\ DOMAIN Hidden(f) = DOMAIN f \cap archived
      /\ \A i \in DOMAIN f \cap archived : Hidden(f)[i] = f[i]
  <2>1. DOMAIN f \cap archived \in SUBSET DOMAIN f
    OBVIOUS
  <2> QED BY <2>1, FilteredList DEF Hidden
<1>3. Waiting(f) = Waiting(Shown(f)) \cup Waiting(Hidden(f))
  BY <1>1, <1>2 DEF Waiting, RepairWaits
<1> QED BY <1>1, <1>2, <1>3

(* Two lists without a finding in common wait, joined, for what each does. *)
LEMMA JoinedWaits ==
  ASSUME NEW f, NEW g, IsFindingList(f), IsFindingList(g), DOMAIN f \cap DOMAIN g = {}
  PROVE  Waiting(Join(f, g)) = Waiting(f) \cup Waiting(g)
<1>1. /\ DOMAIN Join(f, g) = DOMAIN f \cup DOMAIN g
      /\ \A i \in DOMAIN f : Join(f, g)[i] = f[i]
      /\ \A i \in DOMAIN g \ DOMAIN f : Join(f, g)[i] = g[i]
  BY JoinedList
<1> QED BY <1>1 DEF Waiting, RepairWaits

(* A list filtered for a set waits for what of it is in the set.           *)
LEMMA FilteredWaits ==
  ASSUME NEW f, IsFindingList(f), NEW S \in SUBSET DOMAIN f
  PROVE  Waiting(Restrict(f, S)) = Waiting(f) \cap S
BY FilteredList DEF Waiting, RepairWaits

Ticked(f, S, ticked) ==
  [i \in DOMAIN f |-> IF i \in S THEN [f[i] EXCEPT !.is_selected = ticked] ELSE f[i]]

LEMMA TickedList ==
  ASSUME NEW f, IsFindingList(f), NEW S, NEW ticked \in BOOLEAN
  PROVE  LET g == Ticked(f, S, ticked)
         IN  /\ IsFindingList(g) /\ DOMAIN g = DOMAIN f
             /\ \A i \in DOMAIN f : g[i].is_reboot_pending = f[i].is_reboot_pending
             /\ Waiting(g) = Waiting(f)
<1> DEFINE g == Ticked(f, S, ticked)
<1>0. g = [i \in DOMAIN f |-> IF i \in S THEN [f[i] EXCEPT !.is_selected = ticked] ELSE f[i]]
  BY DEF Ticked
<1> HIDE DEF g
<1>1. ASSUME NEW i \in DOMAIN f
      PROVE  g[i] \in Finding /\ g[i].is_reboot_pending = f[i].is_reboot_pending
  <2>1. f[i] \in Finding
    BY DEF IsFindingList
  <2> QED BY <1>0, <2>1 DEF Finding
<1>2. IsFindingList(g) /\ DOMAIN g = DOMAIN f
  BY <1>0, <1>1 DEF IsFindingList
<1>3. Waiting(g) = Waiting(f)
  BY <1>1, <1>2 DEF Waiting, RepairWaits
<1> QED BY <1>1, <1>2, <1>3 DEF g

FileOK == /\ file = [stamp |-> file.stamp, boot |-> file.boot, issues |-> file.issues]
          /\ file.stamp \in Nat /\ file.boot \in 0..MaxBoot /\ IsFindingList(file.issues)

LEMMA SavedFile ==
  ASSUME TypeOK, Save, stamp' \in Nat, IsFindingList(shown'), IsFindingList(hidden')
  PROVE  FileOK'
<1>1. IsFindingList(Join(shown', hidden'))
  BY JoinedList
<1>2. CASE stamp' = 0
  BY <1>2 DEF Save, TypeOK, FileOK
<1>3. CASE stamp' # 0
  <2>1. file' = [stamp |-> stamp', boot |-> boot, issues |-> Join(shown', hidden')]
    BY <1>3 DEF Save
  <2> QED BY <1>1, <2>1 DEF TypeOK, FileOK
<1> QED BY <1>2, <1>3

---------------------------------------------------------------------------
(* The steps. *)

Keeps == IInv' /\ (open /\ open' /\ boot' = boot => WaitsOn)

LEMMA OpenKeeps == IInv /\ Open => Keeps
<1> SUFFICES ASSUME IInv, Open PROVE Keeps
  OBVIOUS
<1> DEFINE all == IF file.stamp # 0 /\ file.boot # boot THEN Settled(file.issues)
                                                      ELSE file.issues
<1>1. IsFindingList(all)
  BY SettledList DEF IInv, TypeOK
<1>2. shown' = Shown(all) /\ hidden' = Hidden(all) /\ stamp' = file.stamp
      /\ ~open /\ open' = TRUE
  BY DEF Open
<1> HIDE DEF all
<1>3. IsFindingList(shown') /\ IsFindingList(hidden')
      /\ DOMAIN shown' \cap archived = {} /\ DOMAIN hidden' \subseteq archived
  BY <1>1, <1>2, SortedList
<1>4. /\ run' = "idle" /\ fixing' = {} /\ last' = last /\ archived' = archived
      /\ file' = file /\ stamp' \in Nat
  BY DEF Open, IInv, Runs, TypeOK
<1>5. TypeOK'
  BY <1>3, <1>4 DEF Open, IInv, TypeOK
<1>6. (Sorted /\ Runs /\ Scans)'
  BY <1>3, <1>4 DEF Sorted, Runs, Scans
<1> QED BY <1>2, <1>5, <1>6 DEF Keeps, IInv

LEMMA StartScanKeeps == IInv /\ StartScan => Keeps
<1> SUFFICES ASSUME IInv, StartScan PROVE Keeps
  OBVIOUS
<1>1. IsFindingList(shown) /\ IsFindingList(hidden) /\ DOMAIN shown \cap DOMAIN hidden = {}
  BY DEF IInv, TypeOK, Sorted
<1>2. Waiting(shown) \in SUBSET DOMAIN shown /\ Waiting(hidden) \in SUBSET DOMAIN hidden
  BY DEF Waiting
<1>3. /\ IsFindingList(shown') /\ IsFindingList(hidden')
      /\ DOMAIN shown' \subseteq DOMAIN shown /\ DOMAIN hidden' \subseteq DOMAIN hidden
  BY <1>1, <1>2, FilteredList DEF StartScan
<1>4. Waiting(shown') = Waiting(shown) /\ Waiting(hidden') = Waiting(hidden)
  <2>1. /\ Waiting(Restrict(shown, Waiting(shown))) = Waiting(shown) \cap Waiting(shown)
        /\ Waiting(Restrict(hidden, Waiting(hidden))) = Waiting(hidden) \cap Waiting(hidden)
    BY <1>1, <1>2, FilteredWaits
  <2> QED BY <2>1 DEF StartScan
<1>5. IsFindingList(last') /\ Waiting(last') = Waiting(shown) \cup Waiting(hidden)
  BY <1>1, JoinedList, JoinedWaits DEF StartScan
<1>6. fixing' = {} /\ run' = "scan" /\ open' = open /\ open /\ archived' = archived
  BY DEF StartScan, Idle, IInv, Runs
<1>7. TypeOK'
  BY <1>3, <1>5, <1>6 DEF StartScan, IInv, TypeOK
<1>8. (Sorted /\ Runs /\ Scans)' /\ WaitsOn
  BY <1>3, <1>4, <1>5, <1>6 DEF IInv, Sorted, Runs, Scans, WaitsOn
<1> QED BY <1>7, <1>8 DEF Keeps, IInv

LEMMA ModuleFinishedKeeps ==
  ASSUME IInv, NEW m \in Modules, NEW found \in SUBSET Ids, ModuleFinished(m, found)
  PROVE  Keeps
<1> DEFINE issues == CarryOver(Reported(found), last)
           rest == Restrict(shown, DOMAIN shown \ found)
           restHidden == Restrict(hidden, DOMAIN hidden \ found)
<1>1. IsFindingList(shown) /\ IsFindingList(hidden) /\ IsFindingList(last)
  BY DEF IInv, TypeOK
<1>2. /\ IsFindingList(issues) /\ DOMAIN issues = found
      /\ \A i \in found : issues[i].is_reboot_pending
                            <=> i \in DOMAIN last /\ last[i].is_reboot_pending
  BY <1>1, ReportedList, CarriedList
<1>3. /\ IsFindingList(rest) /\ DOMAIN rest = DOMAIN shown \ found
      /\ IsFindingList(restHidden) /\ DOMAIN restHidden = DOMAIN hidden \ found
      /\ Waiting(rest) = Waiting(shown) \ found
      /\ Waiting(restHidden) = Waiting(hidden) \ found
  <2>1. /\ DOMAIN shown \ found \in SUBSET DOMAIN shown
        /\ DOMAIN hidden \ found \in SUBSET DOMAIN hidden
    OBVIOUS
  <2>2. Waiting(shown) \subseteq DOMAIN shown /\ Waiting(hidden) \subseteq DOMAIN hidden
    BY DEF Waiting
  <2> QED BY <1>1, <2>1, <2>2, FilteredList, FilteredWaits
<1>4. shown' = Join(Shown(issues), rest) /\ hidden' = Join(Hidden(issues), restHidden)
  BY DEF ModuleFinished
<1>5. Waiting(issues) = Waiting(last) \cap found
  BY <1>2 DEF Waiting, RepairWaits
<1> HIDE DEF issues, rest, restHidden
<1>6. /\ IsFindingList(Shown(issues)) /\ IsFindingList(Hidden(issues))
      /\ DOMAIN Shown(issues) = found \ archived
      /\ DOMAIN Hidden(issues) = found \cap archived
      /\ Waiting(issues) = Waiting(Shown(issues)) \cup Waiting(Hidden(issues))
  BY <1>2, SortedList
<1>7. /\ IsFindingList(shown') /\ DOMAIN shown' = (found \ archived) \cup (DOMAIN shown \ found)
      /\ Waiting(shown') = Waiting(Shown(issues)) \cup (Waiting(shown) \ found)
  <2>1. DOMAIN Shown(issues) \cap DOMAIN rest = {}
    BY <1>3, <1>6
  <2>2. /\ IsFindingList(Join(Shown(issues), rest))
        /\ DOMAIN Join(Shown(issues), rest) = DOMAIN Shown(issues) \cup DOMAIN rest
    BY <1>3, <1>6, JoinedList
  <2>3. Waiting(Join(Shown(issues), rest)) = Waiting(Shown(issues)) \cup Waiting(rest)
    BY <1>3, <1>6, <2>1, JoinedWaits
  <2> QED BY <1>3, <1>4, <1>6, <2>2, <2>3
<1>8. /\ IsFindingList(hidden')
      /\ DOMAIN hidden' = (found \cap archived) \cup (DOMAIN hidden \ found)
      /\ Waiting(hidden') = Waiting(Hidden(issues)) \cup (Waiting(hidden) \ found)
  <2>1. DOMAIN Hidden(issues) \cap DOMAIN restHidden = {}
    BY <1>3, <1>6
  <2>2. /\ IsFindingList(Join(Hidden(issues), restHidden))
        /\ DOMAIN Join(Hidden(issues), restHidden) = DOMAIN Hidden(issues) \cup DOMAIN restHidden
    BY <1>3, <1>6, JoinedList
  <2>3. Waiting(Join(Hidden(issues), restHidden)) = Waiting(Hidden(issues)) \cup Waiting(restHidden)
    BY <1>3, <1>6, <2>1, JoinedWaits
  <2> QED BY <1>3, <1>4, <1>6, <2>2, <2>3
<1>9. /\ run = "scan" /\ run' = run /\ fixing = {} /\ fixing' = {} /\ last' = last
      /\ open' = open /\ archived' = archived
      /\ Waiting(shown) \cup Waiting(hidden) \subseteq Waiting(last)
  BY DEF ModuleFinished, IInv, Runs, Scans
<1>10. TypeOK'
  BY <1>7, <1>8, <1>9 DEF ModuleFinished, IInv, TypeOK
<1>11. Waiting(shown') \cup Waiting(hidden')
         = (Waiting(last) \cap found) \cup ((Waiting(shown) \cup Waiting(hidden)) \ found)
  BY <1>5, <1>6, <1>7, <1>8
<1>12. (Sorted /\ Runs /\ Scans)' /\ WaitsOn
  BY <1>7, <1>8, <1>9, <1>11 DEF IInv, Sorted, Runs, Scans, WaitsOn
<1> QED BY <1>10, <1>12 DEF Keeps, IInv

LEMMA ScanStepKeeps ==
  ASSUME IInv, (\E m \in Modules : ModuleFailed(m)) \/ ScanEnded
  PROVE  Keeps
<1>1. CASE \E m \in Modules : ModuleFailed(m)
  BY <1>1 DEF ModuleFailed, Keeps, IInv, TypeOK, Sorted, Runs, Scans, WaitsOn
<1>2. CASE ScanEnded
  <2>1. shown' = shown /\ hidden' = hidden /\ stamp' \in Nat /\ last' = NoFindings
    BY <1>2 DEF ScanEnded, IInv, TypeOK
  <2>2. FileOK'
    BY <1>2, <2>1, SavedFile DEF ScanEnded, IInv, TypeOK
  <2>3. IsFindingList(last')
    BY <2>1, EmptyList
  <2>4. TypeOK'
    BY <1>2, <2>1, <2>2, <2>3 DEF ScanEnded, IInv, TypeOK, FileOK
  <2>5. (Sorted /\ Runs /\ Scans)' /\ WaitsOn
    BY <1>2, <2>1 DEF ScanEnded, IInv, Sorted, Runs, Scans, WaitsOn, Waiting
  <2> QED BY <2>4, <2>5 DEF Keeps, IInv
<1> QED BY <1>1, <1>2

LEMMA RepairStepKeeps ==
  ASSUME IInv, \/ StartRepairs \/ RepairsEnded
               \/ \E i \in Ids : \E result \in RepairResults : FixFinished(i, result)
  PROVE  Keeps
<1>1. CASE StartRepairs
  <2>1. /\ shown' = shown /\ hidden' = hidden /\ archived' = archived /\ last' = last
        /\ run' = "repair" /\ open' = open /\ open
        /\ fixing' = {i \in DOMAIN shown : WillRepair(shown[i])}
    BY <1>1 DEF StartRepairs, Idle
  <2>2. \A i \in fixing' : i \in DOMAIN shown /\ ~shown[i].is_reboot_pending
    BY <2>1 DEF WillRepair, IsRepairable
  <2>3. TypeOK'
    BY <1>1, <2>1 DEF StartRepairs, IInv, TypeOK
  <2>4. (Sorted /\ Runs /\ Scans)' /\ WaitsOn
    BY <2>1, <2>2 DEF IInv, Sorted, Runs, Scans, WaitsOn, Waiting
  <2> QED BY <2>3, <2>4 DEF Keeps, IInv
<1>2. CASE RepairsEnded
  <2>1. shown' = shown /\ hidden' = hidden /\ stamp' = stamp
    BY <1>2 DEF RepairsEnded
  <2>2. FileOK'
    BY <1>2, <2>1, SavedFile DEF RepairsEnded, IInv, TypeOK
  <2>3. TypeOK'
    BY <1>2, <2>1, <2>2 DEF RepairsEnded, IInv, TypeOK, FileOK
  <2>4. (Sorted /\ Runs /\ Scans)' /\ WaitsOn
    BY <1>2, <2>1 DEF RepairsEnded, IInv, Sorted, Runs, Scans, WaitsOn, Waiting
  <2> QED BY <2>3, <2>4 DEF Keeps, IInv
<1>3. ASSUME NEW i \in Ids, NEW result \in RepairResults, FixFinished(i, result)
      PROVE  Keeps
  <2>1. /\ i \in fixing /\ run = "repair" /\ fixing' = fixing \ {i}
        /\ i \in DOMAIN shown /\ ~shown[i].is_reboot_pending
        /\ shown' = [shown EXCEPT ![i] = RecordRepair(shown[i], result)]
        /\ UNCHANGED <<world, boot, clock, archived, open, run, hidden, last, todo, stamp, file, helper, leftOut>>
    BY <1>3 DEF FixFinished, IInv, Runs
  <2>2. shown[i] \in Finding /\ RecordRepair(shown[i], result) \in Finding
    BY <2>1, RecordedFinding DEF IInv, TypeOK, IsFindingList
  <2>3. IsFindingList(shown') /\ DOMAIN shown' = DOMAIN shown
    BY <2>1, <2>2 DEF IInv, TypeOK, IsFindingList
  <2>4. waiting' \in SUBSET Ids
    BY <1>3 DEF FixFinished, IInv, TypeOK
  <2>5. TypeOK'
    BY <2>1, <2>3, <2>4 DEF IInv, TypeOK
  <2>6. \A j \in DOMAIN shown \ {i} : shown'[j] = shown[j]
    BY <2>1
  <2>7. Waiting(shown) \subseteq Waiting(shown')
    BY <2>1, <2>3, <2>6 DEF Waiting, RepairWaits
  <2>8. (Sorted /\ Runs /\ Scans)' /\ WaitsOn
    BY <2>1, <2>3, <2>6, <2>7 DEF IInv, Sorted, Runs, Scans, WaitsOn, Waiting
  <2> QED BY <2>5, <2>8 DEF Keeps, IInv
<1> QED BY <1>1, <1>2, <1>3

LEMMA TickStepKeeps ==
  ASSUME IInv, open, NEW S \in SUBSET Ids, NEW ticked \in BOOLEAN, SetTicks(S, ticked)
  PROVE  Keeps
<1>1. /\ IsFindingList(shown') /\ DOMAIN shown' = DOMAIN shown
      /\ \A i \in DOMAIN shown : shown'[i].is_reboot_pending = shown[i].is_reboot_pending
      /\ Waiting(shown') = Waiting(shown)
  <2>1. IsFindingList(shown)
    BY DEF IInv, TypeOK
  <2>2. shown' = Ticked(shown, S, ticked)
    BY DEF SetTicks, Ticked
  <2> QED BY <2>1, <2>2, TickedList
<1>2. hidden' = hidden /\ stamp' = stamp
  BY DEF SetTicks
<1>3. FileOK'
  BY <1>1, <1>2, SavedFile DEF SetTicks, IInv, TypeOK
<1>4. TypeOK'
  BY <1>1, <1>2, <1>3 DEF SetTicks, IInv, TypeOK, FileOK
<1>5. (Sorted /\ Runs /\ Scans)' /\ WaitsOn
  BY <1>1, <1>2 DEF SetTicks, IInv, Sorted, Runs, Scans, WaitsOn, Waiting
<1> QED BY <1>4, <1>5 DEF Keeps, IInv

LEMMA ArchiveKeeps ==
  ASSUME IInv, NEW i \in Ids, Archive(i)
  PROVE  Keeps
<1> DEFINE back == Restrict(shown, DOMAIN shown \cap archived')
<1>1. /\ archived' = archived \cup {i} /\ Idle /\ stamp' = stamp /\ open' = open
      /\ run' = run /\ last' = last /\ fixing' = fixing
      /\ shown' = Restrict(shown, DOMAIN shown \ archived')
      /\ hidden' = Join(hidden, back)
  BY DEF Archive
<1>2. /\ IsFindingList(shown) /\ IsFindingList(hidden) /\ fixing = {}
  BY <1>1 DEF IInv, TypeOK, Runs, Idle
<1>3. /\ IsFindingList(shown') /\ DOMAIN shown' = DOMAIN shown \ archived'
      /\ Waiting(shown') = Waiting(shown) \cap (DOMAIN shown \ archived')
  <2>1. DOMAIN shown \ archived' \in SUBSET DOMAIN shown
    OBVIOUS
  <2> QED BY <1>1, <1>2, <2>1, FilteredList, FilteredWaits
<1>4. /\ IsFindingList(back) /\ DOMAIN back = DOMAIN shown \cap archived'
      /\ Waiting(back) = Waiting(shown) \cap (DOMAIN shown \cap archived')
  <2>1. DOMAIN shown \cap archived' \in SUBSET DOMAIN shown
    OBVIOUS
  <2> QED BY <1>2, <2>1, FilteredList, FilteredWaits
<1> HIDE DEF back
<1>5. /\ IsFindingList(Join(hidden, back)) /\ DOMAIN Join(hidden, back) = DOMAIN hidden \cup DOMAIN back
      /\ Waiting(Join(hidden, back)) = Waiting(hidden) \cup Waiting(back)
  <2>1. DOMAIN hidden \cap DOMAIN back = {}
    BY <1>4 DEF IInv, Sorted
  <2> QED BY <1>2, <1>4, <2>1, JoinedList, JoinedWaits
<1>6. FileOK'
  BY <1>1, <1>3, <1>5, SavedFile DEF Archive, IInv, TypeOK
<1>7. TypeOK'
  BY <1>1, <1>2, <1>3, <1>5, <1>6 DEF Archive, IInv, TypeOK, FileOK
<1>8. Waiting(shown) \subseteq DOMAIN shown
  BY DEF Waiting
<1>9. (Sorted /\ Runs /\ Scans)' /\ WaitsOn
  BY <1>1, <1>2, <1>3, <1>4, <1>5, <1>8 DEF IInv, Sorted, Runs, Scans, WaitsOn, Idle
<1> QED BY <1>7, <1>9 DEF Keeps, IInv

LEMMA ShowAgainKeeps ==
  ASSUME IInv, NEW i \in Ids, ShowAgain(i)
  PROVE  Keeps
<1> DEFINE back == Restrict(hidden, DOMAIN hidden \cap {i})
<1>1. /\ archived' = archived \ {i} /\ Idle /\ stamp' = stamp /\ open' = open
      /\ run' = run /\ last' = last /\ fixing' = fixing
      /\ hidden' = Restrict(hidden, DOMAIN hidden \ {i})
      /\ shown' = Join(shown, back)
  BY DEF ShowAgain
<1>2. /\ IsFindingList(shown) /\ IsFindingList(hidden) /\ fixing = {}
  BY <1>1 DEF IInv, TypeOK, Runs, Idle
<1>3. /\ IsFindingList(hidden') /\ DOMAIN hidden' = DOMAIN hidden \ {i}
      /\ Waiting(hidden') = Waiting(hidden) \cap (DOMAIN hidden \ {i})
  <2>1. DOMAIN hidden \ {i} \in SUBSET DOMAIN hidden
    OBVIOUS
  <2> QED BY <1>1, <1>2, <2>1, FilteredList, FilteredWaits
<1>4. /\ IsFindingList(back) /\ DOMAIN back = DOMAIN hidden \cap {i}
      /\ Waiting(back) = Waiting(hidden) \cap (DOMAIN hidden \cap {i})
  <2>1. DOMAIN hidden \cap {i} \in SUBSET DOMAIN hidden
    OBVIOUS
  <2> QED BY <1>2, <2>1, FilteredList, FilteredWaits
<1> HIDE DEF back
<1>5. /\ IsFindingList(Join(shown, back)) /\ DOMAIN Join(shown, back) = DOMAIN shown \cup DOMAIN back
      /\ Waiting(Join(shown, back)) = Waiting(shown) \cup Waiting(back)
  <2>1. DOMAIN shown \cap DOMAIN back = {}
    BY <1>4 DEF IInv, Sorted
  <2> QED BY <1>2, <1>4, <2>1, JoinedList, JoinedWaits
<1>6. FileOK'
  BY <1>1, <1>3, <1>5, SavedFile DEF ShowAgain, IInv, TypeOK
<1>7. TypeOK'
  BY <1>1, <1>2, <1>3, <1>5, <1>6 DEF ShowAgain, IInv, TypeOK, FileOK
<1>8. Waiting(hidden) \subseteq DOMAIN hidden
  BY DEF Waiting
<1>9. (Sorted /\ Runs /\ Scans)' /\ WaitsOn
  BY <1>1, <1>2, <1>3, <1>4, <1>5, <1>8 DEF IInv, Sorted, Runs, Scans, WaitsOn, Idle
<1> QED BY <1>7, <1>9 DEF Keeps, IInv

LEMMA TakeInKeeps == IInv /\ TakeInBackgroundScan => Keeps
<1> SUFFICES ASSUME IInv, TakeInBackgroundScan PROVE Keeps
  OBVIOUS
<1> DEFINE known == Join(shown, hidden)
           all == Decided(file.issues, known)
<1>1. /\ shown' = Shown(all) /\ hidden' = Hidden(all) /\ stamp' = file.stamp
      /\ leftOut' = leftOut \cap DOMAIN all /\ Idle
      /\ UNCHANGED <<world, boot, clock, archived, open, run, last, todo, fixing, file, helper, waiting>>
  BY DEF TakeInBackgroundScan
<1>2. IsFindingList(known) /\ Waiting(known) = Waiting(shown) \cup Waiting(hidden)
  BY JoinedList, JoinedWaits DEF IInv, TypeOK, Sorted
<1>3. IsFindingList(file.issues)
  BY DEF IInv, TypeOK
<1> HIDE DEF known
<1>4. IsFindingList(all) /\ Waiting(known) \subseteq Waiting(all)
  BY <1>2, <1>3, DecidedList
<1> HIDE DEF all
<1>5. /\ IsFindingList(shown') /\ IsFindingList(hidden')
      /\ DOMAIN shown' = DOMAIN all \ archived /\ DOMAIN hidden' = DOMAIN all \cap archived
      /\ Waiting(all) = Waiting(shown') \cup Waiting(hidden')
  BY <1>1, <1>4, SortedList
<1>6. fixing = {} /\ run = "idle"
  BY <1>1 DEF IInv, Runs, Idle
<1>7. TypeOK'
  BY <1>1, <1>5, <1>6 DEF IInv, TypeOK
<1>8. (Sorted /\ Runs /\ Scans)' /\ WaitsOn
  BY <1>1, <1>2, <1>4, <1>5, <1>6 DEF IInv, Sorted, Runs, Scans, WaitsOn, Idle
<1> QED BY <1>7, <1>8 DEF Keeps, IInv

LEMMA GoneKeeps ==
  ASSUME IInv, Quit \/ Restart
  PROVE  Keeps
<1>1. /\ WindowGone /\ archived' = archived /\ file' = file
      /\ UNCHANGED <<world, clock>> /\ boot' \in 0..MaxBoot
  <2>1. CASE Quit
    BY <2>1 DEF Quit, IInv, TypeOK
  <2>2. CASE Restart
    <3>1. boot \in Nat /\ MaxBoot \in Nat /\ world.restarts \in 0..MaxBoot
      BY WorldsAssumption DEF IInv, TypeOK, World
    <3> QED BY <2>2, <3>1 DEF Restart
  <2> QED BY <2>1, <2>2
<1>2. /\ IsFindingList(shown') /\ IsFindingList(hidden') /\ IsFindingList(last')
      /\ DOMAIN shown' = {} /\ DOMAIN hidden' = {}
  BY <1>1, EmptyList DEF WindowGone
<1>3. /\ helper' = [phase |-> helper'.phase, stamp |-> helper'.stamp, issues |-> helper'.issues]
      /\ helper'.phase \in {"off", "loaded"}
      /\ helper'.stamp \in Nat /\ IsFindingList(helper'.issues)
      /\ leftOut' \in SUBSET Ids /\ waiting' \in SUBSET Ids
  <2>1. CASE Quit
    BY <2>1 DEF Quit, IInv, TypeOK
  <2>2. CASE Restart
    BY <2>2, EmptyList DEF Restart, HelperOff, IInv, TypeOK
  <2> QED BY <2>1, <2>2
<1>4. TypeOK'
  BY <1>1, <1>2, <1>3 DEF WindowGone, IInv, TypeOK
<1>5. (Sorted /\ Runs /\ Scans)' /\ ~open'
  BY <1>1, <1>2 DEF WindowGone, Sorted, Runs, Scans
<1> QED BY <1>4, <1>5 DEF Keeps, IInv

LEMMA HelperStepKeeps ==
  ASSUME IInv, (\E found \in SUBSET Ids : HelperLoads(found)) \/ HelperSaves
  PROVE  Keeps
<1>1. UNCHANGED windowVars /\ UNCHANGED <<world, boot, archived, open, waiting>>
  BY DEF HelperLoads, HelperSaves
<1>2. (Sorted /\ Runs /\ Scans)' /\ WaitsOn
  BY <1>1 DEF IInv, windowVars, Sorted, Runs, Scans, WaitsOn, Waiting, RepairWaits
<1>3. ASSUME NEW found \in SUBSET Ids, HelperLoads(found) PROVE TypeOK'
  <2>1. IsFindingList(Reported(found)) /\ IsFindingList(file.issues)
    BY ReportedList DEF IInv, TypeOK
  <2>2. IsFindingList(Decided(Reported(found), file.issues))
    BY <2>1, DecidedList
  <2>3. clock + 1 \in Nat /\ clock' = clock + 1 /\ file' = file /\ leftOut' \in SUBSET Ids
    BY <1>3 DEF HelperLoads, IInv, TypeOK
  <2>4. PICK issues : IsFindingList(issues) /\ helper' = [phase |-> "loaded", stamp |-> clock + 1, issues |-> issues]
    BY <1>3, <2>1, <2>2 DEF HelperLoads
  <2> QED BY <1>1, <2>3, <2>4 DEF IInv, TypeOK, windowVars
<1>4. ASSUME HelperSaves PROVE TypeOK'
  <2>1. /\ file' = [stamp |-> helper.stamp, boot |-> boot, issues |-> helper.issues]
        /\ helper' = HelperOff /\ clock' = clock /\ leftOut' \in SUBSET Ids
    BY <1>4 DEF HelperSaves, IInv, TypeOK
  <2>2. IsFindingList(HelperOff.issues)
    BY EmptyList DEF HelperOff
  <2> QED BY <1>1, <2>1, <2>2 DEF IInv, TypeOK, windowVars, HelperOff
<1> QED BY <1>2, <1>3, <1>4 DEF Keeps, IInv

LEMMA StepKeeps == IInv /\ [Next]_vars => Keeps
<1> SUFFICES ASSUME IInv, [Next]_vars PROVE Keeps
  OBVIOUS
<1>1. CASE UNCHANGED vars
  BY <1>1 DEF vars, Keeps, IInv, TypeOK, Sorted, Runs, Scans, WaitsOn
<1>2. ASSUME NEW i \in Ids, ToggleIssue(i) PROVE Keeps
  <2>1. {i} \in SUBSET Ids /\ (~shown[i].is_selected) \in BOOLEAN /\ open
    BY <1>2 DEF ToggleIssue
  <2> QED BY <1>2, <2>1, TickStepKeeps DEF ToggleIssue
<1>3. ASSUME NEW S \in SUBSET Ids, ToggleAll(S) \/ SelectAll(S) \/ DeselectAll(S) PROVE Keeps
  <2>1. Repairable(S) \in SUBSET Ids /\ open
        /\ (\E i \in Repairable(S) : ~shown[i].is_selected) \in BOOLEAN
    BY <1>3 DEF Repairable, ToggleAll, SelectAll, DeselectAll
  <2> QED BY <1>3, <2>1, TickStepKeeps DEF ToggleAll, SelectAll, DeselectAll
<1> QED BY <1>1, <1>2, <1>3, OpenKeeps, StartScanKeeps, ModuleFinishedKeeps, ScanStepKeeps,
          RepairStepKeeps, ArchiveKeeps, ShowAgainKeeps, TakeInKeeps, GoneKeeps,
          HelperStepKeeps DEF Next

---------------------------------------------------------------------------
LEMMA Inductive == Spec => []IInv
<1>1. IInv /\ [Next]_vars => IInv'
  BY StepKeeps DEF Keeps
<1> QED BY <1>1, InitHolds, PTL DEF Spec

(* Every list of findings stays one, in memory, in the file and with the   *)
(* helper, and a run only works on findings that are shown.                *)
THEOREM TypeCorrect == Spec => []TypeOK
<1>1. IInv => TypeOK
  BY DEF IInv
<1> QED BY <1>1, Inductive, PTL

(* The archived findings are sorted out of what the window shows, in every *)
(* session, in the middle of scans and whatever is taken in.               *)
THEOREM ArchivedIsNotShown == Spec => []ArchiveIsSortedOut
<1>1. IInv => ArchiveIsSortedOut
  BY DEF IInv, Sorted, ArchiveIsSortedOut
<1> QED BY <1>1, Inductive, PTL

(* In a session, what waits for the restart waits until it, whatever the   *)
(* scans report, however they end and whatever the helper saves.           *)
THEOREM WaitsAreKept == Spec => WaitsUntilRestart
<1>1. IInv /\ [Next]_vars => [open /\ open' /\ boot' = boot => WaitsOn]_vars
  BY StepKeeps DEF Keeps
<1> QED BY <1>1, Inductive, PTL DEF Spec, WaitsUntilRestart, WaitsOn

---------------------------------------------------------------------------
(* What a decision is remembered by: a list says of its findings which     *)
(* need a restart, which wait for one and which are unticked.              *)
Marked(f) == \A i \in DOMAIN f : f[i].requires_reboot => i \in NeedsRestart
Off(f, S) == \A i \in S \cap DOMAIN f : ~f[i].is_selected

(* A list whose entries all come from one of two others.                   *)
Made(h, f, g) == \A i \in DOMAIN h : \/ i \in DOMAIN f /\ h[i] = f[i]
                                     \/ i \in DOMAIN g /\ h[i] = g[i]

LEMMA MadeKeeps ==
  ASSUME NEW f, NEW g, NEW h, Made(h, f, g)
  PROVE  /\ Marked(f) /\ Marked(g) => Marked(h)
         /\ Waiting(h) \subseteq Waiting(f) \cup Waiting(g)
         /\ \A S : Off(f, S) /\ Off(g, S) => Off(h, S)
<1>1. Marked(f) /\ Marked(g) => Marked(h)
  BY DEF Made, Marked
<1>2. Waiting(h) \subseteq Waiting(f) \cup Waiting(g)
  BY DEF Made, Waiting, RepairWaits
<1>3. \A S : Off(f, S) /\ Off(g, S) => Off(h, S)
  BY DEF Made, Off
<1> QED BY <1>1, <1>2, <1>3

LEMMA EmptySays ==
  /\ Marked(NoFindings) /\ Waiting(NoFindings) = {}
  /\ \A S : Off(NoFindings, S)
BY EmptyList DEF Marked, Waiting, Off

LEMMA FilteredSays ==
  ASSUME NEW f, IsFindingList(f), NEW S \in SUBSET DOMAIN f
  PROVE  Made(Restrict(f, S), f, f)
BY FilteredList DEF Made

LEMMA JoinedSays ==
  ASSUME NEW f, NEW g, IsFindingList(f), IsFindingList(g)
  PROVE  Made(Join(f, g), f, g)
<1>1. /\ DOMAIN Join(f, g) = DOMAIN f \cup DOMAIN g
      /\ \A i \in DOMAIN f : Join(f, g)[i] = f[i]
      /\ \A i \in DOMAIN g \ DOMAIN f : Join(f, g)[i] = g[i]
  BY JoinedList
<1> QED BY <1>1 DEF Made

LEMMA SortedSays ==
  ASSUME NEW f, IsFindingList(f)
  PROVE  Made(Shown(f), f, f) /\ Made(Hidden(f), f, f)
<1>1. DOMAIN f \ archived \in SUBSET DOMAIN f /\ DOMAIN f \cap archived \in SUBSET DOMAIN f
  OBVIOUS
<1> QED BY <1>1, FilteredSays DEF Shown, Hidden

LEMMA ReportedSays ==
  ASSUME NEW found \in SUBSET Ids
  PROVE  Marked(Reported(found)) /\ Waiting(Reported(found)) = {}
BY DEF Marked, Waiting, RepairWaits, Reported, Fresh

(* What is carried over says of a restart what the report says, waits if   *)
(* it is known to, and is ticked only if it is known to be.                *)
LEMMA CarriedSays ==
  ASSUME NEW fresh, NEW known, IsFindingList(fresh), IsFindingList(known)
  PROVE  LET c == CarryOver(fresh, known)
         IN  /\ Marked(fresh) => Marked(c)
             /\ Waiting(c) \subseteq Waiting(fresh) \cup Waiting(known)
             /\ \A i \in DOMAIN fresh \cap DOMAIN known :
                  ~known[i].is_selected \/ known[i].is_reboot_pending => ~c[i].is_selected
<1> DEFINE c == CarryOver(fresh, known)
<1>1. /\ DOMAIN c = DOMAIN fresh
      /\ \A i \in DOMAIN fresh :
           c[i].is_reboot_pending <=> \/ fresh[i].is_reboot_pending
                                      \/ i \in DOMAIN known /\ known[i].is_reboot_pending
  BY CarriedList
<1>2. \A i \in DOMAIN fresh : fresh[i] \in Finding
  BY DEF IsFindingList
<1>3. ASSUME NEW i \in DOMAIN fresh
      PROVE  /\ c[i].requires_reboot = fresh[i].requires_reboot
             /\ i \in DOMAIN known =>
                  (~known[i].is_selected \/ known[i].is_reboot_pending => ~c[i].is_selected)
  <2>1. fresh[i] \in Finding
    BY <1>2
  <2>2. CASE i \in DOMAIN known
    <3> DEFINE pending == fresh[i].is_reboot_pending \/ known[i].is_reboot_pending
               ticked == /\ ~known[i].is_reboot_pending
                         /\ known[i].is_selected /\ ~fresh[i].advice_only
               error == fresh[i].fix_error \/ known[i].fix_error
    <3>1. c[i] = [fresh[i] EXCEPT !.is_reboot_pending = pending, !.is_selected = ticked,
                                  !.fix_error = error]
      BY <2>2 DEF CarryOver
    <3>2. ~known[i].is_selected \/ known[i].is_reboot_pending => ~ticked
      OBVIOUS
    <3> HIDE DEF pending, ticked, error, c
    <3>3. c[i].requires_reboot = fresh[i].requires_reboot /\ c[i].is_selected = ticked
      BY <2>1, <3>1 DEF Finding
    <3> QED BY <3>2, <3>3
  <2>3. CASE i \notin DOMAIN known
    BY <2>3 DEF CarryOver
  <2> QED BY <2>2, <2>3
<1> HIDE DEF c
<1>4. Marked(fresh) => Marked(c)
  BY <1>1, <1>3 DEF Marked
<1>5. Waiting(c) \subseteq Waiting(fresh) \cup Waiting(known)
  BY <1>1 DEF Waiting, RepairWaits
<1> QED BY <1>3, <1>4, <1>5 DEF c

LEMMA DecidedSays ==
  ASSUME NEW fresh, NEW known, IsFindingList(fresh), IsFindingList(known)
  PROVE  LET d == Decided(fresh, known)
         IN  /\ Marked(fresh) /\ Marked(known) => Marked(d)
             /\ Waiting(d) \subseteq Waiting(fresh) \cup Waiting(known)
             /\ DOMAIN d \subseteq DOMAIN fresh \cup DOMAIN known
             /\ \A i \in DOMAIN d \cap DOMAIN known : ~known[i].is_selected => ~d[i].is_selected
<1> DEFINE c == CarryOver(fresh, known)
           kept == Restrict(known, Waiting(known))
           d == Decided(fresh, known)
<1>1. Waiting(known) \in SUBSET DOMAIN known
  BY DEF Waiting
<1>2. IsFindingList(c) /\ DOMAIN c = DOMAIN fresh
  BY CarriedList
<1>3. /\ IsFindingList(kept) /\ DOMAIN kept = Waiting(known) /\ Made(kept, known, known)
      /\ \A i \in Waiting(known) : kept[i] = known[i]
  BY <1>1, FilteredList, FilteredSays
<1>4. d = Join(c, kept)
  BY DEF Decided, KeepWaiting
<1>5. /\ Marked(fresh) => Marked(c)
      /\ Waiting(c) \subseteq Waiting(fresh) \cup Waiting(known)
      /\ \A i \in DOMAIN fresh \cap DOMAIN known :
           ~known[i].is_selected \/ known[i].is_reboot_pending => ~c[i].is_selected
  BY CarriedSays
<1> HIDE DEF c, kept, d
<1>6. /\ Made(d, c, kept) /\ DOMAIN d = DOMAIN c \cup DOMAIN kept
      /\ \A i \in DOMAIN c : d[i] = c[i]
      /\ \A i \in DOMAIN kept \ DOMAIN c : d[i] = kept[i]
  <2>1. /\ DOMAIN Join(c, kept) = DOMAIN c \cup DOMAIN kept
        /\ \A i \in DOMAIN c : Join(c, kept)[i] = c[i]
        /\ \A i \in DOMAIN kept \ DOMAIN c : Join(c, kept)[i] = kept[i]
    BY <1>2, <1>3, JoinedList
  <2>2. Made(Join(c, kept), c, kept)
    BY <1>2, <1>3, JoinedSays
  <2> QED BY <1>4, <2>1, <2>2
<1>7. Marked(known) => Marked(kept)
  BY <1>3, MadeKeeps
<1>8. Waiting(kept) \subseteq Waiting(known)
  BY <1>3, MadeKeeps
<1>9. Marked(fresh) /\ Marked(known) => Marked(d)
  BY <1>5, <1>6, <1>7, MadeKeeps
<1>10. Waiting(d) \subseteq Waiting(fresh) \cup Waiting(known)
  <2>1. Waiting(d) \subseteq Waiting(c) \cup Waiting(kept)
    BY <1>6, MadeKeeps
  <2> QED BY <1>5, <1>8, <2>1
<1>11. \A i \in DOMAIN d \cap DOMAIN known : ~known[i].is_selected => ~d[i].is_selected
  BY <1>1, <1>2, <1>3, <1>5, <1>6
<1>12. DOMAIN d \subseteq DOMAIN fresh \cup DOMAIN known
  BY <1>1, <1>2, <1>3, <1>6
<1> QED BY <1>9, <1>10, <1>11, <1>12 DEF d

LEMMA SettledSays ==
  ASSUME NEW f, IsFindingList(f)
  PROVE  /\ Marked(f) => Marked(Settled(f))
         /\ Waiting(Settled(f)) = {}
         /\ \A S : Off(f, S) => Off(Settled(f), S)
<1>1. ASSUME NEW i \in DOMAIN f
      PROVE  /\ Settled(f)[i].requires_reboot = f[i].requires_reboot
             /\ Settled(f)[i].is_selected = f[i].is_selected
             /\ ~Settled(f)[i].is_reboot_pending
  BY <1>1 DEF IsFindingList, Settled, Finding
<1>2. DOMAIN Settled(f) = DOMAIN f
  BY SettledList
<1>3. Marked(f) => Marked(Settled(f))
  BY <1>1, <1>2 DEF Marked
<1>4. Waiting(Settled(f)) = {}
  BY <1>1, <1>2 DEF Waiting, RepairWaits
<1>5. \A S : Off(f, S) => Off(Settled(f), S)
  BY <1>1, <1>2 DEF Off
<1> QED BY <1>3, <1>4, <1>5

LEMMA TickedSays ==
  ASSUME NEW f, IsFindingList(f), NEW S, NEW ticked \in BOOLEAN, Marked(f)
  PROVE  /\ Marked(Ticked(f, S, ticked))
         /\ \A R : Off(f, R) => Off(Ticked(f, S, ticked), IF ticked THEN R \ S ELSE R \cup S)
<1> DEFINE g == Ticked(f, S, ticked)
<1>0. g = [i \in DOMAIN f |-> IF i \in S THEN [f[i] EXCEPT !.is_selected = ticked] ELSE f[i]]
  BY DEF Ticked
<1> HIDE DEF g
<1>1. ASSUME NEW i \in DOMAIN f
      PROVE  /\ g[i].requires_reboot = f[i].requires_reboot
             /\ g[i].is_selected = IF i \in S THEN ticked ELSE f[i].is_selected
  <2>1. f[i] \in Finding
    BY DEF IsFindingList
  <2> QED BY <1>0, <2>1 DEF Finding
<1>2. Marked(g)
  BY <1>0, <1>1 DEF Marked
<1>3. ASSUME NEW R, Off(f, R)
      PROVE  Off(g, IF ticked THEN R \ S ELSE R \cup S)
  <2>1. DOMAIN g = DOMAIN f
    BY <1>0
  <2> QED BY <1>1, <1>3, <2>1 DEF Off
<1> QED BY <1>2, <1>3 DEF g

LEMMA RecordedSays ==
  ASSUME NEW f \in Finding, NEW result \in RepairResults
  PROVE  LET g == RecordRepair(f, result)
         IN  /\ g.requires_reboot = f.requires_reboot
             /\ ~f.is_selected => ~g.is_selected
             /\ g.is_reboot_pending => f.requires_reboot
BY DEF Finding, RepairResults, RecordRepair

---------------------------------------------------------------------------
(* What is listed as waiting, anywhere, was repaired since Windows last    *)
(* started - in the file too, if it is of this boot.                       *)
Past ==
  /\ file.boot <= boot
  /\ file.stamp = 0 => DOMAIN file.issues = {}
  /\ ~open => DOMAIN shown = {} /\ DOMAIN hidden = {}
  /\ open /\ file.boot # boot => stamp = file.stamp
  /\ Marked(shown) /\ Marked(hidden) /\ Marked(last) /\ Marked(file.issues)
  /\ Marked(helper.issues)
  /\ Waiting(shown) \cup Waiting(hidden) \cup Waiting(last) \subseteq waiting
  /\ file.boot = boot => Waiting(file.issues) \subseteq waiting
  /\ helper.phase = "loaded" => /\ Waiting(helper.issues) \subseteq waiting
                                /\ helper.stamp # 0

(* What a save writes.                                                     *)
LEMMA SavedSays ==
  ASSUME IInv', Save
  PROVE  \/ stamp' = 0 /\ UNCHANGED file
         \/ /\ stamp' # 0 /\ file'.stamp = stamp' /\ file'.boot = boot
            /\ DOMAIN file'.issues = DOMAIN shown' \cup DOMAIN hidden'
            /\ Made(file'.issues, shown', hidden')
            /\ Waiting(file'.issues) = Waiting(shown') \cup Waiting(hidden')
<1>1. /\ IsFindingList(shown') /\ IsFindingList(hidden') /\ DOMAIN shown' \cap DOMAIN hidden' = {}
  BY DEF IInv, TypeOK, Sorted
<1>2. CASE stamp' = 0
  BY <1>2 DEF Save
<1>3. CASE stamp' # 0
  <2>1. file' = [stamp |-> stamp', boot |-> boot, issues |-> Join(shown', hidden')]
    BY <1>3 DEF Save
  <2>2. /\ file'.issues = Join(shown', hidden') /\ file'.boot = boot /\ file'.stamp = stamp'
    BY <2>1
  <2>3. /\ Made(Join(shown', hidden'), shown', hidden')
        /\ DOMAIN Join(shown', hidden') = DOMAIN shown' \cup DOMAIN hidden'
        /\ Waiting(Join(shown', hidden')) = Waiting(shown') \cup Waiting(hidden')
    BY <1>1, JoinedSays, JoinedList, JoinedWaits
  <2> QED BY <1>3, <2>2, <2>3
<1> QED BY <1>2, <1>3

(* A step of the window that says nothing new, saved or not.               *)
LEMMA PastSaved ==
  ASSUME IInv, IInv', Past, open, open', UNCHANGED <<boot, helper>>, waiting \subseteq waiting',
         \/ UNCHANGED file /\ stamp' \in {stamp, file.stamp}
         \/ Save /\ (stamp' # 0 \/ UNCHANGED stamp),
         Marked(shown'), Marked(hidden'), Marked(last'),
         Waiting(shown') \cup Waiting(hidden') \cup Waiting(last') \subseteq waiting'
  PROVE  Past'
<1>1. boot \in Nat /\ file.boot \in Nat
  BY WorldsAssumption DEF IInv, TypeOK
<1>2. CASE UNCHANGED file /\ stamp' \in {stamp, file.stamp}
  BY <1>2 DEF Past, Marked, Waiting
<1>3. CASE Save /\ stamp' # 0
  <2>1. /\ file'.stamp # 0 /\ file'.boot = boot
        /\ Made(file'.issues, shown', hidden')
        /\ Waiting(file'.issues) = Waiting(shown') \cup Waiting(hidden')
    BY <1>3, SavedSays
  <2>2. Marked(file'.issues)
    BY <2>1, MadeKeeps
  <2>3. file'.boot <= boot'
    BY <1>1, <2>1
  <2>4. /\ Marked(helper'.issues)
        /\ helper'.phase = "loaded" => /\ Waiting(helper'.issues) \subseteq waiting'
                                       /\ helper'.stamp # 0
    BY DEF Past
  <2> QED BY <2>1, <2>2, <2>3, <2>4 DEF Past
<1>4. CASE Save /\ stamp' = 0 /\ UNCHANGED stamp
  <2>1. UNCHANGED file
    BY <1>4 DEF Save
  <2> QED BY <1>2, <1>4, <2>1
<1> QED BY <1>2, <1>3, <1>4

LEMMA PastOpen ==
  ASSUME IInv, IInv', Past, Open
  PROVE  Past'
<1> DEFINE all == IF file.stamp # 0 /\ file.boot # boot THEN Settled(file.issues)
                                                      ELSE file.issues
<1>1. IsFindingList(file.issues) /\ IsFindingList(all)
  BY SettledList DEF IInv, TypeOK
<1>2. Marked(all) /\ Waiting(all) \subseteq waiting
  <2>1. CASE file.stamp # 0 /\ file.boot # boot
    BY <1>1, <2>1, SettledSays DEF Past
  <2>2. CASE file.stamp = 0
    BY <2>2 DEF Past, Waiting
  <2>3. CASE file.boot = boot
    BY <2>3 DEF Past
  <2> QED BY <2>1, <2>2, <2>3
<1>3. shown' = Shown(all) /\ hidden' = Hidden(all) /\ open' = open'
      /\ UNCHANGED <<last, file, helper, boot, waiting>> /\ open' /\ stamp' = file.stamp
  BY DEF Open
<1> HIDE DEF all
<1>4. Made(shown', all, all) /\ Made(hidden', all, all)
  BY <1>1, <1>3, SortedSays
<1>5. /\ Marked(shown') /\ Marked(hidden')
      /\ Waiting(shown') \subseteq Waiting(all) /\ Waiting(hidden') \subseteq Waiting(all)
  BY <1>2, <1>4, MadeKeeps
<1> QED BY <1>2, <1>3, <1>5 DEF Past

LEMMA PastStartScan ==
  ASSUME IInv, IInv', Past, StartScan
  PROVE  Past'
<1>1. IsFindingList(shown) /\ IsFindingList(hidden) /\ open
  BY DEF IInv, TypeOK, StartScan, Idle
<1>2. Waiting(shown) \in SUBSET DOMAIN shown /\ Waiting(hidden) \in SUBSET DOMAIN hidden
  BY DEF Waiting
<1>3. Made(shown', shown, shown) /\ Made(hidden', hidden, hidden) /\ Made(last', shown, hidden)
  BY <1>1, <1>2, FilteredSays, JoinedSays DEF StartScan
<1>4. /\ Marked(shown) /\ Marked(hidden)
      /\ Waiting(shown) \subseteq waiting /\ Waiting(hidden) \subseteq waiting
  BY DEF Past
<1>5. /\ Marked(shown') /\ Marked(hidden') /\ Marked(last')
      /\ Waiting(shown') \subseteq waiting /\ Waiting(hidden') \subseteq waiting
      /\ Waiting(last') \subseteq waiting
  BY <1>3, <1>4, MadeKeeps
<1>6. open' /\ UNCHANGED <<boot, helper, waiting, file, stamp>>
  BY <1>1 DEF StartScan
<1> QED BY <1>1, <1>5, <1>6, PastSaved

(* What the two lists say when a check has reported.                       *)
LEMMA ReportSays ==
  ASSUME IInv, NEW m \in Modules, NEW found \in SUBSET Ids, ModuleFinished(m, found)
  PROVE  LET c == CarryOver(Reported(found), last)
         IN  /\ IsFindingList(c) /\ DOMAIN c = found
             /\ Made(shown', c, shown) /\ Made(hidden', c, hidden)
             /\ DOMAIN shown' = (found \ archived) \cup (DOMAIN shown \ found)
             /\ DOMAIN hidden' = (found \cap archived) \cup (DOMAIN hidden \ found)
             /\ \A i \in found : /\ i \in DOMAIN shown' => shown'[i] = c[i]
                                 /\ i \in DOMAIN hidden' => hidden'[i] = c[i]
             /\ \A i \in DOMAIN shown \ found : shown'[i] = shown[i]
             /\ \A i \in DOMAIN hidden \ found : hidden'[i] = hidden[i]
<1> DEFINE c == CarryOver(Reported(found), last)
           rest == Restrict(shown, DOMAIN shown \ found)
           new == Shown(c)
           newHidden == Hidden(c)
           restHidden == Restrict(hidden, DOMAIN hidden \ found)
<1>1. IsFindingList(shown) /\ IsFindingList(hidden) /\ IsFindingList(last)
  BY DEF IInv, TypeOK
<1>2. IsFindingList(c) /\ DOMAIN c = found
  BY <1>1, ReportedList, CarriedList
<1>3. /\ IsFindingList(rest) /\ DOMAIN rest = DOMAIN shown \ found
      /\ \A i \in DOMAIN shown \ found : rest[i] = shown[i]
  <2>1. DOMAIN shown \ found \in SUBSET DOMAIN shown
    OBVIOUS
  <2> QED BY <1>1, <2>1, FilteredList
<1>4. /\ IsFindingList(restHidden) /\ DOMAIN restHidden = DOMAIN hidden \ found
      /\ \A i \in DOMAIN hidden \ found : restHidden[i] = hidden[i]
  <2>1. DOMAIN hidden \ found \in SUBSET DOMAIN hidden
    OBVIOUS
  <2> QED BY <1>1, <2>1, FilteredList
<1>5. shown' = Join(new, rest) /\ hidden' = Join(newHidden, restHidden)
  BY DEF ModuleFinished
<1> HIDE DEF rest, restHidden, c, new, newHidden
<1>6. /\ IsFindingList(new) /\ IsFindingList(newHidden)
      /\ DOMAIN new = found \ archived /\ DOMAIN newHidden = found \cap archived
      /\ Made(new, c, c) /\ Made(newHidden, c, c)
  BY <1>2, SortedList, SortedSays DEF new, newHidden
<1>7. /\ \A i \in found \ archived : new[i] = c[i]
      /\ \A i \in found \cap archived : newHidden[i] = c[i]
  BY <1>6 DEF Made
<1>8. /\ DOMAIN shown' = (found \ archived) \cup (DOMAIN shown \ found)
      /\ \A i \in found \ archived : shown'[i] = c[i]
      /\ \A i \in DOMAIN shown \ found : shown'[i] = shown[i]
  <2>0. IsFindingList(new) /\ IsFindingList(rest)
    BY <1>3, <1>6
  <2>1. /\ DOMAIN Join(new, rest) = DOMAIN new \cup DOMAIN rest
        /\ \A i \in DOMAIN new : Join(new, rest)[i] = new[i]
        /\ \A i \in DOMAIN rest \ DOMAIN new : Join(new, rest)[i] = rest[i]
    BY ONLY <2>0, JoinedList
  <2>2. shown' = Join(new, rest)
    BY <1>5
  <2>3. DOMAIN shown' = DOMAIN new \cup DOMAIN rest
    BY ONLY <2>1, <2>2, Zenon
  <2>4. \A i \in DOMAIN new : shown'[i] = new[i]
    BY ONLY <2>1, <2>2, Zenon
  <2>5. \A i \in DOMAIN rest \ DOMAIN new : shown'[i] = rest[i]
    BY ONLY <2>1, <2>2, Zenon
  <2> QED BY ONLY <1>3, <1>6, <1>7, <2>3, <2>4, <2>5
<1>9. /\ DOMAIN hidden' = (found \cap archived) \cup (DOMAIN hidden \ found)
      /\ \A i \in found \cap archived : hidden'[i] = c[i]
      /\ \A i \in DOMAIN hidden \ found : hidden'[i] = hidden[i]
  <2>0. IsFindingList(newHidden) /\ IsFindingList(restHidden)
    BY <1>4, <1>6
  <2>1. /\ DOMAIN Join(newHidden, restHidden) = DOMAIN newHidden \cup DOMAIN restHidden
        /\ \A i \in DOMAIN newHidden : Join(newHidden, restHidden)[i] = newHidden[i]
        /\ \A i \in DOMAIN restHidden \ DOMAIN newHidden : Join(newHidden, restHidden)[i] = restHidden[i]
    BY ONLY <2>0, JoinedList
  <2>2. hidden' = Join(newHidden, restHidden)
    BY <1>5
  <2>3. DOMAIN hidden' = DOMAIN newHidden \cup DOMAIN restHidden
    BY ONLY <2>1, <2>2, Zenon
  <2>4. \A i \in DOMAIN newHidden : hidden'[i] = newHidden[i]
    BY ONLY <2>1, <2>2, Zenon
  <2>5. \A i \in DOMAIN restHidden \ DOMAIN newHidden : hidden'[i] = restHidden[i]
    BY ONLY <2>1, <2>2, Zenon
  <2> QED BY ONLY <1>4, <1>6, <1>7, <2>3, <2>4, <2>5
<1>10. Made(shown', c, shown) /\ Made(hidden', c, hidden)
  BY <1>2, <1>8, <1>9 DEF Made
<1> QED BY <1>2, <1>8, <1>9, <1>10 DEF c

LEMMA PastModuleFinished ==
  ASSUME IInv, IInv', Past, NEW m \in Modules, NEW found \in SUBSET Ids, ModuleFinished(m, found)
  PROVE  Past'
<1> DEFINE c == CarryOver(Reported(found), last)
<1>1. Marked(Reported(found)) /\ Waiting(Reported(found)) = {} /\ IsFindingList(Reported(found))
  BY ReportedSays, ReportedList
<1>2. IsFindingList(last)
  BY DEF IInv, TypeOK
<1>3. Marked(c) /\ Waiting(c) \subseteq waiting
  <2>1. Marked(c) /\ Waiting(c) \subseteq Waiting(Reported(found)) \cup Waiting(last)
    BY <1>1, <1>2, CarriedSays
  <2> QED BY <1>1, <2>1 DEF Past
<1>4. Made(shown', c, shown) /\ Made(hidden', c, hidden)
  BY ReportSays
<1> HIDE DEF c
<1>5. /\ Marked(shown) /\ Marked(hidden) /\ Marked(last)
      /\ Waiting(shown) \subseteq waiting /\ Waiting(hidden) \subseteq waiting
      /\ Waiting(last) \subseteq waiting
  BY DEF Past
<1>6. /\ Marked(shown') /\ Marked(hidden')
      /\ Waiting(shown') \subseteq Waiting(c) \cup Waiting(shown)
      /\ Waiting(hidden') \subseteq Waiting(c) \cup Waiting(hidden)
  BY <1>3, <1>4, <1>5, MadeKeeps
<1>7. open /\ open' /\ UNCHANGED <<boot, helper, waiting, file, last, stamp>>
  BY DEF ModuleFinished, IInv, Runs
<1> QED BY <1>3, <1>5, <1>6, <1>7, PastSaved

LEMMA PastFixFinished ==
  ASSUME IInv, IInv', Past, NEW i \in Ids, NEW result \in RepairResults, FixFinished(i, result)
  PROVE  /\ Past'
         /\ \/ waiting' = waiting
            \/ waiting' = waiting \cup {i} /\ i \in Waiting(shown')
<1>1. /\ i \in fixing /\ run = "repair" /\ open /\ open'
      /\ i \in DOMAIN shown /\ shown[i] \in Finding
      /\ shown' = [shown EXCEPT ![i] = RecordRepair(shown[i], result)]
      /\ UNCHANGED <<boot, helper, file, last, hidden, stamp>>
  BY DEF FixFinished, IInv, Runs, TypeOK, IsFindingList
<1>2. /\ DOMAIN shown' = DOMAIN shown /\ shown'[i] = RecordRepair(shown[i], result)
      /\ \A j \in DOMAIN shown \ {i} : shown'[j] = shown[j]
  BY <1>1
<1>3. /\ shown'[i].requires_reboot = shown[i].requires_reboot
      /\ shown'[i].is_reboot_pending => shown[i].requires_reboot
  BY <1>1, <1>2, RecordedSays
<1>4. waiting' = waiting \cup (IF shown'[i].is_reboot_pending THEN {i} ELSE {})
  BY <1>2 DEF FixFinished
<1>5. Marked(shown) /\ Marked(hidden) /\ Marked(last)
  BY DEF Past
<1>6. Marked(shown')
  BY <1>1, <1>2, <1>3, <1>5 DEF Marked
<1>7. shown'[i].is_reboot_pending => i \in Waiting(shown')
  <2>1. shown'[i].is_reboot_pending => i \in NeedsRestart
    BY <1>1, <1>3, <1>5 DEF Marked
  <2>2. NeedsRestart \cap Notices = {}
    BY FindingsAssumption DEF Advice
  <2> QED BY <1>1, <1>2, <2>1, <2>2, WaitingIsListed
<1>8. Waiting(shown') \subseteq waiting'
  <2>1. Waiting(shown') \subseteq Waiting(shown)
                                   \cup (IF shown'[i].is_reboot_pending THEN {i} ELSE {})
    BY <1>2 DEF Waiting, RepairWaits
  <2> QED BY <1>4, <2>1 DEF Past
<1>9. Waiting(hidden') \cup Waiting(last') \subseteq waiting'
  BY <1>1, <1>4 DEF Past
<1>10. Past'
  BY <1>1, <1>4, <1>5, <1>6, <1>8, <1>9, PastSaved
<1>11. shown'[i].is_reboot_pending => waiting' = waiting \cup {i}
  BY <1>4
<1>12. ~shown'[i].is_reboot_pending => waiting' = waiting
  BY <1>4
<1> QED BY <1>7, <1>10, <1>11, <1>12, Zenon

LEMMA PastTicks ==
  ASSUME IInv, IInv', Past, open, NEW S \in SUBSET Ids, NEW ticked \in BOOLEAN, SetTicks(S, ticked)
  PROVE  Past'
<1>1. shown' = Ticked(shown, S, ticked) /\ IsFindingList(shown)
  BY DEF SetTicks, Ticked, IInv, TypeOK
<1>2. Marked(shown) /\ Marked(hidden) /\ Marked(last)
  BY DEF Past
<1>3. Marked(shown') /\ Waiting(shown') = Waiting(shown)
  BY <1>1, <1>2, TickedSays, TickedList
<1>4. UNCHANGED <<open, boot, helper, waiting, hidden, last, stamp>> /\ Save
  BY DEF SetTicks
<1>5. Waiting(shown') \cup Waiting(hidden') \cup Waiting(last') \subseteq waiting'
  BY <1>3, <1>4 DEF Past
<1> QED BY <1>2, <1>3, <1>4, <1>5, PastSaved

LEMMA PastArchive ==
  ASSUME IInv, IInv', Past, NEW i \in Ids, Archive(i) \/ ShowAgain(i)
  PROVE  Past'
<1>1. /\ IsFindingList(shown) /\ IsFindingList(hidden) /\ open /\ open'
      /\ UNCHANGED <<boot, helper, waiting, last, stamp>> /\ Save
  BY DEF Archive, ShowAgain, Idle, IInv, TypeOK
<1>2. /\ Marked(shown) /\ Marked(hidden) /\ Marked(last)
      /\ Waiting(shown) \subseteq waiting /\ Waiting(hidden) \subseteq waiting
      /\ Waiting(last) \subseteq waiting
  BY DEF Past
<1>3. CASE Archive(i)
  <2> DEFINE back == Restrict(shown, DOMAIN shown \cap archived')
  <2>1. /\ shown' = Restrict(shown, DOMAIN shown \ archived') /\ hidden' = Join(hidden, back)
    BY <1>3 DEF Archive
  <2>2. /\ DOMAIN shown \ archived' \in SUBSET DOMAIN shown
        /\ DOMAIN shown \cap archived' \in SUBSET DOMAIN shown
    OBVIOUS
  <2>3. Made(shown', shown, shown) /\ Made(back, shown, shown) /\ IsFindingList(back)
    BY <1>1, <2>1, <2>2, FilteredSays, FilteredList
  <2> HIDE DEF back
  <2>4. Made(hidden', hidden, back)
    BY <1>1, <2>1, <2>3, JoinedSays
  <2>5. Marked(back) /\ Waiting(back) \subseteq Waiting(shown)
    BY <1>2, <2>3, MadeKeeps
  <2>6. /\ Marked(shown') /\ Marked(hidden')
        /\ Waiting(shown') \subseteq Waiting(shown)
        /\ Waiting(hidden') \subseteq Waiting(hidden) \cup Waiting(back)
    BY <1>2, <2>3, <2>4, <2>5, MadeKeeps
  <2> QED BY <1>1, <1>2, <2>5, <2>6, PastSaved
<1>4. CASE ShowAgain(i)
  <2> DEFINE back == Restrict(hidden, DOMAIN hidden \cap {i})
  <2>1. /\ hidden' = Restrict(hidden, DOMAIN hidden \ {i}) /\ shown' = Join(shown, back)
    BY <1>4 DEF ShowAgain
  <2>2. /\ DOMAIN hidden \ {i} \in SUBSET DOMAIN hidden
        /\ DOMAIN hidden \cap {i} \in SUBSET DOMAIN hidden
    OBVIOUS
  <2>3. Made(hidden', hidden, hidden) /\ Made(back, hidden, hidden) /\ IsFindingList(back)
    BY <1>1, <2>1, <2>2, FilteredSays, FilteredList
  <2> HIDE DEF back
  <2>4. Made(shown', shown, back)
    BY <1>1, <2>1, <2>3, JoinedSays
  <2>5. Marked(back) /\ Waiting(back) \subseteq Waiting(hidden)
    BY <1>2, <2>3, MadeKeeps
  <2>6. /\ Marked(shown') /\ Marked(hidden')
        /\ Waiting(hidden') \subseteq Waiting(hidden)
        /\ Waiting(shown') \subseteq Waiting(shown) \cup Waiting(back)
    BY <1>2, <2>3, <2>4, <2>5, MadeKeeps
  <2> QED BY <1>1, <1>2, <2>5, <2>6, PastSaved
<1> QED BY <1>3, <1>4

(* What is taken in was saved since the window opened: by a helper of this *)
(* boot.                                                                   *)
LEMMA PastTakeIn ==
  ASSUME IInv, IInv', Past, TakeInBackgroundScan
  PROVE  Past'
<1> DEFINE known == Join(shown, hidden)
           all == Decided(file.issues, known)
<1>1. /\ IsFindingList(shown) /\ IsFindingList(hidden) /\ IsFindingList(file.issues)
      /\ open /\ open' /\ UNCHANGED <<boot, helper, waiting, last, file>>
      /\ shown' = Shown(all) /\ hidden' = Hidden(all) /\ stamp' = file.stamp
  BY DEF TakeInBackgroundScan, Idle, IInv, TypeOK
<1>2. /\ Marked(shown) /\ Marked(hidden) /\ Marked(last) /\ Marked(file.issues)
      /\ Waiting(shown) \subseteq waiting /\ Waiting(hidden) \subseteq waiting
      /\ Waiting(last) \subseteq waiting /\ Waiting(file.issues) \subseteq waiting
  BY DEF Past, TakeInBackgroundScan, Idle
<1>3. IsFindingList(known) /\ Made(known, shown, hidden)
  BY <1>1, JoinedList, JoinedSays
<1> HIDE DEF known
<1>4. Marked(known) /\ Waiting(known) \subseteq waiting
  <2>1. Marked(known) /\ Waiting(known) \subseteq Waiting(shown) \cup Waiting(hidden)
    BY <1>2, <1>3, MadeKeeps
  <2> QED BY <1>2, <2>1
<1>5. IsFindingList(all) /\ Marked(all) /\ Waiting(all) \subseteq waiting
  <2>1. Marked(all) /\ Waiting(all) \subseteq Waiting(file.issues) \cup Waiting(known)
    BY <1>1, <1>2, <1>3, <1>4, DecidedSays
  <2> QED BY <1>1, <1>2, <1>3, <1>4, <2>1, DecidedList
<1> HIDE DEF all
<1>6. Made(shown', all, all) /\ Made(hidden', all, all)
  BY <1>1, <1>5, SortedSays
<1>7. /\ Marked(shown') /\ Marked(hidden')
      /\ Waiting(shown') \subseteq Waiting(all) /\ Waiting(hidden') \subseteq Waiting(all)
  BY <1>5, <1>6, MadeKeeps
<1>8. UNCHANGED file /\ stamp' \in {stamp, file.stamp}
  BY <1>1
<1>9. /\ Marked(last') /\ waiting \subseteq waiting'
      /\ Waiting(shown') \cup Waiting(hidden') \cup Waiting(last') \subseteq waiting'
  BY <1>1, <1>2, <1>5, <1>7
<1> QED BY <1>1, <1>7, <1>8, <1>9, PastSaved

LEMMA PastHelper ==
  ASSUME IInv, IInv', Past, (\E found \in SUBSET Ids : HelperLoads(found)) \/ HelperSaves
  PROVE  Past'
<1>0. boot \in Nat /\ UNCHANGED windowVars /\ UNCHANGED <<boot, open, waiting>>
  BY WorldsAssumption DEF IInv, TypeOK, HelperLoads, HelperSaves
<1>1. UNCHANGED <<shown, hidden, last, stamp>>
  BY <1>0 DEF windowVars
<1>2. ASSUME NEW found \in SUBSET Ids, HelperLoads(found)
      PROVE  Past'
  <2>1. /\ Marked(Reported(found)) /\ Waiting(Reported(found)) = {}
        /\ IsFindingList(Reported(found)) /\ IsFindingList(file.issues)
        /\ clock \in Nat
    BY ReportedSays, ReportedList DEF IInv, TypeOK
  <2>2. UNCHANGED file /\ helper'.stamp # 0
    BY <1>2, <2>1 DEF HelperLoads
  <2>3. Marked(helper'.issues) /\ Waiting(helper'.issues) \subseteq waiting
    <3>1. CASE file.stamp # 0 /\ file.boot = boot
      <4>1. helper'.issues = Decided(Reported(found), file.issues)
        BY <1>2, <3>1 DEF HelperLoads
      <4>2. /\ Marked(Decided(Reported(found), file.issues))
            /\ Waiting(Decided(Reported(found), file.issues))
                 \subseteq Waiting(Reported(found)) \cup Waiting(file.issues)
        BY <2>1, DecidedSays DEF Past
      <4> QED BY <2>1, <3>1, <4>1, <4>2 DEF Past
    <3>2. CASE ~(file.stamp # 0 /\ file.boot = boot)
      <4>1. helper'.issues = Reported(found)
        BY <1>2, <3>2 DEF HelperLoads
      <4> QED BY <2>1, <4>1
    <3> QED BY <3>1, <3>2
  <2> QED BY <1>0, <1>1, <2>2, <2>3 DEF Past
<1>3. CASE HelperSaves
  <2>1. /\ helper.phase = "loaded" /\ file'.issues = helper.issues /\ file'.boot = boot
        /\ file'.stamp = helper.stamp /\ helper'.issues = NoFindings /\ helper'.phase = "off"
    BY <1>3 DEF HelperSaves, HelperOff
  <2>2. file'.stamp = 0 => DOMAIN file'.issues = {}
    BY <2>1 DEF Past
  <2>3. Marked(helper'.issues)
    BY <2>1, EmptySays
  <2> QED BY <1>0, <1>1, <2>1, <2>2, <2>3 DEF Past
<1> QED BY <1>2, <1>3

LEMMA PastGone ==
  ASSUME IInv, IInv', Past, Quit \/ Restart
  PROVE  Past'
<1>1. /\ shown' = NoFindings /\ hidden' = NoFindings /\ last' = NoFindings /\ ~open'
      /\ UNCHANGED file
  BY DEF Quit, Restart, WindowGone
<1>2. boot \in Nat /\ file.boot \in Nat
  BY WorldsAssumption DEF IInv, TypeOK
<1>3. CASE Quit
  <2>1. UNCHANGED <<boot, helper, waiting>>
    BY <1>3 DEF Quit
  <2> QED BY <1>1, <1>2, <2>1, EmptyList, EmptySays DEF Past
<1>4. CASE Restart
  <2>1. boot' = boot + 1 /\ helper'.issues = NoFindings /\ helper'.phase = "off"
    BY <1>4 DEF Restart, HelperOff
  <2>2. file'.boot # boot' /\ file'.boot <= boot'
    BY <1>1, <1>2, <2>1 DEF Past
  <2> QED BY <1>1, <2>1, <2>2, EmptyList, EmptySays DEF Past
<1> QED BY <1>3, <1>4

LEMMA PastStep ==
  ASSUME IInv, Past, [Next]_vars
  PROVE  Past'
<1>0. IInv'
  BY StepKeeps DEF Keeps
<1>1. CASE UNCHANGED vars
  BY <1>1 DEF vars, Past, Marked
<1>2. ASSUME NEW i \in Ids, ToggleIssue(i) PROVE Past'
  <2>1. {i} \in SUBSET Ids /\ (~shown[i].is_selected) \in BOOLEAN /\ open
    BY <1>2 DEF ToggleIssue
  <2> QED BY <1>0, <1>2, <2>1, PastTicks DEF ToggleIssue
<1>3. ASSUME NEW S \in SUBSET Ids, ToggleAll(S) \/ SelectAll(S) \/ DeselectAll(S) PROVE Past'
  <2>1. Repairable(S) \in SUBSET Ids /\ open
        /\ (\E i \in Repairable(S) : ~shown[i].is_selected) \in BOOLEAN
    BY <1>3 DEF Repairable, ToggleAll, SelectAll, DeselectAll
  <2> QED BY <1>0, <1>3, <2>1, PastTicks DEF ToggleAll, SelectAll, DeselectAll
<1>4. ASSUME NEW m \in Modules, ModuleFailed(m) PROVE Past'
  BY <1>4 DEF ModuleFailed, Past, Marked
<1>5. CASE ScanEnded
  <2>1. /\ UNCHANGED <<shown, hidden, boot, open, helper, waiting>> /\ last' = NoFindings
        /\ Save /\ stamp' # 0 /\ open
    BY <1>5 DEF ScanEnded, IInv, TypeOK, Runs
  <2>2. /\ Marked(shown') /\ Marked(hidden') /\ Marked(last')
        /\ Waiting(shown') \cup Waiting(hidden') \cup Waiting(last') \subseteq waiting'
    BY <2>1, EmptySays DEF Past
  <2> QED BY <1>0, <2>1, <2>2, PastSaved
<1>6. CASE StartRepairs
  BY <1>6 DEF StartRepairs, Past, Marked
<1>7. CASE RepairsEnded
  <2>1. /\ UNCHANGED <<shown, hidden, boot, open, helper, waiting, stamp, last>> /\ Save /\ open
    BY <1>7 DEF RepairsEnded, IInv, Runs
  <2>2. /\ Marked(shown') /\ Marked(hidden') /\ Marked(last')
        /\ Waiting(shown') \cup Waiting(hidden') \cup Waiting(last') \subseteq waiting'
    BY <2>1 DEF Past
  <2> QED BY <1>0, <2>1, <2>2, PastSaved
<1> QED BY <1>0, <1>1, <1>2, <1>3, <1>4, <1>5, <1>6, <1>7, PastOpen, PastStartScan,
          PastModuleFinished, PastFixFinished, PastArchive, PastTakeIn, PastGone, PastHelper
          DEF Next

LEMMA AlwaysPast == Spec => [](IInv /\ Past)
<1>1. Init => Past
  <2> SUFFICES ASSUME Init PROVE Past
    OBVIOUS
  <2>1. /\ shown = NoFindings /\ hidden = NoFindings /\ last = NoFindings
        /\ file.issues = NoFindings /\ helper.issues = NoFindings
        /\ file.boot = 0 /\ boot = 0 /\ file.stamp = 0 /\ helper.phase = "off" /\ ~open
    BY DEF Init, HelperOff
  <2> QED BY <2>1, EmptyList, EmptySays DEF Past
<1>2. IInv /\ Past /\ [Next]_vars => (IInv /\ Past)'
  BY StepKeeps, PastStep DEF Keeps
<1> QED BY <1>1, <1>2, InitHolds, PTL DEF Spec

(* No finding is shown as waiting for a restart that has happened, though  *)
(* the file it is loaded from may be of an earlier boot: what the window   *)
(* loads it settles, and a helper carries over nothing of an earlier boot. *)
THEOREM NoPastRestartIsAwaited == Spec => []NothingWaitsForAPastRestart
<1>1. Past => NothingWaitsForAPastRestart
  BY DEF Past, NothingWaitsForAPastRestart
<1> QED BY <1>1, AlwaysPast, PTL

---------------------------------------------------------------------------
(* A window without a scan of its own, or the file's, lists nothing.       *)
Stamped == open /\ run # "scan" /\ stamp = 0 => DOMAIN shown = {} /\ DOMAIN hidden = {}

(* The sessions in which the user quits between runs only, and the helper  *)
(* does not save over a window that is then quit.                          *)
Calm == /\ "busy" \notin world.quits
        /\ world.helper = "any" => world.quits = {} /\ world.restarts = 0

(* In those what waits is listed as waiting wherever the next run may get  *)
(* its list from: in the window, and without one in the file or with the   *)
(* helper that is about to save over it.                                   *)
Kept ==
  Calm => /\ open => waiting \subseteq Waiting(shown) \cup Waiting(hidden)
          /\ helper.phase = "loaded" => world.helper # "never"
          /\ world.helper = "any" /\ ~open => waiting = {}
          /\ world.helper # "any" /\ helper.phase = "loaded" =>
               ~open /\ waiting \subseteq Waiting(helper.issues)
          /\ world.helper # "any" /\ run = "idle" =>
               /\ waiting \subseteq Waiting(file.issues)
               /\ waiting # {} => file.boot = boot

LEMMA WaitingOfNothing == ASSUME NEW f, DOMAIN f = {} PROVE Waiting(f) = {}
BY DEF Waiting

LEMMA ListedAlike ==
  ASSUME IInv, NEW i, Archive(i) \/ ShowAgain(i)
  PROVE  DOMAIN shown' \cup DOMAIN hidden' = DOMAIN shown \cup DOMAIN hidden
<1>1. IsFindingList(shown) /\ IsFindingList(hidden)
  BY DEF IInv, TypeOK
<1>2. CASE Archive(i)
  <2> DEFINE back == Restrict(shown, DOMAIN shown \cap archived')
  <2>1. shown' = Restrict(shown, DOMAIN shown \ archived') /\ hidden' = Join(hidden, back)
    BY <1>2 DEF Archive
  <2>2. /\ DOMAIN shown \ archived' \in SUBSET DOMAIN shown
        /\ DOMAIN shown \cap archived' \in SUBSET DOMAIN shown
    OBVIOUS
  <2>3. /\ DOMAIN shown' = DOMAIN shown \ archived'
        /\ IsFindingList(back) /\ DOMAIN back = DOMAIN shown \cap archived'
    BY <1>1, <2>1, <2>2, FilteredList
  <2> HIDE DEF back
  <2>4. DOMAIN Join(hidden, back) = DOMAIN hidden \cup DOMAIN back
    BY <1>1, <2>3, JoinedList
  <2> QED BY <2>1, <2>3, <2>4
<1>3. CASE ShowAgain(i)
  <2> DEFINE back == Restrict(hidden, DOMAIN hidden \cap {i})
  <2>1. hidden' = Restrict(hidden, DOMAIN hidden \ {i}) /\ shown' = Join(shown, back)
    BY <1>3 DEF ShowAgain
  <2>2. /\ DOMAIN hidden \ {i} \in SUBSET DOMAIN hidden
        /\ DOMAIN hidden \cap {i} \in SUBSET DOMAIN hidden
    OBVIOUS
  <2>3. /\ DOMAIN hidden' = DOMAIN hidden \ {i}
        /\ IsFindingList(back) /\ DOMAIN back = DOMAIN hidden \cap {i}
    BY <1>1, <2>1, <2>2, FilteredList
  <2> HIDE DEF back
  <2>4. DOMAIN Join(shown, back) = DOMAIN shown \cup DOMAIN back
    BY <1>1, <2>3, JoinedList
  <2> QED BY <2>1, <2>3, <2>4
<1> QED BY <1>1, <1>2, <1>3

(* The ticks change no list but what is ticked on the one that is shown.   *)
LEMMA TicksAre ==
  ASSUME IInv, open, (\E i \in Ids : ToggleIssue(i))
                     \/ (\E filtered \in SUBSET Ids :
                           ToggleAll(filtered) \/ SelectAll(filtered) \/ DeselectAll(filtered))
  PROVE  \E S \in SUBSET DOMAIN shown, ticked \in BOOLEAN : SetTicks(S, ticked)
<1>0. DOMAIN shown \subseteq Ids
  BY DEF IInv, TypeOK, IsFindingList
<1>1. ASSUME NEW i \in Ids, ToggleIssue(i)
      PROVE  \E S \in SUBSET DOMAIN shown, ticked \in BOOLEAN : SetTicks(S, ticked)
  <2>1. {i} \in SUBSET DOMAIN shown /\ (~shown[i].is_selected) \in BOOLEAN
        /\ SetTicks({i}, ~shown[i].is_selected)
    BY <1>1 DEF ToggleIssue
  <2> QED BY <2>1
<1>2. ASSUME NEW T \in SUBSET Ids, ToggleAll(T) \/ SelectAll(T) \/ DeselectAll(T)
      PROVE  \E S \in SUBSET DOMAIN shown, ticked \in BOOLEAN : SetTicks(S, ticked)
  <2> DEFINE some == \E i \in Repairable(T) : ~shown[i].is_selected
  <2>1. Repairable(T) \in SUBSET DOMAIN shown /\ T \in SUBSET DOMAIN shown /\ some \in BOOLEAN
    BY <1>2 DEF Repairable, ToggleAll, SelectAll, DeselectAll
  <2>2. \/ SetTicks(Repairable(T), some) \/ SetTicks(Repairable(T), TRUE)
        \/ SetTicks(T, FALSE)
    BY <1>2 DEF ToggleAll, SelectAll, DeselectAll
  <2> HIDE DEF some
  <2> QED BY <2>1, <2>2
<1> QED BY <1>1, <1>2

LEMMA StampedStep ==
  ASSUME IInv, IInv', Past, Stamped, Next
  PROVE  Stamped'
<1>1. /\ IsFindingList(shown) /\ IsFindingList(hidden) /\ IsFindingList(file.issues)
      /\ clock \in Nat
  BY DEF IInv, TypeOK
<1>2. CASE Open
  <2>1. CASE stamp' = 0
    <3>1. /\ shown' = Shown(file.issues) /\ hidden' = Hidden(file.issues)
          /\ DOMAIN file.issues = {}
      BY <1>2, <2>1 DEF Open, Past
    <3> QED BY <1>1, <3>1, SortedList DEF Stamped
  <2> QED BY <2>1 DEF Stamped
<1>3. ASSUME \/ StartScan \/ ScanEnded \/ Quit \/ Restart
             \/ \E m \in Modules : \/ \E found \in SUBSET Ids : ModuleFinished(m, found)
                                   \/ ModuleFailed(m)
      PROVE  Stamped'
  <2>1. CASE Quit \/ Restart
    BY <2>1 DEF Quit, Restart, WindowGone, Stamped
  <2>2. CASE StartScan
    BY <2>2 DEF StartScan, Stamped
  <2>4. CASE ScanEnded
    <3>1. stamp' = clock + 1
      BY <2>4 DEF ScanEnded
    <3>2. stamp' # 0
      BY ONLY <3>1, <1>1
    <3> QED BY <3>2 DEF Stamped
  <2>3. ASSUME NEW m \in Modules, (\E found \in SUBSET Ids : ModuleFinished(m, found))
                                  \/ ModuleFailed(m)
        PROVE  run' = "scan"
    BY <2>3 DEF ModuleFinished, ModuleFailed
  <2> QED BY <1>3, <2>1, <2>2, <2>3, <2>4 DEF Stamped
<1>4. ASSUME StartRepairs \/ RepairsEnded PROVE Stamped'
  BY <1>4 DEF StartRepairs, RepairsEnded, Idle, Stamped
<1>5. ASSUME NEW i \in Ids, NEW result \in RepairResults, FixFinished(i, result)
      PROVE  Stamped'
  BY <1>5 DEF FixFinished, Stamped
<1>6. ASSUME open, NEW S \in SUBSET DOMAIN shown, NEW ticked \in BOOLEAN, SetTicks(S, ticked)
      PROVE  Stamped'
  BY <1>6 DEF SetTicks, Stamped
<1>7. ASSUME NEW i \in Ids, Archive(i) \/ ShowAgain(i) PROVE Stamped'
  <2>1. DOMAIN shown' \cup DOMAIN hidden' = DOMAIN shown \cup DOMAIN hidden
    BY <1>7, ListedAlike
  <2>2. UNCHANGED <<open, run, stamp>>
    BY <1>7 DEF Archive, ShowAgain
  <2> QED BY <2>1, <2>2 DEF Stamped
<1>8. CASE TakeInBackgroundScan
  BY <1>8 DEF TakeInBackgroundScan, Stamped
<1>9. ASSUME (\E found \in SUBSET Ids : HelperLoads(found)) \/ HelperSaves PROVE Stamped'
  BY <1>9 DEF HelperLoads, HelperSaves, windowVars, Stamped
<1>10. ASSUME \/ \E i \in Ids : ToggleIssue(i)
              \/ \E filtered \in SUBSET Ids :
                   ToggleAll(filtered) \/ SelectAll(filtered) \/ DeselectAll(filtered)
       PROVE  Stamped'
  <2>1. open
    BY <1>10 DEF ToggleIssue, ToggleAll, SelectAll, DeselectAll
  <2> QED BY <1>6, <1>10, <2>1, TicksAre
<1> QED BY <1>2, <1>3, <1>4, <1>5, <1>7, <1>8, <1>9, <1>10 DEF Next

(* What a save leaves in the file of a window that lists all that waits.   *)
LEMMA KeptSaved ==
  ASSUME IInv', Kept, Stamped', Save, open, open', UNCHANGED <<world, boot, helper>>,
         Calm => waiting' \subseteq Waiting(shown') \cup Waiting(hidden')
  PROVE  Kept'
<1> SUFFICES ASSUME Calm PROVE Kept'
  BY DEF Kept, Calm
<1>1. waiting' \subseteq Waiting(shown') \cup Waiting(hidden')
  OBVIOUS
<1>2. /\ helper.phase = "loaded" => world.helper # "never"
      /\ world.helper # "any" => helper.phase # "loaded"
  BY DEF Kept
<1>3. ASSUME run' = "idle"
      PROVE  /\ waiting' \subseteq Waiting(file'.issues)
             /\ waiting' # {} => file'.boot = boot
  <2>1. CASE stamp' = 0
    <3>1. DOMAIN shown' = {} /\ DOMAIN hidden' = {}
      BY <1>3, <2>1 DEF Stamped
    <3>2. Waiting(shown') = {} /\ Waiting(hidden') = {}
      BY <3>1, WaitingOfNothing
    <3> QED BY <1>1, <3>2
  <2>2. CASE stamp' # 0
    <3>1. /\ file'.boot = boot
          /\ Waiting(file'.issues) = Waiting(shown') \cup Waiting(hidden')
      BY <2>2, SavedSays
    <3> QED BY <1>1, <3>1
  <2> QED BY <2>1, <2>2
<1> QED BY <1>1, <1>2, <1>3 DEF Kept, Calm

(* ... and a window that saves nothing, but is busy.                       *)
LEMMA KeptBusy ==
  ASSUME Kept, open, open', run' # "idle", UNCHANGED <<world, helper>>,
         Calm => waiting' \subseteq Waiting(shown') \cup Waiting(hidden')
  PROVE  Kept'
BY DEF Kept, Calm

LEMMA KeptStep ==
  ASSUME IInv, IInv', Past, Stamped, Stamped', Kept, Next
  PROVE  Kept'
<1>1. open /\ open' /\ boot' = boot => WaitsOn
  BY StepKeeps DEF Keeps
<1>2. world \in World
  BY DEF IInv, TypeOK
<1>3. Calm /\ open /\ open' /\ boot' = boot /\ UNCHANGED waiting
        => waiting' \subseteq Waiting(shown') \cup Waiting(hidden')
  BY <1>1 DEF Kept, WaitsOn
<1>4. CASE Open
  <2> SUFFICES ASSUME Calm PROVE Kept'
    BY <1>4 DEF Open, Kept, Calm
  <2>1. /\ ~open /\ open' /\ UNCHANGED <<world, boot, run, file, helper, waiting>>
        /\ world.helper = "alone" => helper.phase = "off"
    BY <1>4 DEF Open
  <2>2. /\ run = "idle" /\ IsFindingList(file.issues) /\ helper.phase \in {"off", "loaded"}
        /\ world.helper \in {"never", "alone", "any"}
    BY <2>1, <1>2 DEF IInv, Runs, TypeOK, World
  <2>3. waiting \subseteq Waiting(shown') \cup Waiting(hidden')
    <3>1. CASE waiting = {}
      BY <3>1
    <3>2. CASE waiting # {}
      <4>1. waiting \subseteq Waiting(file.issues) /\ file.boot = boot
        BY <2>1, <2>2, <3>2 DEF Kept
      <4>2. shown' = Shown(file.issues) /\ hidden' = Hidden(file.issues)
        BY <1>4, <4>1 DEF Open
      <4>3. Waiting(file.issues)
              = Waiting(Shown(file.issues)) \cup Waiting(Hidden(file.issues))
        BY <2>2, SortedList
      <4> QED BY <4>1, <4>2, <4>3
    <3> QED BY <3>1, <3>2
  <2>4. /\ world.helper # "any" => helper.phase # "loaded"
        /\ helper.phase = "loaded" => world.helper # "never"
        /\ world.helper # "any" => /\ waiting \subseteq Waiting(file.issues)
                                   /\ waiting # {} => file.boot = boot
    BY <2>1, <2>2 DEF Kept
  <2> QED BY <2>1, <2>3, <2>4 DEF Kept, Calm
<1>5. ASSUME \/ StartScan \/ StartRepairs
             \/ \E m \in Modules : \/ \E found \in SUBSET Ids : ModuleFinished(m, found)
                                   \/ ModuleFailed(m)
      PROVE  Kept'
  <2>1. /\ open /\ open' /\ run' # "idle" /\ UNCHANGED <<world, boot, helper, waiting>>
    <3>1. CASE StartScan \/ StartRepairs
      BY <3>1 DEF StartScan, StartRepairs, Idle
    <3>2. ASSUME NEW m \in Modules, (\E found \in SUBSET Ids : ModuleFinished(m, found))
                                    \/ ModuleFailed(m)
          PROVE  <2>1!:
      BY <3>2 DEF ModuleFinished, ModuleFailed, IInv, Runs
    <3> QED BY <1>5, <3>1, <3>2
  <2> QED BY <1>3, <2>1, KeptBusy
<1>6. ASSUME NEW i \in Ids, NEW result \in RepairResults, FixFinished(i, result)
      PROVE  Kept'
  <2>1. /\ open /\ open' /\ run' # "idle" /\ UNCHANGED <<world, boot, helper>>
    BY <1>6 DEF FixFinished, IInv, Runs
  <2>2. \/ waiting' = waiting
        \/ waiting' = waiting \cup {i} /\ i \in Waiting(shown')
    BY <1>6, PastFixFinished
  <2>3. Calm => waiting' \subseteq Waiting(shown') \cup Waiting(hidden')
    BY <1>1, <2>1, <2>2 DEF Kept, WaitsOn
  <2> QED BY <2>1, <2>3, KeptBusy
<1>7. ASSUME \/ ScanEnded \/ RepairsEnded
             \/ \E i \in Ids : Archive(i) \/ ShowAgain(i)
      PROVE  Kept'
  <2>1. open /\ open' /\ UNCHANGED <<world, boot, helper, waiting>> /\ Save
    <3>1. CASE ScanEnded \/ RepairsEnded
      BY <3>1 DEF ScanEnded, RepairsEnded, IInv, Runs
    <3>2. ASSUME NEW i \in Ids, Archive(i) \/ ShowAgain(i)
          PROVE  <2>1!:
      BY <3>2 DEF Archive, ShowAgain, Idle
    <3> QED BY <1>7, <3>1, <3>2
  <2> QED BY <1>3, <2>1, KeptSaved
<1>8. ASSUME \/ \E i \in Ids : ToggleIssue(i)
             \/ \E filtered \in SUBSET Ids :
                  ToggleAll(filtered) \/ SelectAll(filtered) \/ DeselectAll(filtered)
      PROVE  Kept'
  <2>1. open
    BY <1>8 DEF ToggleIssue, ToggleAll, SelectAll, DeselectAll
  <2>2. PICK S \in SUBSET DOMAIN shown, ticked \in BOOLEAN : SetTicks(S, ticked)
    BY <1>8, <2>1, TicksAre
  <2>3. open' /\ UNCHANGED <<world, boot, helper, waiting>> /\ Save
    BY <2>1, <2>2 DEF SetTicks
  <2> QED BY <1>3, <2>1, <2>3, KeptSaved
<1>9. CASE TakeInBackgroundScan
  <2>1. /\ open /\ open' /\ UNCHANGED <<world, boot, file, helper, waiting, run>>
    BY <1>9 DEF TakeInBackgroundScan, Idle
  <2> QED BY <1>3, <2>1 DEF Kept, Calm
<1>10. CASE Quit
  <2>1. /\ open /\ ~open' /\ UNCHANGED <<world, boot, file, helper, waiting>>
        /\ (IF run = "idle" THEN "idle" ELSE "busy") \in world.quits
    BY <1>10 DEF Quit, WindowGone
  <2> QED BY <2>1 DEF Kept, Calm
<1>11. CASE Restart
  <2>1. waiting' = {} /\ helper'.phase = "off"
    BY <1>11 DEF Restart, HelperOff
  <2> QED BY <2>1 DEF Kept
<1>12. ASSUME NEW found \in SUBSET Ids, HelperLoads(found)
       PROVE  Kept'
  <2>1. /\ UNCHANGED <<world, boot, open, file, waiting, run, shown, hidden>>
        /\ world.helper = "any" \/ (world.helper = "alone" /\ ~open)
    BY <1>12 DEF HelperLoads, windowVars
  <2>2. world.helper # "any" /\ Calm => waiting \subseteq Waiting(helper'.issues)
    <3> SUFFICES ASSUME world.helper # "any", Calm PROVE waiting \subseteq Waiting(helper'.issues)
      OBVIOUS
    <3>1. run = "idle"
      BY <2>1 DEF IInv, Runs
    <3>2. CASE waiting = {}
      BY <3>2
    <3>3. CASE waiting # {}
      <4>1. waiting \subseteq Waiting(file.issues) /\ file.boot = boot
        BY <3>1, <3>3 DEF Kept
      <4>2. file.stamp # 0
        BY <3>3, <4>1 DEF Past, Waiting
      <4>3. helper'.issues = Decided(Reported(found), file.issues)
        BY <1>12, <4>1, <4>2 DEF HelperLoads
      <4>4. IsFindingList(Reported(found)) /\ IsFindingList(file.issues)
        BY ReportedList DEF IInv, TypeOK
      <4>5. Waiting(file.issues) \subseteq Waiting(Decided(Reported(found), file.issues))
        BY <4>4, DecidedList
      <4> QED BY <4>1, <4>3, <4>5
    <3> QED BY <3>2, <3>3
  <2> QED BY <2>1, <2>2 DEF Kept, Calm
<1>13. CASE HelperSaves
  <2>1. /\ UNCHANGED <<world, boot, open, waiting, run, shown, hidden>>
        /\ helper.phase = "loaded" /\ file'.issues = helper.issues /\ file'.boot = boot
        /\ helper'.phase = "off"
    BY <1>13 DEF HelperSaves, HelperOff, windowVars
  <2> QED BY <2>1 DEF Kept, Calm
<1> QED BY <1>4, <1>5, <1>6, <1>7, <1>8, <1>9, <1>10, <1>11, <1>12, <1>13 DEF Next

---------------------------------------------------------------------------
(* In a scan: what was left out and is not listed yet is known from before *)
(* and unticked there, and of a check still to report only what waits is   *)
(* listed.                                                                 *)
ScanKnows ==
  run = "scan" =>
    /\ \A i \in leftOut : \/ i \in DOMAIN shown \cup DOMAIN hidden
                          \/ ModuleOf[i] \in todo /\ i \in DOMAIN last
    /\ \A i \in DOMAIN shown \cup DOMAIN hidden : ModuleOf[i] \in todo => i \in Waiting(last)
    /\ \A i \in leftOut \cap DOMAIN last :
         ModuleOf[i] \in todo => ~last[i].is_selected \/ last[i].is_reboot_pending

(* What was left out is unticked wherever the next run may get its list    *)
(* from, and listed there.                                                 *)
WindowKnows ==
  open => /\ Off(shown, leftOut) /\ Off(hidden, leftOut)
          /\ run # "scan" => leftOut \subseteq DOMAIN shown \cup DOMAIN hidden
          /\ ScanKnows

FileKnows ==
  /\ world.helper = "any" /\ ~open => leftOut = {}
  /\ world.helper # "any" /\ helper.phase = "loaded" => Off(helper.issues, leftOut)
  /\ world.helper # "any" /\ run = "idle" => /\ Off(file.issues, leftOut)
                                             /\ leftOut \subseteq DOMAIN file.issues

Uncut == Calm /\ ~world.cuts

Out == Uncut => WindowKnows /\ FileKnows

LEMMA OffNothing == ASSUME NEW f, DOMAIN f = {} PROVE \A S : Off(f, S)
BY DEF Off

LEMMA OffLess == ASSUME NEW f, NEW S, NEW R \in SUBSET S, Off(f, S) PROVE Off(f, R)
BY DEF Off

(* What a save leaves in the file of a window that knows.                  *)
LEMMA FileSaved ==
  ASSUME IInv', Kept, Calm, Stamped', Save, open, open', UNCHANGED <<world, helper>>,
         Off(shown', leftOut'), Off(hidden', leftOut'),
         run' = "idle" => leftOut' \subseteq DOMAIN shown' \cup DOMAIN hidden'
  PROVE  FileKnows'
<1>1. world.helper # "any" => helper.phase # "loaded"
  BY DEF Kept
<1>2. ASSUME run' = "idle"
      PROVE  Off(file'.issues, leftOut') /\ leftOut' \subseteq DOMAIN file'.issues
  <2>1. CASE stamp' = 0
    <3>1. DOMAIN shown' = {} /\ DOMAIN hidden' = {}
      BY <1>2, <2>1 DEF Stamped
    <3>2. leftOut' = {}
      BY <1>2, <3>1
    <3> QED BY <3>2 DEF Off
  <2>2. CASE stamp' # 0
    <3>1. /\ DOMAIN file'.issues = DOMAIN shown' \cup DOMAIN hidden'
          /\ Made(file'.issues, shown', hidden')
      BY <2>2, SavedSays
    <3>2. Off(file'.issues, leftOut')
      BY <3>1 DEF Made, Off
    <3> QED BY <1>2, <3>1, <3>2
  <2> QED BY <2>1, <2>2
<1> QED BY <1>1, <1>2 DEF FileKnows

(* ... and a busy window changes nothing for it.                           *)
LEMMA FileBusy ==
  ASSUME Kept, Calm, open, open', run' # "idle", UNCHANGED <<world, helper>>
  PROVE  FileKnows'
BY DEF Kept, FileKnows

LEMMA OutOpen ==
  ASSUME IInv, IInv', Past, Out, Uncut, Open
  PROVE  WindowKnows' /\ FileKnows'
<1> DEFINE all == IF file.stamp # 0 /\ file.boot # boot THEN Settled(file.issues)
                                                      ELSE file.issues
<1>1. /\ ~open /\ open' /\ run = "idle" /\ run' = "idle"
      /\ UNCHANGED <<world, file, helper, leftOut>>
      /\ IsFindingList(file.issues)
  BY DEF Open, IInv, Runs, TypeOK
<1>2. Off(file.issues, leftOut) /\ leftOut \subseteq DOMAIN file.issues
  <2>1. CASE world.helper = "any"
    BY <1>1, <2>1 DEF Out, FileKnows, Off
  <2>2. CASE world.helper # "any"
    BY <1>1, <2>2 DEF Out, FileKnows
  <2> QED BY <2>1, <2>2
<1>3. IsFindingList(all) /\ DOMAIN all = DOMAIN file.issues /\ Off(all, leftOut)
  <2>1. /\ IsFindingList(Settled(file.issues)) /\ Off(Settled(file.issues), leftOut)
        /\ DOMAIN Settled(file.issues) = DOMAIN file.issues
    BY <1>1, <1>2, SettledList, SettledSays
  <2> QED BY <1>1, <1>2, <2>1
<1>4. shown' = Shown(all) /\ hidden' = Hidden(all)
  BY DEF Open
<1> HIDE DEF all
<1>5. /\ Made(shown', all, all) /\ Made(hidden', all, all)
      /\ DOMAIN shown' = DOMAIN all \ archived /\ DOMAIN hidden' = DOMAIN all \cap archived
  BY <1>3, <1>4, SortedList, SortedSays
<1>6. Off(shown', leftOut) /\ Off(hidden', leftOut)
  BY <1>3, <1>5, MadeKeeps
<1>7. leftOut \subseteq DOMAIN shown' \cup DOMAIN hidden'
  BY <1>2, <1>3, <1>5
<1>8. WindowKnows'
  BY <1>1, <1>6, <1>7 DEF WindowKnows, ScanKnows
<1>9. FileKnows'
  BY <1>1, <1>2 DEF Out, FileKnows
<1> QED BY <1>8, <1>9

LEMMA OutStartScan ==
  ASSUME IInv, IInv', Kept, Out, Uncut, StartScan
  PROVE  WindowKnows' /\ FileKnows'
<1>1. /\ IsFindingList(shown) /\ IsFindingList(hidden) /\ DOMAIN shown \cap DOMAIN hidden = {}
      /\ open /\ open' /\ run = "idle" /\ run' = "scan"
      /\ UNCHANGED <<world, file, helper, leftOut>>
      /\ last' = Join(shown, hidden) /\ todo' = Modules
  BY DEF StartScan, Idle, IInv, TypeOK, Sorted
<1>2. /\ Off(shown, leftOut) /\ Off(hidden, leftOut)
      /\ leftOut \subseteq DOMAIN shown \cup DOMAIN hidden
  BY <1>1 DEF Out, WindowKnows
<1>3. Waiting(shown) \in SUBSET DOMAIN shown /\ Waiting(hidden) \in SUBSET DOMAIN hidden
  BY DEF Waiting
<1>4. /\ Made(shown', shown, shown) /\ Made(hidden', hidden, hidden)
      /\ DOMAIN shown' = Waiting(shown) /\ DOMAIN hidden' = Waiting(hidden)
  BY <1>1, <1>3, FilteredSays, FilteredList DEF StartScan
<1>5. Off(shown', leftOut) /\ Off(hidden', leftOut)
  BY <1>2, <1>4, MadeKeeps
<1>6. /\ Waiting(last') = Waiting(shown) \cup Waiting(hidden)
      /\ DOMAIN last' = DOMAIN shown \cup DOMAIN hidden
      /\ Made(last', shown, hidden)
  BY <1>1, JoinedList, JoinedWaits, JoinedSays
<1>7. Off(last', leftOut)
  BY <1>2, <1>6, MadeKeeps
<1>8. \A i \in leftOut : ModuleOf[i] \in Modules
  BY FindingsAssumption DEF IInv, TypeOK
<1>9. ScanKnows'
  <2>1. \A i \in leftOut' : ModuleOf[i] \in todo' /\ i \in DOMAIN last'
    BY <1>1, <1>2, <1>6, <1>8
  <2>2. \A i \in DOMAIN shown' \cup DOMAIN hidden' : i \in Waiting(last')
    BY <1>4, <1>6
  <2>3. \A i \in leftOut' \cap DOMAIN last' : ~last'[i].is_selected
    BY <1>1, <1>7 DEF Off
  <2> QED BY <2>1, <2>2, <2>3 DEF ScanKnows
<1>10. WindowKnows'
  BY <1>1, <1>5, <1>9 DEF WindowKnows
<1>11. FileKnows'
  BY <1>1, FileBusy DEF Uncut
<1> QED BY <1>10, <1>11

LEMMA OutModuleFinished ==
  ASSUME IInv, IInv', Kept, Out, Uncut, NEW m \in Modules, NEW found \in SUBSET Ids,
         ModuleFinished(m, found)
  PROVE  WindowKnows' /\ FileKnows'
<1> DEFINE c == CarryOver(Reported(found), last)
<1>1. /\ run = "scan" /\ run' = "scan" /\ open /\ open' /\ m \in todo /\ todo' = todo \ {m}
      /\ \A i \in found : ModuleOf[i] = m
      /\ leftOut' = leftOut \ {i \in Ids \ found : ModuleOf[i] = m}
      /\ UNCHANGED <<world, last, helper>> /\ leftOut \subseteq Ids
  BY DEF ModuleFinished, IInv, TypeOK, Runs
<1>2. Off(shown, leftOut) /\ Off(hidden, leftOut) /\ ScanKnows
  BY <1>1 DEF Out, WindowKnows
<1>3. /\ \A i \in leftOut : \/ i \in DOMAIN shown \cup DOMAIN hidden
                            \/ ModuleOf[i] \in todo /\ i \in DOMAIN last
      /\ \A i \in DOMAIN shown \cup DOMAIN hidden : ModuleOf[i] \in todo => i \in Waiting(last)
      /\ \A i \in leftOut \cap DOMAIN last :
           ModuleOf[i] \in todo => ~last[i].is_selected \/ last[i].is_reboot_pending
  BY <1>1, <1>2 DEF ScanKnows
<1>4. /\ DOMAIN shown' = (found \ archived) \cup (DOMAIN shown \ found)
      /\ DOMAIN hidden' = (found \cap archived) \cup (DOMAIN hidden \ found)
      /\ \A i \in found : /\ i \in DOMAIN shown' => shown'[i] = c[i]
                          /\ i \in DOMAIN hidden' => hidden'[i] = c[i]
      /\ \A i \in DOMAIN shown \ found : shown'[i] = shown[i]
      /\ \A i \in DOMAIN hidden \ found : hidden'[i] = hidden[i]
  BY ReportSays
<1>5. \A i \in found \cap leftOut : ~c[i].is_selected
  <2>1. IsFindingList(Reported(found)) /\ IsFindingList(last) /\ DOMAIN Reported(found) = found
    BY ReportedList DEF IInv, TypeOK
  <2>2. \A i \in found \cap DOMAIN last :
          ~last[i].is_selected \/ last[i].is_reboot_pending => ~c[i].is_selected
    BY <2>1, CarriedSays
  <2>3. ASSUME NEW i \in found \cap leftOut
        PROVE  i \in DOMAIN last /\ (~last[i].is_selected \/ last[i].is_reboot_pending)
    <3>1. ModuleOf[i] \in todo
      BY <1>1
    <3>2. i \in DOMAIN last
      BY <1>3, <3>1 DEF Waiting
    <3> QED BY <1>3, <3>1, <3>2
  <2> HIDE DEF c
  <2> QED BY <2>2, <2>3
<1> HIDE DEF c
<1>6. leftOut' \subseteq leftOut
  BY <1>1
<1>7. Off(shown', leftOut') /\ Off(hidden', leftOut')
  BY <1>2, <1>4, <1>5, <1>6 DEF Off
<1>8. ScanKnows'
  <2>1. ASSUME NEW i \in leftOut'
        PROVE  \/ i \in DOMAIN shown' \cup DOMAIN hidden'
               \/ ModuleOf[i] \in todo' /\ i \in DOMAIN last'
    <3>1. i \in leftOut /\ (i \in found \/ ModuleOf[i] # m)
      BY <1>1
    <3> QED BY <1>1, <1>3, <1>4, <3>1
  <2>2. ASSUME NEW i \in DOMAIN shown' \cup DOMAIN hidden', ModuleOf[i] \in todo'
        PROVE  i \in Waiting(last')
    <3>1. i \notin found
      BY <1>1, <2>2
    <3>2. i \in Waiting(last)
      BY <1>1, <1>3, <1>4, <2>2, <3>1
    <3> QED BY <1>1, <3>2
  <2>3. ASSUME NEW i \in leftOut' \cap DOMAIN last', ModuleOf[i] \in todo'
        PROVE  ~last'[i].is_selected \/ last'[i].is_reboot_pending
    BY <1>1, <1>3, <1>6, <2>3
  <2> QED BY <2>1, <2>2, <2>3 DEF ScanKnows
<1>9. WindowKnows'
  BY <1>1, <1>7, <1>8 DEF WindowKnows
<1>10. FileKnows'
  BY <1>1, FileBusy DEF Uncut
<1> QED BY <1>9, <1>10

LEMMA OutScanEnded ==
  ASSUME IInv, IInv', Kept, Stamped', Out, Uncut, ScanEnded
  PROVE  WindowKnows' /\ FileKnows'
<1>1. /\ run = "scan" /\ run' = "idle" /\ open /\ open' /\ todo = {} /\ Save
      /\ UNCHANGED <<world, shown, hidden, helper, leftOut>>
  BY DEF ScanEnded, Uncut, IInv, Runs
<1>2. /\ Off(shown, leftOut) /\ Off(hidden, leftOut)
      /\ leftOut \subseteq DOMAIN shown \cup DOMAIN hidden
  BY <1>1 DEF Out, WindowKnows, ScanKnows
<1>3. Off(shown', leftOut') /\ Off(hidden', leftOut')
      /\ leftOut' \subseteq DOMAIN shown' \cup DOMAIN hidden'
  BY <1>1, <1>2
<1>4. WindowKnows'
  BY <1>1, <1>3 DEF WindowKnows, ScanKnows
<1>5. FileKnows'
  BY <1>1, <1>3, FileSaved DEF Uncut
<1> QED BY <1>4, <1>5

LEMMA OutRepairs ==
  ASSUME IInv, IInv', Kept, Stamped', Out, Uncut, StartRepairs \/ RepairsEnded
  PROVE  WindowKnows' /\ FileKnows'
<1>1. /\ run # "scan" /\ run' # "scan" /\ open /\ open'
      /\ UNCHANGED <<world, shown, hidden, helper, leftOut>>
  BY DEF StartRepairs, RepairsEnded, Idle, IInv, Runs
<1>2. /\ Off(shown, leftOut) /\ Off(hidden, leftOut)
      /\ leftOut \subseteq DOMAIN shown \cup DOMAIN hidden
  BY <1>1 DEF Out, WindowKnows
<1>3. Off(shown', leftOut') /\ Off(hidden', leftOut')
      /\ leftOut' \subseteq DOMAIN shown' \cup DOMAIN hidden'
  BY <1>1, <1>2
<1>4. WindowKnows'
  BY <1>1, <1>3 DEF WindowKnows, ScanKnows
<1>5. CASE StartRepairs
  <2>1. run' # "idle"
    BY <1>5 DEF StartRepairs
  <2>2. FileKnows'
    BY <1>1, <2>1, FileBusy DEF Uncut
  <2> QED BY <1>4, <2>2
<1>6. CASE RepairsEnded
  <2>1. Save
    BY <1>6 DEF RepairsEnded
  <2>2. FileKnows'
    BY <1>1, <1>3, <2>1, FileSaved DEF Uncut
  <2> QED BY <1>4, <2>2
<1> QED BY <1>5, <1>6

LEMMA OutFixFinished ==
  ASSUME IInv, IInv', Kept, Out, Uncut, NEW i \in Ids, NEW result \in RepairResults,
         FixFinished(i, result)
  PROVE  WindowKnows' /\ FileKnows'
<1>1. /\ run = "repair" /\ run' = "repair" /\ open /\ open'
      /\ i \in DOMAIN shown /\ shown[i] \in Finding
      /\ shown' = [shown EXCEPT ![i] = RecordRepair(shown[i], result)]
      /\ UNCHANGED <<world, hidden, helper, leftOut>>
  BY DEF FixFinished, IInv, Runs, TypeOK, IsFindingList
<1>2. /\ Off(shown, leftOut) /\ Off(hidden, leftOut)
      /\ leftOut \subseteq DOMAIN shown \cup DOMAIN hidden
  BY <1>1 DEF Out, WindowKnows
<1>3. /\ DOMAIN shown' = DOMAIN shown /\ shown'[i] = RecordRepair(shown[i], result)
      /\ \A j \in DOMAIN shown \ {i} : shown'[j] = shown[j]
  BY <1>1
<1>4. ~shown[i].is_selected => ~shown'[i].is_selected
  BY <1>1, <1>3, RecordedSays
<1>5. Off(shown', leftOut)
  BY <1>2, <1>3, <1>4 DEF Off
<1>6. WindowKnows'
  BY <1>1, <1>2, <1>3, <1>5 DEF WindowKnows, ScanKnows
<1>7. FileKnows'
  BY <1>1, FileBusy DEF Uncut
<1> QED BY <1>6, <1>7

LEMMA OutTicks ==
  ASSUME IInv, IInv', Past, Kept, Stamped', Out, Uncut, open,
         NEW S \in SUBSET DOMAIN shown, NEW ticked \in BOOLEAN, SetTicks(S, ticked)
  PROVE  WindowKnows' /\ FileKnows'
<1>1. /\ open' /\ UNCHANGED <<world, run, hidden, last, todo, helper>> /\ Save
      /\ shown' = Ticked(shown, S, ticked)
      /\ leftOut' = IF ticked THEN leftOut \ S ELSE leftOut \cup S
      /\ IsFindingList(shown) /\ DOMAIN shown \cap DOMAIN hidden = {}
  BY DEF SetTicks, Ticked, IInv, TypeOK, Sorted
<1>2. /\ Off(shown, leftOut) /\ Off(hidden, leftOut) /\ ScanKnows
      /\ run # "scan" => leftOut \subseteq DOMAIN shown \cup DOMAIN hidden
  BY DEF Out, WindowKnows
<1>3. DOMAIN shown' = DOMAIN shown
  BY <1>1 DEF Ticked
<1>4. Off(shown', leftOut')
  <2>1. Marked(shown)
    BY DEF Past
  <2>2. Off(Ticked(shown, S, ticked), IF ticked THEN leftOut \ S ELSE leftOut \cup S)
    BY <1>1, <1>2, <2>1, TickedSays
  <2> QED BY <1>1, <2>2
<1>5. Off(hidden', leftOut')
  BY <1>1, <1>2 DEF Off
<1>6. leftOut' \subseteq leftOut \cup DOMAIN shown
  BY <1>1
<1>7. run' # "scan" => leftOut' \subseteq DOMAIN shown' \cup DOMAIN hidden'
  BY <1>1, <1>2, <1>3, <1>6
<1>8. ScanKnows'
  <2> SUFFICES ASSUME run = "scan" PROVE ScanKnows'
    BY <1>1 DEF ScanKnows
  <2>1. /\ \A i \in leftOut : \/ i \in DOMAIN shown \cup DOMAIN hidden
                              \/ ModuleOf[i] \in todo /\ i \in DOMAIN last
        /\ \A i \in DOMAIN shown \cup DOMAIN hidden : ModuleOf[i] \in todo => i \in Waiting(last)
        /\ \A i \in leftOut \cap DOMAIN last :
             ModuleOf[i] \in todo => ~last[i].is_selected \/ last[i].is_reboot_pending
    BY <1>2 DEF ScanKnows
  <2>2. \A i \in leftOut' : \/ i \in DOMAIN shown' \cup DOMAIN hidden'
                            \/ ModuleOf[i] \in todo' /\ i \in DOMAIN last'
    BY <1>1, <1>3, <1>6, <2>1
  <2>3. \A i \in DOMAIN shown' \cup DOMAIN hidden' :
          ModuleOf[i] \in todo' => i \in Waiting(last')
    BY <1>1, <1>3, <2>1
  <2>4. ASSUME NEW i \in leftOut' \cap DOMAIN last', ModuleOf[i] \in todo'
        PROVE  ~last'[i].is_selected \/ last'[i].is_reboot_pending
    <3>1. CASE i \in leftOut
      BY <1>1, <2>1, <2>4, <3>1
    <3>2. CASE i \in DOMAIN shown
      <4>1. i \in Waiting(last)
        BY <1>1, <2>1, <2>4, <3>2
      <4> QED BY <1>1, <4>1, WaitingIsListed
    <3> QED BY <1>6, <2>4, <3>1, <3>2
  <2> QED BY <2>2, <2>3, <2>4 DEF ScanKnows
<1>9. WindowKnows'
  BY <1>1, <1>4, <1>5, <1>7, <1>8 DEF WindowKnows
<1>10. FileKnows'
  BY <1>1, <1>4, <1>5, <1>7, FileSaved DEF Uncut
<1> QED BY <1>9, <1>10

LEMMA OutArchive ==
  ASSUME IInv, IInv', Kept, Stamped', Out, Uncut, NEW i \in Ids, Archive(i) \/ ShowAgain(i)
  PROVE  WindowKnows' /\ FileKnows'
<1>1. /\ open /\ open' /\ run = "idle" /\ run' = "idle" /\ Save
      /\ IsFindingList(shown) /\ IsFindingList(hidden)
      /\ UNCHANGED <<world, helper, leftOut>>
  BY DEF Archive, ShowAgain, Idle, IInv, TypeOK
<1>2. /\ Off(shown, leftOut) /\ Off(hidden, leftOut)
      /\ leftOut \subseteq DOMAIN shown \cup DOMAIN hidden
  BY <1>1 DEF Out, WindowKnows
<1>3. leftOut \subseteq DOMAIN shown' \cup DOMAIN hidden'
  BY <1>2, ListedAlike
<1>4. Off(shown', leftOut) /\ Off(hidden', leftOut)
  <2>1. CASE Archive(i)
    <3> DEFINE back == Restrict(shown, DOMAIN shown \cap archived')
    <3>1. /\ shown' = Restrict(shown, DOMAIN shown \ archived') /\ hidden' = Join(hidden, back)
      BY <2>1 DEF Archive
    <3>2. /\ DOMAIN shown \ archived' \in SUBSET DOMAIN shown
          /\ DOMAIN shown \cap archived' \in SUBSET DOMAIN shown
      OBVIOUS
    <3>3. Made(shown', shown, shown) /\ Made(back, shown, shown) /\ IsFindingList(back)
      BY <1>1, <3>1, <3>2, FilteredSays, FilteredList
    <3> HIDE DEF back
    <3>4. Made(hidden', hidden, back)
      BY <1>1, <3>1, <3>3, JoinedSays
    <3>5. Off(back, leftOut)
      BY <1>2, <3>3, MadeKeeps
    <3> QED BY <1>2, <3>3, <3>4, <3>5, MadeKeeps
  <2>2. CASE ShowAgain(i)
    <3> DEFINE back == Restrict(hidden, DOMAIN hidden \cap {i})
    <3>1. /\ hidden' = Restrict(hidden, DOMAIN hidden \ {i}) /\ shown' = Join(shown, back)
      BY <2>2 DEF ShowAgain
    <3>2. /\ DOMAIN hidden \ {i} \in SUBSET DOMAIN hidden
          /\ DOMAIN hidden \cap {i} \in SUBSET DOMAIN hidden
      OBVIOUS
    <3>3. Made(hidden', hidden, hidden) /\ Made(back, hidden, hidden) /\ IsFindingList(back)
      BY <1>1, <3>1, <3>2, FilteredSays, FilteredList
    <3> HIDE DEF back
    <3>4. Made(shown', shown, back)
      BY <1>1, <3>1, <3>3, JoinedSays
    <3>5. Off(back, leftOut)
      BY <1>2, <3>3, MadeKeeps
    <3> QED BY <1>2, <3>3, <3>4, <3>5, MadeKeeps
  <2> QED BY <2>1, <2>2
<1>5. Off(shown', leftOut') /\ Off(hidden', leftOut')
      /\ leftOut' \subseteq DOMAIN shown' \cup DOMAIN hidden'
  BY <1>1, <1>3, <1>4
<1>6. WindowKnows'
  BY <1>1, <1>5 DEF WindowKnows, ScanKnows
<1>7. FileKnows'
  BY <1>1, <1>5, FileSaved DEF Uncut
<1> QED BY <1>6, <1>7

LEMMA OutTakeIn ==
  ASSUME IInv, IInv', Kept, Out, Uncut, TakeInBackgroundScan
  PROVE  WindowKnows' /\ FileKnows'
<1> DEFINE known == Join(shown, hidden)
           all == Decided(file.issues, known)
<1>1. /\ IsFindingList(shown) /\ IsFindingList(hidden) /\ IsFindingList(file.issues)
      /\ open /\ open' /\ run = "idle" /\ run' = "idle" /\ UNCHANGED <<world, helper, file>>
      /\ shown' = Shown(all) /\ hidden' = Hidden(all) /\ leftOut' = leftOut \cap DOMAIN all
  BY DEF TakeInBackgroundScan, Idle, IInv, TypeOK
<1>2. /\ Off(shown, leftOut) /\ Off(hidden, leftOut)
      /\ leftOut \subseteq DOMAIN shown \cup DOMAIN hidden
  BY <1>1 DEF Out, WindowKnows
<1>3. /\ IsFindingList(known) /\ Made(known, shown, hidden)
      /\ DOMAIN known = DOMAIN shown \cup DOMAIN hidden
  BY <1>1, JoinedList, JoinedSays
<1> HIDE DEF known
<1>4. Off(known, leftOut)
  BY <1>2, <1>3, MadeKeeps
<1>5. /\ IsFindingList(all)
      /\ \A i \in DOMAIN all \cap DOMAIN known : ~known[i].is_selected => ~all[i].is_selected
  BY <1>1, <1>3, DecidedList, DecidedSays
<1> HIDE DEF all
<1>6. Off(all, leftOut')
  BY <1>1, <1>2, <1>3, <1>4, <1>5 DEF Off
<1>7. /\ Made(shown', all, all) /\ Made(hidden', all, all)
      /\ DOMAIN shown' = DOMAIN all \ archived /\ DOMAIN hidden' = DOMAIN all \cap archived
  BY <1>1, <1>5, SortedSays, SortedList
<1>8. /\ Off(shown', leftOut') /\ Off(hidden', leftOut')
      /\ leftOut' \subseteq DOMAIN shown' \cup DOMAIN hidden'
  BY <1>1, <1>6, <1>7, MadeKeeps
<1>9. WindowKnows'
  BY <1>1, <1>8 DEF WindowKnows, ScanKnows
<1>10. FileKnows'
  <2>1. world.helper # "any" => helper.phase # "loaded"
    BY <1>1 DEF Kept, Uncut
  <2>2. world.helper # "any" => Off(file.issues, leftOut) /\ leftOut \subseteq DOMAIN file.issues
    BY <1>1 DEF Out, FileKnows
  <2>3. leftOut' \subseteq leftOut
    BY <1>1
  <2> QED BY <1>1, <2>1, <2>2, <2>3 DEF FileKnows, Off
<1> QED BY <1>9, <1>10

LEMMA OutGone ==
  ASSUME IInv, IInv', Out, Uncut, Quit \/ Restart
  PROVE  WindowKnows' /\ FileKnows'
<1>1. /\ ~open' /\ UNCHANGED <<world, file, leftOut>>
      /\ world.helper # "any" /\ run = "idle"
  <2>1. CASE Quit
    BY <2>1 DEF Quit, WindowGone, Uncut, Calm
  <2>2. CASE Restart
    <3>1. boot \in Nat /\ world.restarts \in Nat /\ boot < world.restarts
      BY <2>2, WorldsAssumption DEF Restart, IInv, TypeOK, World
    <3>2. world.restarts # 0
      BY <3>1
    <3> QED BY <2>2, <3>2 DEF Restart, WindowGone, Uncut, Calm, IInv, Runs
  <2> QED BY <2>1, <2>2
<1>2. Off(file.issues, leftOut) /\ leftOut \subseteq DOMAIN file.issues
  BY <1>1 DEF Out, FileKnows
<1>3. helper' = helper \/ helper'.phase # "loaded"
  BY DEF Quit, Restart, HelperOff
<1>4. helper.phase = "loaded" => Off(helper.issues, leftOut)
  BY <1>1 DEF Out, FileKnows
<1> QED BY <1>1, <1>2, <1>3, <1>4 DEF WindowKnows, FileKnows

LEMMA OutHelper ==
  ASSUME IInv, IInv', Kept, Out, Uncut,
         (\E found \in SUBSET Ids : HelperLoads(found)) \/ HelperSaves
  PROVE  WindowKnows' /\ FileKnows'
<1>1. UNCHANGED <<world, open, run, shown, hidden, last, todo>>
  BY DEF HelperLoads, HelperSaves, windowVars
<1>2. leftOut' \subseteq leftOut /\ (open => leftOut' = leftOut)
  BY DEF HelperLoads, HelperSaves
<1>3. WindowKnows'
  BY <1>1, <1>2 DEF Out, WindowKnows, ScanKnows, Waiting
<1>4. ASSUME world.helper # "any", NEW found \in SUBSET Ids, HelperLoads(found)
      PROVE  FileKnows'
  <2>1. /\ UNCHANGED file /\ ~open /\ run = "idle"
    BY <1>4 DEF HelperLoads, IInv, Runs
  <2>2. Off(file.issues, leftOut) /\ leftOut \subseteq DOMAIN file.issues
    BY <1>4, <2>1 DEF Out, FileKnows
  <2>3. Off(helper'.issues, leftOut')
    <3>1. CASE file.stamp # 0 /\ file.boot = boot
      <4>1. helper'.issues = Decided(Reported(found), file.issues)
        BY <1>4, <3>1 DEF HelperLoads
      <4>2. IsFindingList(Reported(found)) /\ IsFindingList(file.issues)
        BY ReportedList DEF IInv, TypeOK
      <4>3. \A i \in DOMAIN Decided(Reported(found), file.issues) \cap DOMAIN file.issues :
              ~file.issues[i].is_selected
                => ~Decided(Reported(found), file.issues)[i].is_selected
        BY <4>2, DecidedSays
      <4> QED BY <1>2, <2>2, <4>1, <4>3 DEF Off
    <3>2. CASE ~(file.stamp # 0 /\ file.boot = boot)
      <4>1. leftOut' = {}
        BY <1>4, <2>1, <3>2 DEF HelperLoads
      <4> QED BY <4>1 DEF Off
    <3> QED BY <3>1, <3>2
  <2>4. Off(file'.issues, leftOut') /\ leftOut' \subseteq DOMAIN file'.issues
    BY <1>2, <2>1, <2>2 DEF Off
  <2>5. world'.helper # "any"
    BY <1>1, <1>4
  <2> QED BY <2>3, <2>4, <2>5 DEF FileKnows
<1>5. ASSUME world.helper # "any", HelperSaves
      PROVE  FileKnows'
  <2>1. /\ helper.phase = "loaded" /\ file'.issues = helper.issues /\ helper'.phase = "off"
    BY <1>5 DEF HelperSaves, HelperOff
  <2>2. ~open /\ Off(helper.issues, leftOut)
    BY <1>5, <2>1 DEF Kept, Uncut, Out, FileKnows
  <2>3. leftOut' = leftOut \cap DOMAIN helper.issues
    BY <1>5, <2>2 DEF HelperSaves
  <2>4. Off(file'.issues, leftOut') /\ leftOut' \subseteq DOMAIN file'.issues
    BY <2>1, <2>2, <2>3 DEF Off
  <2>5. world'.helper # "any" /\ helper'.phase # "loaded"
    BY <1>1, <1>5, <2>1
  <2> QED BY <2>4, <2>5 DEF FileKnows
<1>6. CASE world.helper = "any"
  <2>1. world'.helper = "any" /\ (~open' => leftOut = {})
    BY <1>1, <1>6 DEF Out, FileKnows
  <2>2. ~open' => leftOut' = {}
    BY <1>2, <2>1
  <2> QED BY <1>3, <2>1, <2>2 DEF FileKnows
<1> QED BY <1>3, <1>4, <1>5, <1>6

LEMMA OutStep ==
  ASSUME IInv, IInv', Past, Stamped', Kept, Out, Next
  PROVE  Out'
<1>1. UNCHANGED world
  BY DEF Next, Open, StartScan, ScanEnded, StartRepairs, RepairsEnded, ModuleFinished,
         ModuleFailed, FixFinished, ToggleIssue, ToggleAll, SelectAll, DeselectAll, SetTicks,
         Archive, ShowAgain, TakeInBackgroundScan, Quit, Restart, HelperLoads, HelperSaves
<1> SUFFICES ASSUME Uncut PROVE WindowKnows' /\ FileKnows'
  BY <1>1 DEF Out, Uncut, Calm
<1>2. ASSUME \/ \E i \in Ids : ToggleIssue(i)
             \/ \E filtered \in SUBSET Ids :
                  ToggleAll(filtered) \/ SelectAll(filtered) \/ DeselectAll(filtered)
      PROVE  WindowKnows' /\ FileKnows'
  <2>1. open
    BY <1>2 DEF ToggleIssue, ToggleAll, SelectAll, DeselectAll
  <2> QED BY <1>2, <2>1, TicksAre, OutTicks
<1>3. ASSUME NEW m \in Modules, ModuleFailed(m) PROVE FALSE
  BY <1>3 DEF ModuleFailed, Uncut
<1> QED BY <1>2, <1>3, OutOpen, OutStartScan, OutModuleFinished, OutScanEnded, OutRepairs,
          OutFixFinished, OutArchive, OutTakeIn, OutGone, OutHelper DEF Next

LEMMA AlwaysDecided == Spec => [](IInv /\ Past /\ Stamped /\ Kept /\ Out)
<1>1. Init => Past /\ Stamped /\ Kept /\ Out
  <2> SUFFICES ASSUME Init PROVE Past /\ Stamped /\ Kept /\ Out
    OBVIOUS
  <2>1. /\ shown = NoFindings /\ hidden = NoFindings /\ last = NoFindings
        /\ file.issues = NoFindings /\ helper.issues = NoFindings
        /\ file.boot = 0 /\ boot = 0 /\ file.stamp = 0 /\ helper.phase = "off" /\ ~open
        /\ waiting = {} /\ leftOut = {}
    BY DEF Init, HelperOff
  <2>2. Past
    BY <2>1, EmptyList, EmptySays DEF Past
  <2>3. Stamped /\ Kept
    BY <2>1 DEF Stamped, Kept
  <2>4. Out
    BY <2>1, EmptySays DEF Out, WindowKnows, FileKnows
  <2> QED BY <2>2, <2>3, <2>4
<1>2. IInv /\ Past /\ Stamped /\ Kept /\ Out /\ [Next]_vars
        => (IInv /\ Past /\ Stamped /\ Kept /\ Out)'
  <2> SUFFICES ASSUME IInv, Past, Stamped, Kept, Out, [Next]_vars
               PROVE  (IInv /\ Past /\ Stamped /\ Kept /\ Out)'
    OBVIOUS
  <2>1. IInv' /\ Past'
    BY StepKeeps, PastStep DEF Keeps
  <2>2. CASE UNCHANGED vars
    BY <2>1, <2>2 DEF vars, Stamped, Kept, Calm, Out, Uncut, WindowKnows, ScanKnows, FileKnows
  <2>3. CASE Next
    <3>1. Stamped'
      BY <2>1, <2>3, StampedStep
    <3>2. Kept'
      BY <2>1, <2>3, <3>1, KeptStep
    <3>3. Out'
      BY <2>1, <2>3, <3>1, OutStep
    <3> QED BY <2>1, <3>1, <3>2, <3>3
  <2> QED BY <2>2, <2>3
<1> QED BY <1>1, <1>2, InitHolds, PTL DEF Spec

(* In a session in which the user quits between runs only and the helper   *)
(* does not save over a window that is then quit, no run schedules again   *)
(* what waits for the restart, and no run works on a finding the user left *)
(* out as long as complete scans go on reporting it, nor is one lost to    *)
(* the lists of what is shown and what is archived: through every scan,    *)
(* archive, save, restart and background scan (state.rs carry_over and     *)
(* keep_waiting, scan_state.rs settle_restart).                            *)
THEOREM DecisionsAreKept == Spec => []DecisionsHold
<1>1. IInv /\ Past /\ Stamped /\ Kept /\ Out => DecisionsHold
  <2> SUFFICES ASSUME IInv, Past, Kept, Out PROVE DecisionsHold
    OBVIOUS
  <2>1. ASSUME Calm, NEW i \in fixing \cap waiting PROVE FALSE
    <3>1. open /\ i \in DOMAIN shown /\ ~shown[i].is_reboot_pending
      BY DEF IInv, Runs
    <3>2. i \in Waiting(shown) \cup Waiting(hidden)
      BY <2>1, <3>1 DEF Kept
    <3>3. i \notin DOMAIN hidden
      BY <3>1 DEF IInv, Sorted
    <3> QED BY <3>1, <3>2, <3>3, WaitingIsListed
  <2>2. NotScheduledAgain
    BY <2>1 DEF NotScheduledAgain, Calm
  <2>3. ASSUME Uncut, open
        PROVE  /\ \A i \in leftOut \cap DOMAIN shown : ~shown[i].is_selected
               /\ \A i \in leftOut \cap DOMAIN hidden : ~hidden[i].is_selected
               /\ run # "scan" => leftOut \subseteq DOMAIN shown \cup DOMAIN hidden
    BY <2>3 DEF Out, WindowKnows, Off
  <2>4. ~open => DOMAIN shown = {} /\ DOMAIN hidden = {}
    BY DEF Past
  <2>5. LeftOutStaysOut
    BY <2>3, <2>4 DEF LeftOutStaysOut, Uncut, Calm
  <2> QED BY <2>2, <2>5 DEF DecisionsHold
<1> QED BY <1>1, AlwaysDecided, PTL
===========================================================================
