----------------------- MODULE ServiceRepairsProofs -----------------------
(***************************************************************************)
(* Theorems about ServiceRepairs, for any services, dependencies and       *)
(* folders and any number of repairs: what was stopped runs again, nothing *)
(* is touched while a service that was stopped runs, and what is reported  *)
(* is true.                                                                *)
(***************************************************************************)
EXTENDS ServiceRepairs, FiniteSetTheorems, TLAPS

(* Sequences.                                                              *)
LEMMA SetOfSeq ==
  ASSUME NEW S, NEW s \in Seq(S)
  PROVE  ToSet(s) \subseteq S /\ \A x : x \in ToSet(s) <=> \E i \in 1..Len(s) : s[i] = x
BY DEF ToSet

LEMMA SetOfEmpty == ToSet(<<>>) = {}
BY DEF ToSet

LEMMA EmptySeq ==
  ASSUME NEW S, NEW s \in Seq(S), Len(s) = 0 PROVE s = <<>>
OBVIOUS

LEMMA ReversedSeq ==
  ASSUME NEW S, NEW s \in Seq(S)
  PROVE  /\ Reverse(s) \in Seq(S) /\ Len(Reverse(s)) = Len(s)
         /\ \A i \in 1..Len(s) : Reverse(s)[i] = s[Len(s) - i + 1]
         /\ ToSet(Reverse(s)) = ToSet(s)
<1>1. \A i \in 1..Len(s) : Len(s) - i + 1 \in 1..Len(s)
  OBVIOUS
<1>2. /\ Reverse(s) \in Seq(S) /\ Len(Reverse(s)) = Len(s)
      /\ \A i \in 1..Len(s) : Reverse(s)[i] = s[Len(s) - i + 1]
  BY <1>1 DEF Reverse
<1>3. ASSUME NEW x \in ToSet(s) PROVE x \in ToSet(Reverse(s))
  <2>1. PICK i \in 1..Len(s) : s[i] = x
    BY <1>3, SetOfSeq
  <2>2. Reverse(s)[Len(s) - i + 1] = x
    BY <1>1, <1>2, <2>1
  <2> QED BY <1>1, <1>2, <2>2, SetOfSeq
<1>4. ASSUME NEW x \in ToSet(Reverse(s)) PROVE x \in ToSet(s)
  <2>1. PICK i \in 1..Len(s) : Reverse(s)[i] = x
    BY <1>2, <1>4, SetOfSeq
  <2> QED BY <1>1, <1>2, <2>1, SetOfSeq
<1> QED BY <1>2, <1>3, <1>4

(* Whatever is one element more than a sequence, at the front or the end.  *)
LEMMA FrontOf ==
  ASSUME NEW S, NEW s \in Seq(S), NEW t \in Seq(S), Len(s) = Len(t) + 1,
         \A i \in 1..Len(t) : t[i] = s[i + 1]
  PROVE  ToSet(s) = {s[1]} \cup ToSet(t)
<1>0. Len(t) \in Nat
  OBVIOUS
<1>1. ASSUME NEW x \in ToSet(s) PROVE x = s[1] \/ x \in ToSet(t)
  <2>1. PICK i \in 1..Len(s) : s[i] = x
    BY <1>1, SetOfSeq
  <2>2. CASE i # 1
    <3>1. i - 1 \in 1..Len(t) /\ t[i - 1] = x
      BY <1>0, <2>1, <2>2
    <3> QED BY <3>1, SetOfSeq
  <2> QED BY <2>1, <2>2
<1>2. s[1] \in ToSet(s)
  BY <1>0, SetOfSeq
<1>3. ASSUME NEW x \in ToSet(t) PROVE x \in ToSet(s)
  <2>1. PICK i \in 1..Len(t) : t[i] = x
    BY <1>3, SetOfSeq
  <2>2. i + 1 \in 1..Len(s) /\ s[i + 1] = x
    BY <1>0, <2>1
  <2> QED BY <2>2, SetOfSeq
<1> QED BY <1>1, <1>2, <1>3

LEMMA BackOf ==
  ASSUME NEW S, NEW s \in Seq(S), NEW t \in Seq(S), Len(s) = Len(t) + 1,
         \A i \in 1..Len(t) : t[i] = s[i]
  PROVE  ToSet(s) = ToSet(t) \cup {s[Len(t) + 1]}
<1>0. Len(t) \in Nat
  OBVIOUS
<1>1. ASSUME NEW x \in ToSet(s) PROVE x = s[Len(t) + 1] \/ x \in ToSet(t)
  <2>1. PICK i \in 1..Len(s) : s[i] = x
    BY <1>1, SetOfSeq
  <2>2. CASE i # Len(t) + 1
    <3>1. i \in 1..Len(t) /\ t[i] = x
      BY <1>0, <2>1, <2>2
    <3> QED BY <3>1, SetOfSeq
  <2> QED BY <2>1, <2>2
<1>2. s[Len(t) + 1] \in ToSet(s)
  BY <1>0, SetOfSeq
<1>3. ASSUME NEW x \in ToSet(t) PROVE x \in ToSet(s)
  <2>1. PICK i \in 1..Len(t) : t[i] = x
    BY <1>3, SetOfSeq
  <2>2. i \in 1..Len(s) /\ s[i] = x
    BY <1>0, <2>1
  <2> QED BY <2>2, SetOfSeq
<1> QED BY <1>1, <1>2, <1>3

LEMMA TailOfSeq ==
  ASSUME NEW S, NEW s \in Seq(S), s # <<>>
  PROVE  /\ Tail(s) \in Seq(S) /\ Len(Tail(s)) = Len(s) - 1 /\ Head(s) \in S
         /\ Len(s) \in Nat \ {0} /\ Head(s) = s[1]
         /\ \A i \in 1..Len(Tail(s)) : Tail(s)[i] = s[i + 1]
         /\ ToSet(s) = {Head(s)} \cup ToSet(Tail(s))
<1> DEFINE t == Tail(s)
<1>1. /\ t \in Seq(S) /\ Len(t) = Len(s) - 1 /\ Head(s) \in S
      /\ Len(s) \in Nat \ {0} /\ Head(s) = s[1]
      /\ \A i \in 1..Len(t) : t[i] = s[i + 1]
  OBVIOUS
<1> HIDE DEF t
<1>2. ToSet(s) = {s[1]} \cup ToSet(t)
  BY <1>1, FrontOf
<1> QED BY <1>1, <1>2 DEF t

LEMMA AppendedSeq ==
  ASSUME NEW S, NEW s \in Seq(S), NEW e \in S
  PROVE  /\ Append(s, e) \in Seq(S) /\ Len(Append(s, e)) = Len(s) + 1
         /\ Append(s, e) # <<>> /\ Append(s, e)[Len(s) + 1] = e
         /\ \A i \in 1..Len(s) : Append(s, e)[i] = s[i]
         /\ ToSet(Append(s, e)) = ToSet(s) \cup {e}
<1> DEFINE t == Append(s, e)
<1>1. /\ t \in Seq(S) /\ Len(t) = Len(s) + 1 /\ t # <<>> /\ t[Len(s) + 1] = e
      /\ \A i \in 1..Len(s) : t[i] = s[i]
  OBVIOUS
<1> HIDE DEF t
<1>2. ToSet(t) = ToSet(s) \cup {t[Len(s) + 1]}
  BY <1>1, BackOf
<1> QED BY <1>1, <1>2 DEF t

(* The orders in which a set can be gone through.                          *)
LEMMA OrderedSet ==
  ASSUME NEW S, IsFiniteSet(S), NEW order \in SetToSeqs(S)
  PROVE  order \in Seq(S)
BY FS_CardinalityType DEF SetToSeqs

---------------------------------------------------------------------------
(* The repair at work and its guard: what an earlier guard still starts is *)
(* under another number, and a guard alone stays alone.                    *)
Own ==
  /\ repair # NoRepair => count \in Repairs /\ background[count] = <<>>
  /\ \A n \in Repairs : n > count => background[n] = <<>>
  /\ repair # NoRepair /\ repair.alone => \A n \in Repairs : background[n] = <<>>
  /\ repair.phase \in {"query", "rename", "sweep", "delete"} => repair.guard # <<>>

RepairRecord ==
  [kind : Kinds \cup {"none"}, phase : Phases,
   svcs : Seq(Services), targets : Seq(Services),
   guard : Seq(Services), toStart : Seq(Services),
   down : SUBSET Services, pending : SUBSET Services,
   dirs : Seq(ToSet(Folders)), renamed : Seq(ToSet(Folders) \X Places),
   alone : BOOLEAN, before : [ToSet(Folders) -> Places]]

Fits(r) ==
  /\ r \in RepairRecord
  /\ r.phase \in {"list", "stop", "query"} => r.svcs # <<>>
  /\ r.phase \in {"stop", "query"} => r.targets # <<>>
  /\ r.phase \in {"start", "check"} => Len(r.toStart) \in 1..Len(r.guard)

Machine ==
  /\ state \in [Services -> States]
  /\ downed \in SUBSET Services /\ refused \in SUBSET Services

Around ==
  /\ world \in World /\ alive \in BOOLEAN
  /\ folder \in [ToSet(Folders) -> Places]
  /\ count \in 0..MaxRepairs
  /\ background \in [Repairs -> Seq(Services)]
  /\ sweeping \subseteq Repairs
  /\ report \in {"none", "done", "failed", "unchanged", "cancelled"}

LEMMA TypeIs == TypeOK <=> Around /\ Machine /\ Fits(repair)
BY DEF TypeOK, Around, Machine, Fits, RepairRecord

LEMMA NoRepairFits ==
  /\ Fits(NoRepair) /\ NoRepair.phase = "none" /\ NoRepair.guard = <<>>
  /\ NoRepair.toStart = <<>>
BY DEF Fits, NoRepair, RepairRecord, Phases, Places

LEMMA AtWork == repair.phase # "none" => repair # NoRepair
BY NoRepairFits

(* What Windows answers.                                                   *)
LEMMA MachineStops ==
  ASSUME Machine, NEW s \in Services, NetStop(s) PROVE Machine'
BY DEF Machine, NetStop, States

LEMMA MachineStarts ==
  ASSUME Machine, NEW s \in Services, NetStart(s) PROVE Machine'
BY ServicesAssumption DEF Machine, NetStart, States

(* The steps a repair takes.                                               *)
LEMMA DropKeeps ==
  ASSUME TypeOK, Own, repair # NoRepair, UNCHANGED <<world, alive, count>>,
         NEW how \in {"failed", "unchanged", "cancelled"}, Dropped(how),
         folder' \in [ToSet(Folders) -> Places], sweeping' \subseteq Repairs, Machine'
  PROVE  TypeOK' /\ Own'
<1>1. Around /\ Fits(repair) /\ count \in Repairs /\ repair.guard \in Seq(Services)
  BY TypeIs DEF Own, Fits, RepairRecord
<1>2. Reverse(repair.guard) \in Seq(Services)
  BY <1>1, ReversedSeq
<1>3. /\ background' \in [Repairs -> Seq(Services)] /\ repair' = NoRepair /\ report' = how
      /\ \A n \in Repairs \ {count} : background'[n] = background[n]
  BY <1>1, <1>2 DEF Dropped, Around
<1>4. Around'
  BY <1>1, <1>3 DEF Around
<1>5. Fits(repair)'
  BY <1>3, NoRepairFits DEF Fits
<1>6. Own'
  BY <1>1, <1>3, NoRepairFits DEF Own, Repairs
<1> QED BY <1>4, <1>5, <1>6, TypeIs DEF TypeOK, Around, Machine, Fits, RepairRecord

LEMMA StartOf ==
  ASSUME Fits(repair), repair.guard # <<>>
  PROVE  /\ Fits(ToStart) /\ ToStart # NoRepair /\ ToStart.phase = "start"
         /\ ToStart.guard = repair.guard /\ ToStart.alone = repair.alone
         /\ ToStart.toStart = Reverse(repair.guard) /\ ToStart.renamed = repair.renamed
         /\ ToStart.before = repair.before /\ ToStart.down = repair.down
<1> DEFINE order == Reverse(repair.guard)
<1>1. repair \in RepairRecord /\ repair.guard \in Seq(Services)
  BY DEF Fits, RepairRecord
<1>2. order \in Seq(Services) /\ Len(order) = Len(repair.guard)
  BY <1>1, ReversedSeq
<1>3. Len(repair.guard) \in Nat \ {0}
  BY <1>1, TailOfSeq
<1>4. ToStart = [repair EXCEPT !.phase = "start", !.toStart = order]
  BY DEF ToStart, StartOrder
<1> HIDE DEF order
<1>5. /\ ToStart \in RepairRecord /\ ToStart.phase = "start" /\ ToStart.toStart = order
      /\ ToStart.guard = repair.guard /\ ToStart.alone = repair.alone
      /\ ToStart.renamed = repair.renamed /\ ToStart.before = repair.before
      /\ ToStart.down = repair.down
  BY <1>1, <1>2, <1>4 DEF RepairRecord, Phases
<1>6. Len(order) \in 1..Len(ToStart.guard)
  BY <1>2, <1>3, <1>5
<1>7. Fits(ToStart)
  BY <1>5, <1>6 DEF Fits
<1> QED BY <1>5, <1>7, NoRepairFits DEF order

(* A step of the repair at work that leaves the guards as they are.        *)
LEMMA WorkKeeps ==
  ASSUME TypeOK, Own, repair # NoRepair, UNCHANGED <<world, alive, count, background>>,
         folder' \in [ToSet(Folders) -> Places], sweeping' \subseteq Repairs, Machine',
         Fits(repair'), repair'.alone = repair.alone,
         report' \in {"none", "done", "failed", "unchanged", "cancelled"},
         repair'.phase \in {"query", "rename", "sweep", "delete"} => repair'.guard # <<>>
  PROVE  TypeOK' /\ Own'
<1>1. Around
  BY TypeIs
<1>2. Around'
  BY <1>1 DEF Around
<1>3. Own'
  BY DEF Own
<1> QED BY <1>2, <1>3, TypeIs DEF TypeOK, Around, Machine, Fits, RepairRecord

LEMMA OverKeeps ==
  ASSUME TypeOK, Own, repair' = NoRepair, UNCHANGED <<world, alive, count, background>>,
         folder' = folder, sweeping' = sweeping, Machine',
         report' \in {"none", "done", "failed", "unchanged", "cancelled"}
  PROVE  TypeOK' /\ Own'
<1>1. Around
  BY TypeIs
<1>2. Around'
  BY <1>1 DEF Around
<1>3. Own'
  BY NoRepairFits DEF Own
<1>4. Fits(repair')
  BY NoRepairFits
<1> QED BY <1>2, <1>3, <1>4, TypeIs DEF TypeOK, Around, Machine, Fits, RepairRecord

LEMMA ListDependentsType ==
  ASSUME TypeOK, Own, ListDependents PROVE TypeOK' /\ Own'
<1>1. repair # NoRepair /\ Around /\ Machine /\ Fits(repair)
  BY TypeIs, AtWork DEF ListDependents
<1>2. Machine' /\ folder' \in [ToSet(Folders) -> Places] /\ sweeping' \subseteq Repairs
  BY <1>1 DEF ListDependents, windows, history, Machine, Around
<1>3. CASE Dropped("failed")
  BY <1>1, <1>2, <1>3, DropKeeps DEF ListDependents
<1>4. ASSUME NEW order \in SetToSeqs(RunningDependents(Head(repair.svcs))),
             repair' = [repair EXCEPT !.phase = "stop",
                                      !.targets = Append(order, Head(repair.svcs))],
             UNCHANGED <<background, report>>
      PROVE  TypeOK' /\ Own'
  <2> DEFINE targets == Append(order, Head(repair.svcs))
  <2>1. repair \in RepairRecord /\ repair.svcs \in Seq(Services) /\ repair.svcs # <<>>
    BY <1>1 DEF Fits, RepairRecord, ListDependents
  <2>2. Head(repair.svcs) \in Services
    BY <2>1, TailOfSeq
  <2>3. RunningDependents(Head(repair.svcs)) \subseteq Services
    BY DEF RunningDependents, Dependents
  <2>4. IsFiniteSet(RunningDependents(Head(repair.svcs)))
    BY <2>3, ServicesAssumption, FS_Subset
  <2>5. order \in Seq(Services)
    BY <2>3, <2>4, OrderedSet
  <2>6. targets \in Seq(Services) /\ targets # <<>>
    BY <2>2, <2>5, AppendedSeq
  <2>7. repair' = [repair EXCEPT !.phase = "stop", !.targets = targets]
    BY <1>4
  <2> HIDE DEF targets
  <2>8. /\ repair' \in RepairRecord /\ repair'.phase = "stop" /\ repair'.svcs = repair.svcs
        /\ repair'.targets = targets /\ repair'.alone = repair.alone
    BY <2>1, <2>6, <2>7 DEF RepairRecord, Phases
  <2>9. Fits(repair')
    BY <2>1, <2>6, <2>8 DEF Fits
  <2>10. report' \in {"none", "done", "failed", "unchanged", "cancelled"}
    BY <1>1, <1>4 DEF Around
  <2> QED BY <1>1, <1>2, <1>4, <2>8, <2>9, <2>10, WorkKeeps DEF ListDependents
<1> QED BY <1>3, <1>4 DEF ListDependents

LEMMA StopOneType ==
  ASSUME TypeOK, Own, StopOne PROVE TypeOK' /\ Own'
<1> DEFINE s == Head(repair.targets)
<1>1. repair # NoRepair /\ Around /\ Machine /\ Fits(repair)
  BY TypeIs, AtWork DEF StopOne
<1>2. /\ repair \in RepairRecord /\ repair.guard \in Seq(Services)
      /\ repair.targets \in Seq(Services) /\ repair.targets # <<>> /\ repair.svcs # <<>>
  BY <1>1 DEF Fits, RepairRecord, StopOne
<1>3. s \in Services
  BY <1>2, TailOfSeq
<1>4. Machine'
  BY <1>1, <1>3, MachineStops DEF StopOne
<1> DEFINE guard == Append(repair.guard, s)
<1>5. guard \in Seq(Services) /\ guard # <<>>
  BY <1>2, <1>3, AppendedSeq
<1>6. repair' = [repair EXCEPT !.phase = "query", !.guard = guard]
  BY DEF StopOne
<1> HIDE DEF guard, s
<1>7. /\ repair' \in RepairRecord /\ repair'.phase = "query" /\ repair'.svcs = repair.svcs
      /\ repair'.targets = repair.targets /\ repair'.alone = repair.alone
      /\ repair'.guard = guard
  BY <1>2, <1>5, <1>6 DEF RepairRecord, Phases
<1>8. Fits(repair')
  BY <1>2, <1>7 DEF Fits
<1>9. UNCHANGED <<world, alive, folder, count, background, sweeping, report>>
  BY DEF StopOne
<1>10. /\ report' \in {"none", "done", "failed", "unchanged", "cancelled"}
       /\ folder' \in [ToSet(Folders) -> Places] /\ sweeping' \subseteq Repairs
  BY <1>1, <1>9 DEF Around
<1> QED BY <1>1, <1>4, <1>5, <1>7, <1>8, <1>9, <1>10, WorkKeeps

LEMMA NextTargetType ==
  ASSUME TypeOK, Own, NextTarget PROVE TypeOK' /\ Own'
<1> DEFINE targets == Tail(repair.targets)
           svcs == IF targets = <<>> THEN Tail(repair.svcs) ELSE repair.svcs
           phase == IF targets # <<>> THEN "stop"
                    ELSE IF svcs # <<>> THEN "list" ELSE Work(repair.kind)
<1>1. repair # NoRepair /\ Around /\ Machine /\ Fits(repair) /\ count \in Repairs
  BY TypeIs, AtWork DEF NextTarget, Own
<1>2. /\ repair \in RepairRecord /\ repair.svcs \in Seq(Services) /\ repair.svcs # <<>>
      /\ repair.targets \in Seq(Services) /\ repair.targets # <<>> /\ repair.guard # <<>>
  BY <1>1 DEF Fits, RepairRecord, NextTarget, Own
<1>3. targets \in Seq(Services)
  BY <1>2, TailOfSeq
<1>4. svcs \in Seq(Services)
  BY <1>2, TailOfSeq
<1>5. targets # <<>> => svcs # <<>>
  BY <1>2
<1>6. repair' = [repair EXCEPT !.targets = targets, !.svcs = svcs, !.phase = phase]
  BY DEF NextTarget
<1>7. /\ phase \in {"stop", "list", "sweep", "rename", "delete"}
      /\ phase = "stop" => targets # <<>> /\ svcs # <<>>
      /\ phase = "list" => svcs # <<>>
  BY <1>5 DEF Work
<1> HIDE DEF targets, svcs, phase
<1>8. /\ repair' \in RepairRecord /\ repair'.phase = phase /\ repair'.svcs = svcs
      /\ repair'.targets = targets /\ repair'.alone = repair.alone
      /\ repair'.guard = repair.guard
  BY <1>2, <1>3, <1>4, <1>6, <1>7 DEF RepairRecord, Phases
<1>9. Fits(repair')
  BY <1>7, <1>8 DEF Fits
<1>10. UNCHANGED <<world, alive, windows, count, background, report, history>>
  BY DEF NextTarget
<1>11. sweeping' \subseteq Repairs
  BY <1>1 DEF NextTarget, Around
<1>12. /\ report' \in {"none", "done", "failed", "unchanged", "cancelled"}
       /\ folder' \in [ToSet(Folders) -> Places] /\ Machine'
  BY <1>1, <1>10 DEF Around, Machine, windows, history
<1> QED BY <1>1, <1>2, <1>8, <1>9, <1>10, <1>11, <1>12, WorkKeeps

LEMMA StartOneType ==
  ASSUME TypeOK, Own, StartOne PROVE TypeOK' /\ Own'
<1>1. repair # NoRepair /\ Around /\ Machine /\ Fits(repair)
  BY TypeIs, AtWork DEF StartOne
<1>2. /\ repair \in RepairRecord /\ repair.toStart \in Seq(Services)
      /\ repair.guard \in Seq(Services) /\ Len(repair.toStart) \in 1..Len(repair.guard)
  BY <1>1 DEF Fits, RepairRecord, StartOne
<1>3. repair.toStart # <<>>
  BY <1>2
<1>4. Head(repair.toStart) \in Services
  BY <1>2, <1>3, TailOfSeq
<1>5. Machine'
  BY <1>1, <1>4, MachineStarts DEF StartOne
<1>6. repair' = [repair EXCEPT !.phase = "check"]
  BY DEF StartOne
<1>7. /\ repair' \in RepairRecord /\ repair'.phase = "check"
      /\ repair'.toStart = repair.toStart /\ repair'.alone = repair.alone
      /\ repair'.guard = repair.guard
  BY <1>2, <1>6 DEF RepairRecord, Phases
<1>8. Fits(repair')
  BY <1>2, <1>7 DEF Fits
<1>9. UNCHANGED <<world, alive, folder, count, background, sweeping, report>>
  BY DEF StartOne
<1>10. /\ report' \in {"none", "done", "failed", "unchanged", "cancelled"}
       /\ folder' \in [ToSet(Folders) -> Places] /\ sweeping' \subseteq Repairs
  BY <1>1, <1>9 DEF Around
<1> QED BY <1>1, <1>5, <1>7, <1>8, <1>9, <1>10, WorkKeeps

LEMMA CheckStartedType ==
  ASSUME TypeOK, Own, CheckStarted PROVE TypeOK' /\ Own'
<1> DEFINE s == Head(repair.toStart)
           down == repair.down \cup IF state[s] \in {"running", "starting"} THEN {} ELSE {s}
           pending == repair.pending \cup IF state[s] = "starting" THEN {s} ELSE {}
           rest == Tail(repair.toStart)
<1>1. repair # NoRepair /\ Around /\ Machine /\ Fits(repair)
  BY TypeIs, AtWork DEF CheckStarted
<1>2. /\ repair \in RepairRecord /\ repair.toStart \in Seq(Services)
      /\ repair.guard \in Seq(Services) /\ Len(repair.toStart) \in 1..Len(repair.guard)
      /\ repair.down \subseteq Services /\ repair.pending \subseteq Services
  BY <1>1 DEF Fits, RepairRecord, CheckStarted
<1>3. repair.toStart # <<>>
  BY <1>2
<1>4. /\ s \in Services /\ rest \in Seq(Services) /\ Len(rest) = Len(repair.toStart) - 1
  BY <1>2, <1>3, TailOfSeq
<1>5. down \subseteq Services /\ pending \subseteq Services
  BY <1>2, <1>4
<1>6. UNCHANGED <<world, alive, windows, count, background, sweeping, history>>
  BY DEF CheckStarted
<1>7. /\ folder' \in [ToSet(Folders) -> Places] /\ sweeping' \subseteq Repairs /\ Machine'
  BY <1>1, <1>6 DEF Around, Machine, windows, history
<1>8. CASE Len(repair.toStart) > 1
  <2>1. /\ repair' = [repair EXCEPT !.phase = "start", !.toStart = rest,
                                    !.down = down, !.pending = pending]
        /\ UNCHANGED report
    BY <1>8 DEF CheckStarted
  <2>2. Len(rest) \in 1..Len(repair.guard)
    <3>1. Len(repair.guard) \in Nat
      BY <1>2
    <3> QED BY ONLY <1>2, <1>4, <1>8, <3>1
  <2> HIDE DEF rest, down, pending
  <2>3. /\ repair' \in RepairRecord /\ repair'.phase = "start"
        /\ repair'.toStart = rest /\ repair'.alone = repair.alone
        /\ repair'.guard = repair.guard
    BY <1>2, <1>4, <1>5, <2>1 DEF RepairRecord, Phases
  <2>4. Fits(repair')
    BY <2>2, <2>3 DEF Fits
  <2>5. report' \in {"none", "done", "failed", "unchanged", "cancelled"}
    BY <1>1, <2>1 DEF Around
  <2> QED BY <1>1, <1>6, <1>7, <2>3, <2>4, <2>5, WorkKeeps
<1>9. CASE ~(Len(repair.toStart) > 1)
  <2>1. repair' = NoRepair /\ report' \in {"done", "failed"}
    BY <1>9 DEF CheckStarted
  <2> QED BY <1>6, <1>7, <2>1, OverKeeps DEF windows
<1> QED BY <1>8, <1>9

LEMMA StartRepairType ==
  ASSUME TypeOK, Own, NEW kind \in Kinds, StartRepair(kind) PROVE TypeOK' /\ Own'
<1> DEFINE svcs == IF kind = "queue" THEN <<Spooler>> ELSE UpdateServices
           alone == \A n \in Repairs : background[n] = <<>>
<1>1. Around /\ Machine /\ Fits(NoRepair) /\ NoRepair \in RepairRecord
  BY TypeIs, NoRepairFits DEF Fits
<1>2. /\ svcs \in Seq(Services) /\ svcs # <<>>
  BY ServicesAssumption
<1>3. alone \in BOOLEAN
  OBVIOUS
<1>4. repair' = [NoRepair EXCEPT !.kind = kind, !.phase = "list", !.svcs = svcs,
                                 !.dirs = Folders, !.before = folder, !.alone = alone]
  BY DEF StartRepair
<1>5. Folders \in Seq(ToSet(Folders)) /\ folder \in [ToSet(Folders) -> Places]
  BY <1>1, ServicesAssumption DEF Around
<1> HIDE DEF svcs, alone
<1>6. /\ repair' \in RepairRecord /\ repair'.phase = "list" /\ repair'.svcs = svcs
      /\ repair'.alone = alone
  BY <1>1, <1>2, <1>3, <1>4, <1>5 DEF RepairRecord, Phases
<1>7. Fits(repair')
  BY <1>2, <1>6 DEF Fits
<1>8. /\ count < MaxRepairs /\ count' = count + 1 /\ report' = "none"
      /\ UNCHANGED <<world, alive, windows, background, sweeping, history>>
  BY DEF StartRepair
<1>9. count' \in Repairs /\ count' > count /\ count' \in 0..MaxRepairs /\ count \in Nat
  BY <1>1, <1>8, WorldsAssumption DEF Around, Repairs
<1>10. Around'
  BY <1>1, <1>8, <1>9 DEF Around, windows
<1>11. Machine'
  BY <1>1, <1>8 DEF Machine, windows, history
<1>12. \A n \in Repairs : n >= count' => background[n] = <<>>
  BY <1>8, <1>9 DEF Own, Repairs
<1>13. Own'
  BY <1>6, <1>8, <1>9, <1>12 DEF Own, alone, Repairs
<1> QED BY <1>7, <1>10, <1>11, <1>13, TypeIs DEF TypeOK, Around, Machine, Fits, RepairRecord

LEMMA BackgroundStartsType ==
  ASSUME TypeOK, Own, NEW n \in Repairs, BackgroundStarts(n) PROVE TypeOK' /\ Own'
<1> DEFINE left == Tail(background[n])
<1>1. Around /\ Machine /\ Fits(repair)
  BY TypeIs
<1>2. background[n] \in Seq(Services) /\ background[n] # <<>>
  BY <1>1 DEF Around, BackgroundStarts
<1>3. Head(background[n]) \in Services /\ left \in Seq(Services)
  BY <1>2, TailOfSeq
<1>4. Machine'
  BY <1>1, <1>3, MachineStarts DEF BackgroundStarts
<1>5. background' = [background EXCEPT ![n] = left]
  BY DEF BackgroundStarts
<1>6. UNCHANGED <<world, alive, folder, count, repair, sweeping, report>>
  BY DEF BackgroundStarts
<1> HIDE DEF left
<1>7. Around'
  BY <1>1, <1>3, <1>5, <1>6 DEF Around
<1>8. /\ \A m \in Repairs : background[m] = <<>> => background'[m] = background[m]
  BY <1>1, <1>2, <1>5 DEF Around
<1>9. Own'
  BY <1>6, <1>8 DEF Own
<1> QED BY <1>1, <1>4, <1>6, <1>7, <1>9, TypeIs DEF TypeOK, Around, Machine, Fits, RepairRecord

LEMMA SweepEndsType ==
  ASSUME TypeOK, Own, NEW n \in Repairs, SweepEnds(n) PROVE TypeOK' /\ Own'
<1>1. Around /\ Machine /\ Fits(repair)
  BY TypeIs
<1>2. UNCHANGED <<world, alive, windows, count, history>> /\ sweeping' \subseteq Repairs
  BY <1>1 DEF SweepEnds, Around
<1>3. /\ Machine' /\ folder' \in [ToSet(Folders) -> Places]
      /\ report \in {"none", "done", "failed", "unchanged", "cancelled"}
  BY <1>1, <1>2 DEF Machine, Around, windows, history
<1>4. CASE repair.phase = "sweep" /\ n = count
  <2>1. repair # NoRepair /\ repair.guard # <<>>
    BY <1>4, AtWork DEF Own
  <2>2. CASE repair' = ToStart /\ UNCHANGED <<background, report>>
    <3>1. Fits(repair') /\ repair'.phase = "start" /\ repair'.alone = repair.alone
      BY <1>1, <2>1, <2>2, StartOf
    <3> QED BY <1>2, <1>3, <2>1, <2>2, <3>1, WorkKeeps
  <2>3. CASE Dropped("failed")
    BY <1>2, <1>3, <2>1, <2>3, DropKeeps
  <2> QED BY <1>4, <2>2, <2>3 DEF SweepEnds
<1>5. CASE ~(repair.phase = "sweep" /\ n = count)
  <2>1. UNCHANGED <<repair, background, report>>
    BY <1>5 DEF SweepEnds
  <2>2. Around'
    BY <1>1, <1>2, <2>1 DEF Around, windows
  <2>3. Own'
    BY <1>2, <2>1 DEF Own
  <2> QED BY <1>1, <1>3, <2>1, <2>2, <2>3, TypeIs DEF TypeOK, Around, Machine, Fits, RepairRecord
<1> QED BY <1>4, <1>5

LEMMA RenameFolderType ==
  ASSUME TypeOK, Own, RenameFolder PROVE TypeOK' /\ Own'
<1>1. /\ repair # NoRepair /\ Around /\ Machine /\ Fits(repair) /\ repair.guard # <<>>
      /\ repair \in RepairRecord
  BY TypeIs, AtWork DEF RenameFolder, Own, Fits
<1>2. UNCHANGED <<world, alive, state, count, background, sweeping, report, history>>
  BY DEF RenameFolder
<1>3. /\ Machine' /\ sweeping' \subseteq Repairs
      /\ report' \in {"none", "done", "failed", "unchanged", "cancelled"}
  BY <1>1, <1>2 DEF Machine, Around, history
<1>4. CASE repair.dirs = <<>>
  <2>1. repair' = ToStart /\ UNCHANGED folder
    BY <1>4 DEF RenameFolder
  <2>2. Fits(repair') /\ repair'.phase = "start" /\ repair'.alone = repair.alone
    BY <1>1, <2>1, StartOf
  <2>3. folder' \in [ToSet(Folders) -> Places]
    BY <1>1, <2>1 DEF Around
  <2> QED BY <1>1, <1>2, <1>3, <2>2, <2>3, WorkKeeps
<1>5. CASE repair.dirs # <<>>
  <2> DEFINE f == Head(repair.dirs)
             dirs == Tail(repair.dirs)
             renamed == Append(repair.renamed, <<f, folder[f]>>)
  <2>1. /\ repair.dirs \in Seq(ToSet(Folders))
        /\ repair.renamed \in Seq(ToSet(Folders) \X Places)
    BY <1>1 DEF RepairRecord
  <2>2. f \in ToSet(Folders) /\ dirs \in Seq(ToSet(Folders))
    BY <1>5, <2>1, TailOfSeq
  <2>3. folder[f] \in Places
    BY <1>1, <2>2 DEF Around
  <2>4. renamed \in Seq(ToSet(Folders) \X Places)
    <3>1. <<f, folder[f]>> \in ToSet(Folders) \X Places
      BY <2>2, <2>3
    <3> QED BY <2>1, <3>1, AppendedSeq
  <2>5. CASE folder[f] = "away"
    <3>1. repair' = [repair EXCEPT !.dirs = dirs] /\ UNCHANGED folder
      BY <1>5, <2>5 DEF RenameFolder
    <3> HIDE DEF f, dirs, renamed
    <3>2. /\ repair' \in RepairRecord /\ repair'.phase = repair.phase
          /\ repair'.alone = repair.alone /\ repair'.guard = repair.guard
          /\ repair'.svcs = repair.svcs /\ repair'.targets = repair.targets
          /\ repair'.toStart = repair.toStart
      BY <1>1, <2>2, <3>1 DEF RepairRecord
    <3>3. Fits(repair')
      BY <1>1, <3>2 DEF Fits
    <3>4. folder' \in [ToSet(Folders) -> Places]
      BY <1>1, <3>1 DEF Around
    <3> QED BY <1>1, <1>2, <1>3, <3>2, <3>3, <3>4, WorkKeeps
  <2>6. CASE folder[f] # "away"
    <3>1. /\ folder' = [folder EXCEPT ![f] = "away"]
          /\ repair' = [repair EXCEPT !.dirs = dirs, !.renamed = renamed]
      BY <1>5, <2>6 DEF RenameFolder
    <3> HIDE DEF f, dirs, renamed
    <3>2. /\ repair' \in RepairRecord /\ repair'.phase = repair.phase
          /\ repair'.alone = repair.alone /\ repair'.guard = repair.guard
          /\ repair'.svcs = repair.svcs /\ repair'.targets = repair.targets
          /\ repair'.toStart = repair.toStart
      BY <1>1, <2>2, <2>4, <3>1 DEF RepairRecord
    <3>3. Fits(repair')
      BY <1>1, <3>2 DEF Fits
    <3>4. folder' \in [ToSet(Folders) -> Places]
      BY <1>1, <2>2, <3>1 DEF Around, Places
    <3> QED BY <1>1, <1>2, <1>3, <3>2, <3>3, <3>4, WorkKeeps
  <2> QED BY <2>5, <2>6
<1> QED BY <1>4, <1>5

LEMMA RenameFailsType ==
  ASSUME TypeOK, Own, RenameFails PROVE TypeOK' /\ Own'
<1>1. /\ repair # NoRepair /\ Around /\ Machine /\ Fits(repair) /\ repair \in RepairRecord
  BY TypeIs, AtWork DEF RenameFails, Fits
<1>2. PICK kept \in 0..Len(repair.renamed) :
        LET back == {repair.renamed[i] : i \in (kept + 1)..Len(repair.renamed)}
        IN  /\ \A p \in back : folder[p[1]] = "away"
            /\ folder' = [f \in DOMAIN folder |->
                            IF \E p \in back : p[1] = f
                              THEN (CHOOSE p \in back : p[1] = f)[2] ELSE folder[f]]
            /\ Dropped(IF kept = 0 THEN "unchanged" ELSE "failed")
  BY DEF RenameFails
<1> DEFINE back == {repair.renamed[i] : i \in (kept + 1)..Len(repair.renamed)}
<1>3. repair.renamed \in Seq(ToSet(Folders) \X Places)
  BY <1>1 DEF RepairRecord
<1>4. \A p \in back : p \in ToSet(Folders) \X Places
  <2>1. \A i \in (kept + 1)..Len(repair.renamed) : i \in 1..Len(repair.renamed)
    BY <1>3
  <2> QED BY <1>3, <2>1
<1>5. folder' = [f \in DOMAIN folder |->
                   IF \E p \in back : p[1] = f
                     THEN (CHOOSE p \in back : p[1] = f)[2] ELSE folder[f]]
  BY <1>2
<1>6. PICK how \in {"failed", "unchanged", "cancelled"} : Dropped(how)
  BY <1>2
<1> HIDE DEF back
<1>7. ASSUME NEW f \in ToSet(Folders), \E p \in back : p[1] = f
      PROVE  (CHOOSE p \in back : p[1] = f)[2] \in Places
  <2>1. (CHOOSE p \in back : p[1] = f) \in back
    BY <1>7
  <2> QED BY <1>4, <2>1
<1>8. folder' \in [ToSet(Folders) -> Places]
  BY <1>1, <1>5, <1>7 DEF Around
<1>9. UNCHANGED <<world, alive, state, count, sweeping, history>>
  BY DEF RenameFails
<1>10. Machine' /\ sweeping' \subseteq Repairs
  BY <1>1, <1>9 DEF Machine, Around, history
<1> QED BY <1>1, <1>6, <1>8, <1>9, <1>10, DropKeeps

LEMMA TypeStep == TypeOK /\ Own /\ [Next]_vars => TypeOK' /\ Own'
<1> SUFFICES ASSUME TypeOK, Own, [Next]_vars PROVE TypeOK' /\ Own'
  OBVIOUS
<1>1. Around /\ Machine /\ Fits(repair)
  BY TypeIs
<1>2. ASSUME NEW how \in {"failed", "cancelled"}, repair # NoRepair, Dropped(how),
             UNCHANGED <<world, alive, windows, count, sweeping, history>>
      PROVE  TypeOK' /\ Own'
  <2>1. Machine' /\ folder' \in [ToSet(Folders) -> Places] /\ sweeping' \subseteq Repairs
    BY <1>1, <1>2 DEF Machine, Around, windows, history
  <2> QED BY <1>2, <2>1, DropKeeps
<1>3. ASSUME NEW s \in Services, HasStopped(s) PROVE TypeOK' /\ Own'
  <2>1. Machine' /\ Around'
    BY <1>1, <1>3 DEF HasStopped, Machine, Around, history, States
  <2>2. Own' /\ repair' = repair
    BY <1>3 DEF HasStopped, Own
  <2> QED BY <1>1, <2>1, <2>2, TypeIs DEF TypeOK, Around, Machine, Fits, RepairRecord
<1>4. ASSUME NEW f \in ToSet(Folders), FolderMadeAnew(f) PROVE TypeOK' /\ Own'
  <2>1. Machine' /\ Around'
    BY <1>1, <1>4 DEF FolderMadeAnew, Machine, Around, history, Places
  <2>2. Own' /\ repair' = repair
    BY <1>4 DEF FolderMadeAnew, Own
  <2> QED BY <1>1, <2>1, <2>2, TypeIs DEF TypeOK, Around, Machine, Fits, RepairRecord
<1>5. CASE DidNotStop
  BY <1>2, <1>5, AtWork DEF DidNotStop
<1>6. CASE NotAnswered
  BY <1>2, <1>6, AtWork DEF NotAnswered
<1>7. CASE Cancel
  BY <1>2, <1>7 DEF Cancel
<1>8. CASE DeleteJobs
  <2>1. repair # NoRepair /\ repair.guard # <<>>
    BY <1>8, AtWork DEF DeleteJobs, Own
  <2>2. UNCHANGED <<world, alive, windows, count, background, sweeping, report, history>>
    BY <1>8 DEF DeleteJobs
  <2>3. repair' = ToStart
    BY <1>8 DEF DeleteJobs
  <2>4. Fits(repair') /\ repair'.phase = "start" /\ repair'.alone = repair.alone
    BY <1>1, <2>1, <2>3, StartOf
  <2>5. /\ Machine' /\ folder' \in [ToSet(Folders) -> Places] /\ sweeping' \subseteq Repairs
        /\ report' \in {"none", "done", "failed", "unchanged", "cancelled"}
    BY <1>1, <2>2 DEF Machine, Around, windows, history
  <2> QED BY <2>1, <2>2, <2>4, <2>5, WorkKeeps
<1>9. CASE ProcessEnds
  <2>0. background' \in [Repairs -> Seq(Services)] /\ sweeping' \subseteq Repairs
    BY <1>9 DEF ProcessEnds
  <2>1. Machine' /\ Around'
    BY <1>1, <1>9, <2>0 DEF ProcessEnds, Machine, Around, windows, history
  <2>2. Own' /\ repair' = repair
    BY <1>9, NoRepairFits DEF ProcessEnds, Own
  <2> QED BY <1>1, <2>1, <2>2, TypeIs DEF TypeOK, Around, Machine, Fits, RepairRecord
<1>10. CASE UNCHANGED vars
  BY <1>10 DEF vars, TypeOK, Own
<1>11. ASSUME NEW s \in Services, HasStarted(s) \/ FailsToStart(s) PROVE TypeOK' /\ Own'
  <2>1. Machine' /\ Around'
    BY <1>1, <1>11 DEF HasStarted, FailsToStart, Machine, Around, States
  <2>2. Own' /\ repair' = repair
    BY <1>11 DEF HasStarted, FailsToStart, Own
  <2> QED BY <1>1, <2>1, <2>2, TypeIs DEF TypeOK, Around, Machine, Fits, RepairRecord
<1> QED BY <1>11, <1>3, <1>4, <1>5, <1>6, <1>7, <1>8, <1>9, <1>10, StartRepairType,
           BackgroundStartsType, SweepEndsType, ListDependentsType, StopOneType,
           NextTargetType, StartOneType, CheckStartedType, RenameFolderType,
           RenameFailsType DEF Next

LEMMA TypeInit == Init => TypeOK /\ Own
<1> SUFFICES ASSUME Init PROVE TypeOK /\ Own
  OBVIOUS
<1>1. Around
  BY WorldsAssumption DEF Init, Around, Places
<1>2. Machine
  BY DEF Init, Machine, States
<1>3. repair = NoRepair /\ \A n \in Repairs : background[n] = <<>>
  BY DEF Init
<1>4. Own
  BY <1>3, NoRepairFits DEF Own
<1> QED BY <1>1, <1>2, <1>3, <1>4, TypeIs, NoRepairFits

---------------------------------------------------------------------------
(* What a step does, as far as the invariants below can tell.              *)
World0 == <<world, state, background, report, downed, refused, count>>

(* The repair stands where it was.                                         *)
Still ==
  /\ repair' = repair /\ UNCHANGED <<world, report, downed, refused>>
  /\ \A s \in Services :
       \/ state'[s] = state[s]
       \/ state[s] = "stopping" /\ state'[s] = "stopped"
  /\ world.ends \/ background' = background
  /\ \A f \in ToSet(Folders) : folder'[f] = "away" => folder[f] = "away"

Ended ==
  /\ repair # NoRepair
  /\ \E how \in {"failed", "unchanged", "cancelled"} : Dropped(how)
  /\ UNCHANGED <<world, state, downed, refused, count>>

Starting ==
  /\ repair.phase \in {"sweep", "rename", "delete"} /\ repair' = ToStart
  /\ UNCHANGED <<World0, folder>>

(* The dependents of the next service are known, and it is the last.       *)
Listing ==
  /\ repair.phase = "list"
  /\ \E order \in SetToSeqs(RunningDependents(Head(repair.svcs))) :
       /\ StopOrder(Head(repair.svcs), order)
       /\ repair' = [repair EXCEPT !.phase = "stop",
                                   !.targets = Append(order, Head(repair.svcs))]
  /\ UNCHANGED <<World0, folder>>

Renaming ==
  /\ repair.phase = "rename" /\ repair.dirs # <<>>
  /\ LET f == Head(repair.dirs)
     IN  \/ /\ folder[f] = "away" /\ UNCHANGED folder
            /\ repair' = [repair EXCEPT !.dirs = Tail(@)]
         \/ /\ folder[f] # "away" /\ folder' = [folder EXCEPT ![f] = "away"]
            /\ repair' = [repair EXCEPT !.dirs = Tail(@),
                                        !.renamed = Append(@, <<f, folder[f]>>)]
  /\ UNCHANGED World0

(* A service that was starting runs now, or is stopped again.              *)
Starts(s) ==
  /\ state[s] = "starting"
  /\ \/ /\ state' = [state EXCEPT ![s] = "running"] /\ downed' = downed \ {s}
        /\ UNCHANGED refused
     \/ /\ state' = [state EXCEPT ![s] = "stopped"] /\ refused' = refused \cup {s}
        /\ UNCHANGED downed
  /\ UNCHANGED <<world, folder, repair, background, report, count>>

Step ==
  \/ \E s \in Services : Starts(s)
  \/ Still \/ Ended \/ Starting \/ Listing \/ Renaming
  \/ \E n \in Repairs : BackgroundStarts(n)
  \/ \E kind \in Kinds : StartRepair(kind)
  \/ StopOne \/ NextTarget \/ StartOne \/ CheckStarted

LEMMA StepIs == TypeOK /\ Own /\ [Next]_vars => Step
<1> SUFFICES ASSUME TypeOK, Own, [Next]_vars PROVE Step
  OBVIOUS
<1>1. Around /\ Machine
  BY TypeIs
<1>2. ASSUME NEW s \in Services, HasStopped(s) PROVE Still
  BY <1>1, <1>2 DEF HasStopped, Still, Machine, history
<1>3. ASSUME NEW f \in ToSet(Folders), FolderMadeAnew(f) PROVE Still
  BY <1>1, <1>3 DEF FolderMadeAnew, Still, Around, history
<1>4. ASSUME NEW n \in Repairs, SweepEnds(n) PROVE Still \/ Ended \/ Starting
  <2>1. UNCHANGED <<world, alive, windows, count, history>>
    BY <1>4 DEF SweepEnds
  <2>2. CASE repair.phase = "sweep" /\ n = count
    <3>1. repair # NoRepair
      BY <2>2, AtWork
    <3>2. CASE Dropped("failed")
      BY <2>1, <3>1, <3>2 DEF Ended, windows, history
    <3>3. CASE repair' = ToStart /\ UNCHANGED <<background, report>>
      BY <2>1, <2>2, <3>3 DEF Starting, World0, windows, history
    <3> QED BY <1>4, <2>2, <3>2, <3>3 DEF SweepEnds
  <2>3. CASE ~(repair.phase = "sweep" /\ n = count)
    <3>1. UNCHANGED <<repair, background, report>>
      BY <1>4, <2>3 DEF SweepEnds
    <3> QED BY <2>1, <3>1 DEF Still, windows, history
  <2> QED BY <2>2, <2>3
<1>5. CASE ListDependents
  <2>1. UNCHANGED <<world, alive, windows, count, sweeping, history>>
    BY <1>5 DEF ListDependents
  <2>2. ASSUME Dropped("failed") PROVE Ended
    BY <1>5, <2>1, <2>2, AtWork DEF ListDependents, Ended, windows, history
  <2>3. ASSUME NEW order \in SetToSeqs(RunningDependents(Head(repair.svcs))),
               StopOrder(Head(repair.svcs), order),
               repair' = [repair EXCEPT !.phase = "stop",
                                        !.targets = Append(order, Head(repair.svcs))],
               UNCHANGED <<background, report>>
        PROVE  Listing
    BY <1>5, <2>1, <2>3 DEF ListDependents, Listing, World0, windows, history
  <2> QED BY <1>5, <2>2, <2>3 DEF ListDependents, Step
<1>6. ASSUME DidNotStop \/ NotAnswered \/ Cancel PROVE Ended
  <2>1. repair # NoRepair
    BY <1>6, AtWork DEF DidNotStop, NotAnswered, Cancel
  <2>2. \E how \in {"failed", "unchanged", "cancelled"} : Dropped(how)
    BY <1>6 DEF DidNotStop, NotAnswered, Cancel
  <2>3. UNCHANGED <<world, windows, count, history>>
    BY <1>6 DEF DidNotStop, NotAnswered, Cancel
  <2> QED BY <2>1, <2>2, <2>3 DEF Ended, windows, history
<1>7. CASE RenameFolder
  BY <1>7 DEF RenameFolder, Step, Starting, Renaming, World0, history
<1>8. CASE RenameFails
  <2>1. repair # NoRepair /\ UNCHANGED <<world, state, count, history>>
    BY <1>8, AtWork DEF RenameFails
  <2>2. \E how \in {"failed", "unchanged", "cancelled"} : Dropped(how)
    BY <1>8 DEF RenameFails
  <2> QED BY <2>1, <2>2 DEF Ended, Step, history
<1>9. CASE DeleteJobs
  BY <1>9 DEF DeleteJobs, Step, Starting, World0, windows, history
<1>10. CASE ProcessEnds
  BY <1>10 DEF ProcessEnds, Step, Still, windows, history
<1>11. CASE UNCHANGED vars
  BY <1>11 DEF vars, Step, Still
<1>12. ASSUME NEW s \in Services, HasStarted(s) \/ FailsToStart(s) PROVE Starts(s)
  BY <1>12 DEF HasStarted, FailsToStart, Starts
<1> QED BY <1>12, <1>2, <1>3, <1>4, <1>5, <1>6, <1>7, <1>8, <1>9, <1>10, <1>11 DEF Next, Step

---------------------------------------------------------------------------
(* Windows: what is not stopped has all it needs running, and without slow *)
(* services none is still stopping.                                        *)
NeedsRun == \A s \in Services : state[s] # "stopped" => \A t \in Needs[s] : state[t] = "running"

NoneLate == ~world.slow => \A s \in Services : state[s] # "stopping"

LEMMA NeedsAre ==
  ASSUME NEW s \in Services
  PROVE  /\ Needs[s] \subseteq Services /\ s \notin Needs[s]
         /\ \A t \in Needs[s] : Needs[t] \subseteq Needs[s] /\ s \notin Needs[t]
BY ServicesAssumption

LEMMA StoppingKeeps ==
  ASSUME Machine, NeedsRun, NoneLate, NEW s \in Services, NetStop(s), world' = world
  PROVE  NeedsRun' /\ NoneLate'
<1>1. CASE UNCHANGED state
  BY <1>1 DEF NeedsRun, NoneLate
<1>2. CASE ~UNCHANGED state
  <2>1. PICK now \in {"stopped"} \cup IF world.slow THEN {"stopping"} ELSE {} :
          /\ state[s] = "running" /\ RunningDependents(s) = {}
          /\ state' = [state EXCEPT ![s] = now]
    BY <1>2 DEF NetStop
  <2>2. \A u \in Services : s \in Needs[u] => state[u] = "stopped"
    BY <2>1 DEF RunningDependents, Dependents
  <2>3. NoneLate'
    BY <2>1 DEF NoneLate, Machine
  <2>4. ASSUME NEW u \in Services, state'[u] # "stopped", NEW t \in Needs[u]
        PROVE  state'[t] = "running"
    <3>1. state[u] # "stopped" /\ t \in Services /\ t # s
      BY <2>1, <2>2, <2>4, NeedsAre DEF Machine
    <3> QED BY <2>1, <3>1 DEF NeedsRun, Machine
  <2> QED BY <2>3, <2>4 DEF NeedsRun
<1> QED BY <1>1, <1>2

LEMMA StartingKeeps ==
  ASSUME Machine, NeedsRun, NoneLate, NEW s \in Services, NetStart(s), world' = world
  PROVE  NeedsRun' /\ NoneLate'
<1> DEFINE up == {s} \cup Needs[s]
<1>1. CASE UNCHANGED state
  BY <1>1 DEF NeedsRun, NoneLate
<1>2. CASE ~UNCHANGED state
  <2>1. CASE state' = [t \in Services |-> IF t \in up THEN "running" ELSE state[t]]
    <3>1. \A t \in up : Needs[t] \subseteq up
      BY NeedsAre
    <3> HIDE DEF up
    <3>2. NoneLate'
      BY <2>1 DEF NoneLate
    <3>3. NeedsRun'
      BY <2>1, <3>1, NeedsAre DEF NeedsRun
    <3> QED BY <3>2, <3>3
  <2>2. CASE /\ state[s] \in {"starting", "stopped"}
             /\ state' = [t \in Services |-> IF t = s THEN "starting"
                                            ELSE IF t \in up THEN "running" ELSE state[t]]
    <3>1. NoneLate'
      BY <2>2 DEF NoneLate
    <3>2. ASSUME NEW u \in Services, state'[u] # "stopped", NEW t \in Needs[u]
          PROVE  state'[t] = "running"
      <4>1. t \in Services /\ t # u
        BY NeedsAre
      <4>2. CASE u \in up
        <5>1. t # s /\ t \in up
          BY <4>1, <4>2, NeedsAre
        <5> QED BY <2>2, <4>1, <5>1
      <4>3. CASE u \notin up
        <5>1. state[u] # "stopped" /\ state[t] = "running"
          BY <2>2, <3>2, <4>3 DEF NeedsRun
        <5> QED BY <2>2, <4>1, <5>1
      <4> QED BY <4>2, <4>3
    <3> QED BY <3>1, <3>2 DEF NeedsRun
  <2> QED BY <1>2, <2>1, <2>2 DEF NetStart
<1> QED BY <1>1, <1>2

LEMMA WindowsStep ==
  TypeOK /\ NeedsRun /\ NoneLate /\ Step => NeedsRun' /\ NoneLate'
<1> SUFFICES ASSUME TypeOK, NeedsRun, NoneLate, Step PROVE NeedsRun' /\ NoneLate'
  OBVIOUS
<1>1. Around /\ Machine /\ Fits(repair) /\ repair \in RepairRecord
  BY TypeIs DEF Fits
<1>2. CASE Still
  <2>1. NoneLate'
    BY <1>1, <1>2 DEF Still, NoneLate
  <2>2. NeedsRun'
    BY <1>1, <1>2, NeedsAre DEF Still, NeedsRun, Machine
  <2> QED BY <2>1, <2>2
<1>3. ASSUME NEW n \in Repairs, BackgroundStarts(n) PROVE NeedsRun' /\ NoneLate'
  <2>1. background[n] \in Seq(Services) /\ background[n] # <<>>
    BY <1>1, <1>3 DEF Around, BackgroundStarts
  <2>2. Head(background[n]) \in Services
    BY <2>1, TailOfSeq
  <2> QED BY <1>1, <1>3, <2>2, StartingKeeps DEF BackgroundStarts
<1>4. CASE StopOne
  <2>1. repair.targets \in Seq(Services) /\ repair.targets # <<>>
    BY <1>1, <1>4 DEF Fits, RepairRecord, StopOne
  <2>2. Head(repair.targets) \in Services
    BY <2>1, TailOfSeq
  <2> QED BY <1>1, <1>4, <2>2, StoppingKeeps DEF StopOne
<1>5. CASE StartOne
  <2>1. repair.toStart \in Seq(Services) /\ repair.toStart # <<>>
    BY <1>1, <1>5 DEF Fits, RepairRecord, StartOne
  <2>2. Head(repair.toStart) \in Services
    BY <2>1, TailOfSeq
  <2> QED BY <1>1, <1>5, <2>2, StartingKeeps DEF StartOne
<1>6. ASSUME UNCHANGED <<world, state>> PROVE NeedsRun' /\ NoneLate'
  BY <1>6 DEF NeedsRun, NoneLate
<1>7. ASSUME NEW s \in Services, Starts(s) PROVE NeedsRun' /\ NoneLate'
  <2>1. NoneLate'
    BY <1>1, <1>7 DEF Starts, NoneLate, Machine
  <2>2. \A u \in Services : s \in Needs[u] => state[u] = "stopped"
    BY <1>7 DEF Starts, NeedsRun
  <2>3. ASSUME NEW u \in Services, state'[u] # "stopped", NEW t \in Needs[u]
        PROVE  state'[t] = "running"
    <3>1. t \in Services /\ state[u] # "stopped"
      BY <1>1, <1>7, <2>3, NeedsAre DEF Starts, Machine
    <3>2. t # s /\ state[t] = "running"
      BY <2>2, <3>1 DEF NeedsRun
    <3> QED BY <1>1, <1>7, <3>1, <3>2 DEF Starts, Machine
  <2> QED BY <2>1, <2>3 DEF NeedsRun
<1> QED BY <1>2, <1>3, <1>4, <1>5, <1>6, <1>7
        DEF Step, Ended, Starting, Listing, Renaming, StartRepair, NextTarget, CheckStarted,
            World0, windows

---------------------------------------------------------------------------
(* What each step makes of the repair.                                     *)
Folding == <<repair.alone, repair.renamed, repair.before>>

LEMMA RepairIs ==
  TypeOK => /\ repair \in RepairRecord /\ Fits(repair)
            /\ repair.guard \in Seq(Services) /\ repair.svcs \in Seq(Services)
            /\ repair.targets \in Seq(Services) /\ repair.toStart \in Seq(Services)
            /\ repair.renamed \in Seq(ToSet(Folders) \X Places)
            /\ repair.alone \in BOOLEAN
BY TypeIs DEF Fits, RepairRecord

LEMMA StartRepairIs ==
  ASSUME TypeOK, NEW kind \in Kinds, StartRepair(kind)
  PROVE  /\ repair'.phase = "list" /\ repair'.guard = <<>> /\ repair'.toStart = <<>>
         /\ repair'.svcs = IF kind = "queue" THEN <<Spooler>> ELSE UpdateServices
         /\ repair'.renamed = <<>> /\ repair'.before = folder
BY DEF StartRepair, NoRepair

LEMMA ListingIs ==
  ASSUME TypeOK, Listing
  PROVE  /\ repair.phase = "list" /\ repair'.phase = "stop" /\ repair'.svcs = repair.svcs
         /\ repair'.guard = repair.guard /\ repair.svcs # <<>> /\ UNCHANGED Folding
         /\ repair'.toStart = repair.toStart
         /\ \E order \in SetToSeqs(RunningDependents(Head(repair.svcs))) :
              /\ StopOrder(Head(repair.svcs), order)
              /\ repair'.targets = Append(order, Head(repair.svcs))
<1>1. repair \in RepairRecord /\ repair.svcs # <<>>
  BY TypeIs DEF Listing, Fits
<1>2. PICK order \in SetToSeqs(RunningDependents(Head(repair.svcs))) :
        /\ StopOrder(Head(repair.svcs), order)
        /\ repair' = [repair EXCEPT !.phase = "stop",
                                    !.targets = Append(order, Head(repair.svcs))]
  BY DEF Listing
<1> DEFINE targets == Append(order, Head(repair.svcs))
<1>3. repair' = [repair EXCEPT !.phase = "stop", !.targets = targets]
  BY <1>2
<1> HIDE DEF targets
<1>4. /\ repair'.phase = "stop" /\ repair'.svcs = repair.svcs
      /\ repair'.guard = repair.guard /\ UNCHANGED Folding
      /\ repair'.toStart = repair.toStart /\ repair'.targets = targets
  BY <1>1, <1>3 DEF RepairRecord, Folding
<1> QED BY <1>1, <1>2, <1>4 DEF Listing, targets

LEMMA StopOneIs ==
  ASSUME TypeOK, StopOne
  PROVE  /\ repair'.phase = "query" /\ repair'.svcs = repair.svcs
         /\ repair'.targets = repair.targets /\ repair'.toStart = repair.toStart
         /\ repair'.guard = Append(repair.guard, Head(repair.targets))
         /\ ToSet(repair'.guard) = ToSet(repair.guard) \cup {Head(repair.targets)}
         /\ Head(repair.targets) \in Services /\ repair.targets # <<>>
         /\ repair.svcs # <<>> /\ UNCHANGED Folding
<1>1. /\ repair \in RepairRecord /\ repair.targets # <<>> /\ repair.svcs # <<>>
      /\ repair.guard \in Seq(Services) /\ repair.targets \in Seq(Services)
  BY RepairIs DEF StopOne, Fits
<1>2. Head(repair.targets) \in Services
  BY <1>1, TailOfSeq
<1> DEFINE guard == Append(repair.guard, Head(repair.targets))
<1>3. ToSet(guard) = ToSet(repair.guard) \cup {Head(repair.targets)}
  BY <1>1, <1>2, AppendedSeq
<1>4. repair' = [repair EXCEPT !.phase = "query", !.guard = guard]
  BY DEF StopOne
<1> HIDE DEF guard
<1>5. /\ repair'.phase = "query" /\ repair'.svcs = repair.svcs
      /\ repair'.targets = repair.targets /\ repair'.toStart = repair.toStart
      /\ repair'.guard = guard /\ UNCHANGED Folding
  BY <1>1, <1>4 DEF RepairRecord, Folding
<1> QED BY <1>1, <1>2, <1>3, <1>5 DEF guard

LEMMA NextTargetIs ==
  ASSUME TypeOK, NextTarget
  PROVE  /\ repair.phase = "query" /\ repair.targets # <<>> /\ repair.svcs # <<>>
         /\ state[Head(repair.targets)] = "stopped"
         /\ repair'.phase \in {"stop", "list", "sweep", "rename", "delete"}
         /\ repair'.guard = repair.guard /\ repair'.toStart = repair.toStart
         /\ UNCHANGED Folding /\ repair'.targets = Tail(repair.targets)
         /\ repair'.phase = "stop" => repair'.targets # <<>> /\ repair'.svcs = repair.svcs
         /\ repair'.svcs \in {repair.svcs, Tail(repair.svcs)}
<1> DEFINE targets == Tail(repair.targets)
           svcs == IF targets = <<>> THEN Tail(repair.svcs) ELSE repair.svcs
           phase == IF targets # <<>> THEN "stop"
                    ELSE IF svcs # <<>> THEN "list" ELSE Work(repair.kind)
<1>1. /\ repair \in RepairRecord /\ repair.targets # <<>> /\ repair.svcs # <<>>
      /\ repair.svcs \in Seq(Services)
  BY RepairIs DEF NextTarget, Fits
<1>2. repair' = [repair EXCEPT !.targets = targets, !.svcs = svcs, !.phase = phase]
  BY DEF NextTarget
<1>3. /\ phase \in {"stop", "list", "sweep", "rename", "delete"}
      /\ phase = "stop" => targets # <<>> /\ svcs = repair.svcs
      /\ svcs \in {repair.svcs, Tail(repair.svcs)}
  BY DEF Work
<1> HIDE DEF targets, svcs, phase
<1>4. /\ repair'.phase = phase /\ repair'.svcs = svcs /\ repair'.targets = targets
      /\ repair'.guard = repair.guard /\ repair'.toStart = repair.toStart
      /\ UNCHANGED Folding
  BY <1>1, <1>2 DEF RepairRecord, Folding
<1>5. targets = Tail(repair.targets)
  BY DEF targets
<1>6. repair.phase = "query" /\ state[Head(repair.targets)] = "stopped"
  BY DEF NextTarget
<1> QED BY <1>1, <1>3, <1>4, <1>5, <1>6

LEMMA StartingIs ==
  ASSUME TypeOK, Own, Starting
  PROVE  /\ repair'.phase = "start" /\ repair'.guard = repair.guard
         /\ repair'.toStart = Reverse(repair.guard) /\ UNCHANGED Folding
         /\ ToSet(repair'.toStart) = ToSet(repair.guard)
<1>1. repair.guard # <<>>
  BY DEF Own, Starting
<1>2. repair' = ToStart
  BY DEF Starting
<1>3. ToSet(Reverse(repair.guard)) = ToSet(repair.guard)
  BY RepairIs, ReversedSeq
<1> QED BY <1>1, <1>2, <1>3, RepairIs, StartOf DEF Folding

LEMMA StartOneIs ==
  ASSUME TypeOK, StartOne
  PROVE  /\ repair'.phase = "check" /\ repair'.guard = repair.guard
         /\ repair'.toStart = repair.toStart /\ UNCHANGED Folding
         /\ repair.toStart # <<>> /\ repair'.down = repair.down
         /\ repair'.pending = repair.pending
<1>1. repair' = [repair EXCEPT !.phase = "check"]
  BY DEF StartOne
<1> QED BY <1>1, RepairIs DEF RepairRecord, Folding, StartOne, Fits

LEMMA CheckStartedIs ==
  ASSUME TypeOK, CheckStarted
  PROVE  /\ repair.phase = "check" /\ repair.toStart # <<>>
         /\ \/ /\ repair' = NoRepair /\ Len(repair.toStart) = 1
               /\ report' = "done" =>
                    repair.down = {} /\ state[Head(repair.toStart)] \in {"running", "starting"}
               /\ report' \in {"done", "failed"}
            \/ /\ repair'.phase = "start" /\ repair'.guard = repair.guard
               /\ repair'.toStart = Tail(repair.toStart) /\ UNCHANGED Folding
               /\ repair'.down = repair.down \cup
                    IF state[Head(repair.toStart)] \in {"running", "starting"} THEN {}
                    ELSE {Head(repair.toStart)}
               /\ repair'.pending = repair.pending \cup
                    IF state[Head(repair.toStart)] = "starting" THEN {Head(repair.toStart)} ELSE {}
               /\ report' = report
<1>1. /\ repair \in RepairRecord /\ repair.phase = "check" /\ repair.toStart # <<>>
      /\ repair.toStart \in Seq(Services)
  BY RepairIs DEF CheckStarted, Fits
<1>2. CASE Len(repair.toStart) > 1
  <2> DEFINE rest == Tail(repair.toStart)
             down == repair.down \cup
                       IF state[Head(repair.toStart)] \in {"running", "starting"} THEN {}
                       ELSE {Head(repair.toStart)}
             pending == repair.pending \cup
                          IF state[Head(repair.toStart)] = "starting"
                          THEN {Head(repair.toStart)} ELSE {}
  <2>1. /\ repair' = [repair EXCEPT !.phase = "start", !.toStart = rest,
                                    !.down = down, !.pending = pending]
        /\ report' = report
    BY <1>2 DEF CheckStarted
  <2> HIDE DEF rest, down, pending
  <2>2. /\ repair'.phase = "start" /\ repair'.guard = repair.guard
        /\ repair'.toStart = rest /\ UNCHANGED Folding /\ repair'.down = down
        /\ repair'.pending = pending
    BY <1>1, <2>1 DEF RepairRecord, Folding
  <2> QED BY <1>1, <2>1, <2>2 DEF rest, down, pending
<1>3. CASE ~(Len(repair.toStart) > 1)
  <2>1. Len(repair.toStart) = 1
    <3>1. ASSUME NEW n \in Nat \ {0}, ~(n > 1) PROVE n = 1
      BY ONLY <3>1
    <3>2. Len(repair.toStart) \in Nat \ {0}
      BY <1>1, TailOfSeq
    <3> QED BY <1>3, <3>1, <3>2, Zenon
  <2>2. repair' = NoRepair /\ report' \in {"done", "failed"}
    BY <1>3 DEF CheckStarted
  <2>3. report' = "done" =>
          repair.down = {} /\ state[Head(repair.toStart)] \in {"running", "starting"}
    BY <1>3 DEF CheckStarted
  <2> QED BY <1>1, <2>1, <2>2, <2>3
<1> QED BY <1>2, <1>3

LEMMA RenamingIs ==
  ASSUME TypeOK, Renaming
  PROVE  /\ repair.phase = "rename" /\ repair'.phase = "rename"
         /\ repair'.guard = repair.guard /\ repair'.toStart = repair.toStart
         /\ repair'.alone = repair.alone /\ repair'.before = repair.before
         /\ \/ repair'.renamed = repair.renamed /\ folder' = folder
            \/ \E f \in ToSet(Folders) :
                 /\ folder[f] # "away" /\ folder' = [folder EXCEPT ![f] = "away"]
                 /\ repair'.renamed = Append(repair.renamed, <<f, folder[f]>>)
<1> DEFINE f == Head(repair.dirs)
           dirs == Tail(repair.dirs)
           renamed == Append(repair.renamed, <<f, folder[f]>>)
<1>1. /\ repair \in RepairRecord /\ repair.phase = "rename" /\ repair.dirs # <<>>
      /\ repair.dirs \in Seq(ToSet(Folders))
  BY RepairIs DEF Renaming, RepairRecord
<1>2. f \in ToSet(Folders)
  BY <1>1, TailOfSeq
<1>3. \/ folder' = folder /\ repair' = [repair EXCEPT !.dirs = dirs]
      \/ /\ folder[f] # "away" /\ folder' = [folder EXCEPT ![f] = "away"]
         /\ repair' = [repair EXCEPT !.dirs = dirs, !.renamed = renamed]
  BY DEF Renaming
<1>4. renamed = Append(repair.renamed, <<f, folder[f]>>)
  OBVIOUS
<1> HIDE DEF f, dirs, renamed
<1>5. CASE folder' = folder /\ repair' = [repair EXCEPT !.dirs = dirs]
  BY <1>1, <1>5 DEF RepairRecord
<1>6. CASE /\ folder[f] # "away" /\ folder' = [folder EXCEPT ![f] = "away"]
           /\ repair' = [repair EXCEPT !.dirs = dirs, !.renamed = renamed]
  <2>1. /\ repair'.phase = "rename" /\ repair'.renamed = renamed
        /\ repair'.guard = repair.guard /\ repair'.toStart = repair.toStart
        /\ repair'.alone = repair.alone /\ repair'.before = repair.before
    BY <1>1, <1>6 DEF RepairRecord
  <2> QED BY <1>1, <1>2, <1>4, <1>6, <2>1
<1> QED BY <1>3, <1>5, <1>6

---------------------------------------------------------------------------
(* What a guard still has to start, and what it has started.               *)
Left == CASE repair.phase = "start" -> ToSet(repair.toStart)
          [] repair.phase = "check" -> ToSet(Tail(repair.toStart))
          [] OTHER -> ToSet(repair.guard)

Started ==
  repair.phase \in {"start", "check"} =>
    /\ ToSet(repair.toStart) \subseteq ToSet(repair.guard)
    /\ \A s \in ToSet(repair.guard) :
         \/ s \in repair.down \/ s \in repair.pending
         \/ state[s] = "running" \/ s \in ToSet(repair.toStart)

(* Every service that WinMedic stopped and Windows did not refuse to start *)
(* is with a guard.                                                        *)
Waiting == Left \cup UNION {ToSet(background[n]) : n \in Repairs}

Owed == (downed \ refused) \ Pending
Covered == ~world.ends /\ ~world.slow => Owed \subseteq Waiting

LEMMA StoppingOwes ==
  ASSUME Machine, NEW s \in Services, NetStop(s) PROVE Owed' \subseteq Owed \cup {s}
BY DEF NetStop, Owed, Pending, Machine

LEMMA StartingPays ==
  ASSUME Machine, NEW s \in Services, NetStart(s), NoneLate, ~world.slow
  PROVE  Owed' \subseteq Owed \ {s}
<1>1. Needs[s] \subseteq Services /\ s \notin Needs[s]
  BY NeedsAre
<1>2. ~\E t \in {s} \cup Needs[s] : state[t] = "stopping"
  BY <1>1 DEF NoneLate
<1> QED BY <1>1, <1>2 DEF NetStart, Owed, Pending, Machine

LEMMA LeftIs ==
  ASSUME TypeOK, Started
  PROVE  Left \subseteq ToSet(repair.guard)
<1>1. CASE repair.phase = "start"
  BY <1>1 DEF Left, Started
<1>2. CASE repair.phase = "check"
  <2>1. repair.toStart \in Seq(Services) /\ repair.toStart # <<>>
    BY <1>2, RepairIs DEF Fits
  <2>2. ToSet(Tail(repair.toStart)) \subseteq ToSet(repair.toStart)
    BY <2>1, TailOfSeq
  <2> QED BY <1>2, <2>2 DEF Left, Started
<1>3. CASE repair.phase \notin {"start", "check"}
  BY <1>3 DEF Left
<1> QED BY <1>1, <1>2, <1>3

LEMMA NoneLeft == repair = NoRepair => Left = {}
BY NoRepairFits, SetOfEmpty DEF Left

LEMMA StartedStep == TypeOK /\ Own /\ Started /\ Step => Started'
<1> SUFFICES ASSUME TypeOK, Own, Started, Step PROVE Started'
  OBVIOUS
<1>0. Machine
  BY TypeIs
<1>1. CASE Still
  <2>1. \A s \in Services : state[s] = "running" => state'[s] = "running"
    BY <1>1 DEF Still
  <2>2. repair' = repair /\ ToSet(repair.guard) \subseteq Services
    BY <1>1, RepairIs, SetOfSeq DEF Still
  <2> QED BY <2>1, <2>2 DEF Started
<1>2. ASSUME NEW n \in Repairs, BackgroundStarts(n) PROVE Started'
  <2>1. \A s \in Services : state[s] = "running" => state'[s] = "running"
    BY <1>0, <1>2, NeedsAre DEF BackgroundStarts, NetStart, Machine
  <2>2. repair' = repair /\ ToSet(repair.guard) \subseteq Services
    BY <1>2, RepairIs, SetOfSeq DEF BackgroundStarts
  <2> QED BY <2>1, <2>2 DEF Started
<1>12. ASSUME NEW s \in Services, Starts(s) PROVE Started'
  <2>1. \A t \in Services : state[t] = "running" => state'[t] = "running"
    BY <1>0, <1>12 DEF Starts, Machine
  <2>2. repair' = repair /\ ToSet(repair.guard) \subseteq Services
    BY <1>12, RepairIs, SetOfSeq DEF Starts
  <2> QED BY <2>1, <2>2 DEF Started
<1>3. CASE Ended
  BY <1>3, NoRepairFits DEF Ended, Dropped, Started
<1>4. CASE Starting
  BY <1>4, StartingIs DEF Started
<1>5. CASE Listing
  BY <1>5, ListingIs DEF Started
<1>6. CASE Renaming
  BY <1>6, RenamingIs DEF Started
<1>7. ASSUME NEW kind \in Kinds, StartRepair(kind) PROVE Started'
  BY <1>7, StartRepairIs DEF Started
<1>8. CASE StopOne
  BY <1>8, StopOneIs DEF Started
<1>9. CASE NextTarget
  BY <1>9, NextTargetIs DEF Started
<1>10. CASE StartOne
  <2>1. \A s \in Services : state[s] = "running" => state'[s] = "running"
    BY <1>0, <1>10 DEF StartOne, NetStart, Machine
  <2>2. ToSet(repair.guard) \subseteq Services
    BY RepairIs, SetOfSeq
  <2>3. repair.phase = "start"
    BY <1>10 DEF StartOne
  <2> QED BY <1>10, <2>1, <2>2, <2>3, StartOneIs DEF Started
<1>11. CASE CheckStarted
  <2>1. repair.phase = "check" /\ repair.toStart # <<>> /\ state' = state
    BY <1>11, CheckStartedIs DEF CheckStarted, windows
  <2>2. ToSet(repair.toStart) = {Head(repair.toStart)} \cup ToSet(Tail(repair.toStart))
    BY <2>1, RepairIs, TailOfSeq
  <2>3. CASE repair' = NoRepair
    BY <2>3, NoRepairFits DEF Started
  <2>4. CASE repair' # NoRepair
    <3>1. /\ repair'.phase = "start" /\ repair'.guard = repair.guard
          /\ repair'.toStart = Tail(repair.toStart)
          /\ repair'.down = repair.down \cup
               IF state[Head(repair.toStart)] \in {"running", "starting"} THEN {}
               ELSE {Head(repair.toStart)}
          /\ repair'.pending = repair.pending \cup
               IF state[Head(repair.toStart)] = "starting" THEN {Head(repair.toStart)} ELSE {}
      BY <1>11, <2>4, CheckStartedIs
    <3> QED BY <2>1, <2>2, <3>1 DEF Started
  <2> QED BY <2>3, <2>4
<1> QED BY <1>1, <1>12, <1>2, <1>3, <1>4, <1>5, <1>6, <1>7, <1>8, <1>9, <1>10, <1>11 DEF Step

LEMMA CoveredStep ==
  TypeOK /\ Own /\ NoneLate /\ Started /\ Covered /\ Step => Covered'
<1> SUFFICES ASSUME TypeOK, Own, NoneLate, Started, Covered, Step,
                    ~world'.ends, ~world'.slow
             PROVE  Owed' \subseteq Waiting'
  BY DEF Covered
<1>0. Around /\ Machine /\ world' = world
  BY TypeIs DEF Step, Still, Ended, Starting, Listing, Renaming, BackgroundStarts,
                StartRepair, StopOne, NextTarget, StartOne, CheckStarted, World0, Starts
<1>00. Owed \subseteq Waiting
  BY <1>0 DEF Covered
<1>1. CASE Still
  <2>1. repair' = repair /\ UNCHANGED <<downed, refused, background>>
    BY <1>0, <1>1 DEF Still
  <2>2. Owed' = Owed
    BY <1>1, <2>1 DEF Still, Owed, Pending
  <2> QED BY <1>00, <2>1, <2>2 DEF Waiting, Left
<1>13. ASSUME NEW s \in Services, Starts(s) PROVE Owed' \subseteq Waiting'
  <2>1. Owed' \subseteq Owed
    BY <1>0, <1>13 DEF Starts, Owed, Pending, Machine
  <2>2. repair' = repair /\ background' = background
    BY <1>13 DEF Starts
  <2> QED BY <1>00, <2>1, <2>2 DEF Waiting, Left
<1>2. ASSUME NEW n \in Repairs, BackgroundStarts(n)
      PROVE  Owed' \subseteq Waiting'
  <2>1. background[n] \in Seq(Services) /\ background[n] # <<>>
    BY <1>0, <1>2 DEF Around, BackgroundStarts
  <2> DEFINE s == Head(background[n])
             left == Tail(background[n])
  <2>2. s \in Services /\ ToSet(background[n]) = {s} \cup ToSet(left)
    BY <2>1, TailOfSeq
  <2>3. Owed' \subseteq Owed \ {s}
    BY <1>0, <1>2, <2>2, StartingPays DEF BackgroundStarts
  <2>4. repair' = repair /\ background' = [background EXCEPT ![n] = left]
    BY <1>2 DEF BackgroundStarts
  <2> HIDE DEF s, left
  <2>5. Left' = Left
    BY <2>4 DEF Left
  <2>6. Waiting \ {s} \subseteq Waiting'
    BY <1>0, <2>2, <2>4, <2>5 DEF Waiting, Around
  <2> QED BY <1>00, <2>3, <2>6
<1>3. CASE Ended
  <2>1. /\ background' = [background EXCEPT ![count] = Reverse(repair.guard)]
        /\ repair' = NoRepair /\ UNCHANGED <<state, downed, refused>>
        /\ count \in Repairs /\ background[count] = <<>>
    BY <1>3 DEF Ended, Dropped, Own
  <2>2. ToSet(Reverse(repair.guard)) = ToSet(repair.guard)
    BY RepairIs, ReversedSeq
  <2> DEFINE order == Reverse(repair.guard)
  <2>3. ToSet(background'[count]) = ToSet(repair.guard)
    BY <1>0, <2>1, <2>2 DEF Around
  <2>4. \A n \in Repairs \ {count} : background'[n] = background[n]
    BY <1>0, <2>1 DEF Around
  <2>5. Waiting \subseteq Waiting'
    BY <2>1, <2>3, <2>4, LeftIs, SetOfEmpty DEF Waiting
  <2> QED BY <1>00, <2>1, <2>5 DEF Owed, Pending
<1>4. ASSUME UNCHANGED <<state, downed, refused, background>>, Left \subseteq Left'
      PROVE  Owed' \subseteq Waiting'
  BY <1>00, <1>4 DEF Waiting, Owed, Pending
<1>5. CASE Starting
  BY <1>4, <1>5, StartingIs DEF Left, Starting, World0
<1>6. CASE Listing
  BY <1>4, <1>6, ListingIs DEF Left, Listing, World0
<1>7. CASE Renaming
  BY <1>4, <1>7, RenamingIs DEF Left, Renaming, World0
<1>8. ASSUME NEW kind \in Kinds, StartRepair(kind)
      PROVE  Owed' \subseteq Waiting'
  BY <1>4, <1>8, NoneLeft DEF StartRepair, history, windows
<1>9. CASE StopOne
  <2>1. /\ ToSet(repair'.guard) = ToSet(repair.guard) \cup {Head(repair.targets)}
        /\ repair'.phase = "query" /\ repair.phase = "stop"
        /\ Head(repair.targets) \in Services
    BY <1>9, StopOneIs DEF StopOne
  <2>2. Left' = Left \cup {Head(repair.targets)} /\ background' = background
    BY <1>9, <2>1 DEF Left, StopOne
  <2>3. Owed' \subseteq Owed \cup {Head(repair.targets)}
    BY <1>0, <1>9, <2>1, StoppingOwes DEF StopOne
  <2> QED BY <1>00, <2>2, <2>3 DEF Waiting
<1>10. CASE NextTarget
  BY <1>4, <1>10, NextTargetIs DEF Left, NextTarget, history, windows
<1>11. CASE StartOne
  <2> DEFINE s == Head(repair.toStart)
  <2>1. repair.toStart \in Seq(Services) /\ repair.toStart # <<>>
    BY <1>11, StartOneIs, RepairIs
  <2>2. s \in Services /\ ToSet(repair.toStart) = {s} \cup ToSet(Tail(repair.toStart))
    BY <2>1, TailOfSeq
  <2>3. Owed' \subseteq Owed \ {s} /\ background' = background
    BY <1>0, <1>11, <2>2, StartingPays DEF StartOne
  <2>4. Left \ {s} \subseteq Left'
    BY <1>11, <2>2, StartOneIs DEF Left, StartOne
  <2> HIDE DEF s
  <2> QED BY <1>00, <2>3, <2>4 DEF Waiting
<1>12. CASE CheckStarted
  <2>1. UNCHANGED <<state, downed, refused, background>>
    BY <1>12 DEF CheckStarted, history, windows
  <2>2. CASE repair' = NoRepair
    <3>1. repair.phase = "check" /\ Len(repair.toStart) = 1 /\ repair.toStart # <<>>
      BY <1>12, <2>2, CheckStartedIs, NoRepairFits
    <3>2. Tail(repair.toStart) = <<>>
      <4>1. Len(Tail(repair.toStart)) = 0 /\ Tail(repair.toStart) \in Seq(Services)
        BY <3>1, RepairIs, TailOfSeq
      <4> QED BY <4>1, EmptySeq
    <3> QED BY <1>4, <2>1, <3>1, <3>2, SetOfEmpty DEF Left
  <2>3. CASE repair' # NoRepair
    BY <1>4, <1>12, <2>1, <2>3, CheckStartedIs DEF Left
  <2> QED BY <2>2, <2>3
<1> QED BY <1>1, <1>13, <1>2, <1>3, <1>5, <1>6, <1>7, <1>8, <1>9, <1>10, <1>11, <1>12 DEF Step

---------------------------------------------------------------------------
(* What a repair has renamed is named in its list, with what the folder    *)
(* was before.                                                             *)
Renamed ==
  repair # NoRepair =>
    /\ \A i \in 1..Len(repair.renamed) : repair.renamed[i][2] # "away"
    /\ \A f \in ToSet(Folders) : folder[f] = "away" =>
         \/ repair.before[f] = "away"
         \/ \E i \in 1..Len(repair.renamed) : repair.renamed[i][1] = f

LEMMA RenamedStep == TypeOK /\ Own /\ Renamed /\ Step => Renamed'
<1> SUFFICES ASSUME TypeOK, Own, Renamed, Step PROVE Renamed'
  OBVIOUS
<1>0. Around
  BY TypeIs
<1>1. CASE Still
  BY <1>1 DEF Still, Renamed
<1>2. CASE Ended
  BY <1>2 DEF Ended, Dropped, Renamed
<1>3. ASSUME repair # NoRepair, UNCHANGED <<repair.renamed, repair.before, folder>>
      PROVE  Renamed'
  BY <1>3 DEF Renamed
<1>4. CASE Starting
  BY <1>3, <1>4, StartingIs, AtWork DEF Starting, Folding
<1>5. CASE Listing
  BY <1>3, <1>5, ListingIs, AtWork DEF Listing, Folding
<1>6. CASE Renaming
  <2>1. /\ repair # NoRepair /\ repair'.before = repair.before
        /\ \/ repair'.renamed = repair.renamed /\ folder' = folder
           \/ \E f \in ToSet(Folders) :
                /\ folder[f] # "away" /\ folder' = [folder EXCEPT ![f] = "away"]
                /\ repair'.renamed = Append(repair.renamed, <<f, folder[f]>>)
    BY <1>6, RenamingIs, AtWork
  <2>2. ASSUME NEW f \in ToSet(Folders), folder[f] # "away",
               folder' = [folder EXCEPT ![f] = "away"],
               repair'.renamed = Append(repair.renamed, <<f, folder[f]>>)
        PROVE  Renamed'
    <3> DEFINE pair == <<f, folder[f]>>
               new == Append(repair.renamed, pair)
               n == Len(repair.renamed)
    <3>1. pair \in ToSet(Folders) \X Places
      BY <1>0 DEF Around
    <3>2. /\ new \in Seq(ToSet(Folders) \X Places) /\ Len(new) = n + 1 /\ new[n + 1] = pair
          /\ \A i \in 1..n : new[i] = repair.renamed[i]
          /\ n \in Nat
      BY <3>1, RepairIs, AppendedSeq
    <3>3. repair'.renamed = new /\ pair[1] = f /\ pair[2] # "away"
      BY <2>2
    <3> HIDE DEF new, n, pair
    <3>4. \A i \in 1..Len(new) : i \in 1..n \/ i = n + 1
      BY <3>2
    <3>5. \A i \in 1..Len(new) : new[i][2] # "away"
      BY <2>1, <3>2, <3>3, <3>4 DEF Renamed, n
    <3>6. n + 1 \in 1..Len(new) /\ \A i \in 1..n : i \in 1..Len(new)
      BY <3>2
    <3>7. ASSUME NEW g \in ToSet(Folders), folder'[g] = "away"
          PROVE  \/ repair.before[g] = "away"
                 \/ \E i \in 1..Len(new) : new[i][1] = g
      <4>1. CASE g = f
        BY <3>2, <3>3, <3>6, <4>1
      <4>2. CASE g # f
        <5>1. folder[g] = "away"
          BY <1>0, <2>2, <3>7, <4>2 DEF Around
        <5> QED BY <2>1, <3>2, <3>6, <5>1 DEF Renamed, n
      <4> QED BY <4>1, <4>2
    <3> QED BY <2>1, <3>3, <3>5, <3>7 DEF Renamed
  <2>3. CASE repair'.renamed = repair.renamed /\ folder' = folder
    BY <1>3, <2>1, <2>3
  <2> QED BY <2>1, <2>2, <2>3
<1>7. ASSUME NEW n \in Repairs, BackgroundStarts(n) PROVE Renamed'
  BY <1>7 DEF BackgroundStarts, Renamed
<1>13. ASSUME NEW s \in Services, Starts(s) PROVE Renamed'
  BY <1>13 DEF Starts, Renamed
<1>8. ASSUME NEW kind \in Kinds, StartRepair(kind) PROVE Renamed'
  <2>1. /\ repair'.renamed = <<>> /\ repair'.before = folder /\ folder' = folder
    BY <1>8, StartRepairIs DEF StartRepair, windows
  <2>2. Len(repair'.renamed) = 0
    BY <2>1
  <2> QED BY <2>1, <2>2 DEF Renamed
<1>9. CASE StopOne
  BY <1>3, <1>9, StopOneIs, AtWork DEF StopOne, Folding
<1>10. CASE NextTarget
  BY <1>3, <1>10, NextTargetIs, AtWork DEF NextTarget, Folding, windows
<1>11. CASE StartOne
  BY <1>3, <1>11, StartOneIs, AtWork DEF StartOne, Folding
<1>12. CASE CheckStarted
  <2>1. CASE repair' = NoRepair
    BY <2>1 DEF Renamed
  <2>2. CASE repair' # NoRepair
    <3>1. repair # NoRepair /\ folder' = folder /\ UNCHANGED Folding
      BY <1>12, <2>2, CheckStartedIs, AtWork DEF CheckStarted, windows
    <3> QED BY <1>3, <3>1 DEF Folding
  <2> QED BY <2>1, <2>2
<1> QED BY <1>1, <1>13, <1>2, <1>4, <1>5, <1>6, <1>7, <1>8, <1>9, <1>10, <1>11, <1>12 DEF Step

(* What the steps that end a repair report.                                *)
LEMMA DoneIsTrue ==
  TypeOK /\ Own /\ Started /\ Step /\ report' = "done" /\ report' # report =>
    \A s \in ToSet(repair.guard) :
      state[s] \in {"running", "starting"} \/ s \in repair.pending
<1> SUFFICES ASSUME TypeOK, Own, Started, Step, report' = "done", report' # report,
                    NEW s \in ToSet(repair.guard)
             PROVE  state[s] \in {"running", "starting"} \/ s \in repair.pending
  OBVIOUS
<1>1. CheckStarted
  BY DEF Step, Still, Ended, Dropped, Starting, Listing, Renaming, BackgroundStarts,
         StartRepair, StopOne, NextTarget, StartOne, World0, Starts
<1>2. /\ repair.phase = "check" /\ repair.toStart # <<>> /\ Len(repair.toStart) = 1
      /\ repair.down = {} /\ state[Head(repair.toStart)] \in {"running", "starting"}
  BY <1>1, CheckStartedIs
<1>3. Tail(repair.toStart) = <<>>
  <2>1. Len(Tail(repair.toStart)) = 0 /\ Tail(repair.toStart) \in Seq(Services)
    BY <1>2, RepairIs, TailOfSeq
  <2> QED BY <2>1, EmptySeq
<1>4. ToSet(repair.toStart) = {Head(repair.toStart)}
  <2>1. ToSet(repair.toStart) = {Head(repair.toStart)} \cup ToSet(Tail(repair.toStart))
    BY <1>2, RepairIs, TailOfSeq
  <2>2. ToSet(Tail(repair.toStart)) = {}
    BY <1>3, SetOfEmpty
  <2> QED BY <2>1, <2>2
<1> QED BY <1>2, <1>4 DEF Started

LEMMA UnchangedIsTrue ==
  TypeOK /\ Own /\ Renamed /\ [Next]_vars /\ report' = "unchanged" /\ report' # report =>
    \A f \in ToSet(Folders) : folder'[f] = "away" => repair.before[f] = "away"
<1> SUFFICES ASSUME TypeOK, Own, Renamed, [Next]_vars, report' = "unchanged",
                    report' # report, NEW f \in ToSet(Folders), folder'[f] = "away"
             PROVE  repair.before[f] = "away"
  OBVIOUS
<1>1. RenameFails
  BY DEF Next, vars, HasStopped, FolderMadeAnew, StartRepair, BackgroundStarts, SweepEnds,
         ListDependents, StopOne, NextTarget, DidNotStop, StartOne, CheckStarted,
         NotAnswered, RenameFolder, DeleteJobs, Cancel, ProcessEnds, Dropped,
         HasStarted, FailsToStart
<1>2. repair # NoRepair /\ Around
  BY <1>1, TypeIs, AtWork DEF RenameFails
<1>3. PICK kept \in 0..Len(repair.renamed) :
        LET back == {repair.renamed[i] : i \in (kept + 1)..Len(repair.renamed)}
        IN  /\ \A p \in back : folder[p[1]] = "away"
            /\ folder' = [g \in DOMAIN folder |->
                            IF \E p \in back : p[1] = g
                              THEN (CHOOSE p \in back : p[1] = g)[2] ELSE folder[g]]
            /\ Dropped(IF kept = 0 THEN "unchanged" ELSE "failed")
  BY <1>1 DEF RenameFails
<1> DEFINE back == {repair.renamed[i] : i \in (kept + 1)..Len(repair.renamed)}
<1>4. kept = 0
  BY <1>3 DEF Dropped
<1>5. back = {repair.renamed[i] : i \in 1..Len(repair.renamed)}
  BY <1>4
<1>6. folder' = [g \in DOMAIN folder |->
                   IF \E p \in back : p[1] = g
                     THEN (CHOOSE p \in back : p[1] = g)[2] ELSE folder[g]]
  BY <1>3
<1> HIDE DEF back
<1>7. \A p \in back : p[2] # "away"
  BY <1>2, <1>5 DEF Renamed
<1>8. CASE \E p \in back : p[1] = f
  <2>1. (CHOOSE p \in back : p[1] = f) \in back
    BY <1>8
  <2>2. folder'[f] = (CHOOSE p \in back : p[1] = f)[2]
    BY <1>2, <1>6, <1>8 DEF Around
  <2> QED BY <1>7, <2>1, <2>2
<1>9. CASE ~\E p \in back : p[1] = f
  <2>1. folder[f] = "away"
    BY <1>2, <1>6, <1>9 DEF Around
  <2>2. ~\E i \in 1..Len(repair.renamed) : repair.renamed[i][1] = f
    BY <1>5, <1>9
  <2> QED BY <1>2, <2>1, <2>2 DEF Renamed
<1> QED BY <1>8, <1>9

---------------------------------------------------------------------------
(* Orders. What is stopped in one comes after what needs it; what is       *)
(* started in one comes before.                                            *)
StopSorted(s) == \A i, j \in 1..Len(s) : s[i] \in Needs[s[j]] => j < i
StartSorted(s) == \A i, j \in 1..Len(s) : s[i] \in Needs[s[j]] => i < j

LEMMA SortedReverse ==
  ASSUME NEW s \in Seq(Services), StopSorted(s) PROVE StartSorted(Reverse(s))
<1> DEFINE n == Len(s)
           back == Reverse(s)
<1>1. Len(back) = n /\ n \in Nat /\ \A i \in 1..n : back[i] = s[n - i + 1]
  BY ReversedSeq
<1>2. \A i, j \in 1..n : s[i] \in Needs[s[j]] => j < i
  BY DEF StopSorted
<1> HIDE DEF n, back
<1>3. ASSUME NEW i \in 1..n, NEW j \in 1..n, back[i] \in Needs[back[j]]
      PROVE  i < j
  <2>1. n - i + 1 \in 1..n /\ n - j + 1 \in 1..n
    BY <1>1
  <2>2. n - j + 1 < n - i + 1
    BY <1>1, <1>2, <1>3, <2>1
  <2> QED BY ONLY <1>1, <2>2, i \in 1..n, j \in 1..n
<1> QED BY <1>1, <1>3 DEF StartSorted, back

LEMMA SortedTails ==
  ASSUME NEW s \in Seq(Services), s # <<>>
  PROVE  /\ StopSorted(s) => StopSorted(Tail(s))
         /\ StartSorted(s) => StartSorted(Tail(s))
<1> DEFINE t == Tail(s)
<1>1. /\ Len(t) = Len(s) - 1 /\ Len(s) \in Nat \ {0}
      /\ \A i \in 1..Len(t) : t[i] = s[i + 1]
  BY TailOfSeq
<1> HIDE DEF t
<1>2. \A i \in 1..Len(t) : i + 1 \in 1..Len(s)
  BY <1>1
<1>3. StopSorted(s) => StopSorted(t)
  BY <1>1, <1>2 DEF StopSorted
<1>4. StartSorted(s) => StartSorted(t)
  BY <1>1, <1>2 DEF StartSorted
<1> QED BY <1>3, <1>4 DEF t

LEMMA SortedHead ==
  ASSUME NEW s \in Seq(Services), s # <<>>, StopSorted(s), NEW x \in ToSet(s)
  PROVE  Head(s) \notin Needs[x]
<1>1. PICK j \in 1..Len(s) : s[j] = x
  BY SetOfSeq
<1>2. Head(s) = s[1] /\ 1 \in 1..Len(s)
  BY TailOfSeq
<1> QED BY <1>1, <1>2 DEF StopSorted

LEMMA SortedAppend ==
  ASSUME NEW s \in Seq(Services), NEW e \in Services, StopSorted(s),
         \A x \in ToSet(s) : x \notin Needs[e]
  PROVE  StopSorted(Append(s, e))
<1> DEFINE t == Append(s, e)
           n == Len(s)
<1>1. /\ Len(t) = n + 1 /\ t[n + 1] = e /\ n \in Nat
      /\ \A i \in 1..n : t[i] = s[i]
  BY AppendedSeq
<1>2. \A i \in 1..n : s[i] \in ToSet(s)
  BY SetOfSeq
<1>3. \A i, j \in 1..n : s[i] \in Needs[s[j]] => j < i
  BY DEF StopSorted
<1> HIDE DEF t, n
<1>4. ASSUME NEW i \in 1..Len(t), NEW j \in 1..Len(t), t[i] \in Needs[t[j]]
      PROVE  j < i
  <2>1. (i \in 1..n \/ i = n + 1) /\ (j \in 1..n \/ j = n + 1)
    BY <1>1
  <2>2. CASE j = n + 1
    <3>1. t[j] = e
      BY <1>1, <2>2
    <3>2. i # n + 1
      BY <1>1, <1>4, <2>2, NeedsAre
    <3> QED BY <1>1, <1>2, <1>4, <2>1, <3>1, <3>2
  <2>3. CASE j \in 1..n /\ i = n + 1
    BY <1>1, <2>3
  <2>4. CASE j \in 1..n /\ i \in 1..n
    BY <1>1, <1>3, <1>4, <2>4
  <2> QED BY <2>1, <2>2, <2>3, <2>4
<1> QED BY <1>4 DEF StopSorted, t

(* A guard that no other guard disturbs: what it holds is stopped, and is  *)
(* held in the order in which it was stopped.                              *)
StoppedAlone ==
  /\ repair.phase \in {"list", "stop", "rename", "sweep", "delete"} =>
       \A s \in ToSet(repair.guard) : state[s] = "stopped"
  /\ repair.phase = "query" =>
       \A s \in ToSet(repair.guard) : state[s] = "stopped" \/ s = Head(repair.targets)

(* What is still to be stopped needs nothing of what is in the guard.      *)
Later ==
  /\ repair.phase \in {"list", "stop", "query"} =>
       /\ StopSorted(repair.svcs)
       /\ \A g \in ToSet(repair.guard), s \in ToSet(repair.svcs) : g \notin Needs[s]
  /\ repair.phase \in {"stop", "query"} =>
       /\ StopSorted(repair.targets)
       /\ \A g \in ToSet(repair.guard), t \in ToSet(repair.targets) : g \notin Needs[t]
       /\ \A t \in ToSet(repair.targets) :
            t = Head(repair.svcs) \/ Head(repair.svcs) \in Needs[t]

Sorted ==
  /\ repair.phase \notin {"start", "check"} => StopSorted(repair.guard)
  /\ repair.phase \in {"start", "check"} => StartSorted(repair.toStart)

Alone == repair # NoRepair /\ repair.alone => StoppedAlone /\ Later /\ Sorted

LEMMA ListingAlone ==
  ASSUME TypeOK, Own, NeedsRun, StoppedAlone, Later, Sorted, Listing
  PROVE  StoppedAlone' /\ Later' /\ Sorted'
<1> DEFINE s == Head(repair.svcs)
<1>1. /\ repair.phase = "list" /\ repair'.phase = "stop" /\ repair'.svcs = repair.svcs
      /\ repair'.guard = repair.guard /\ repair.svcs # <<>> /\ state' = state
  BY ListingIs DEF Listing, World0
<1>2. PICK order \in SetToSeqs(RunningDependents(s)) :
        StopOrder(s, order) /\ repair'.targets = Append(order, s)
  BY ListingIs
<1>3. s \in Services /\ s \in ToSet(repair.svcs)
  BY <1>1, RepairIs, TailOfSeq
<1>4. RunningDependents(s) \subseteq Services /\ IsFiniteSet(RunningDependents(s))
  BY ServicesAssumption, FS_Subset DEF RunningDependents, Dependents
<1>5. order \in Seq(RunningDependents(s)) /\ order \in Seq(Services)
  BY <1>4, OrderedSet
<1>6. \A d \in ToSet(order) : d \in Services /\ s \in Needs[d] /\ state[d] # "stopped"
  BY <1>5, SetOfSeq DEF RunningDependents, Dependents
<1>7. StopSorted(order)
  BY <1>2, <1>5 DEF StopOrder, StopSorted
<1>8. \A d \in ToSet(order) : d \notin Needs[s]
  BY <1>3, <1>6, NeedsAre
<1>9. StopSorted(Append(order, s)) /\ ToSet(Append(order, s)) = ToSet(order) \cup {s}
  BY <1>3, <1>5, <1>7, <1>8, SortedAppend, AppendedSeq
<1>10. ASSUME NEW g \in ToSet(repair.guard), NEW t \in ToSet(order) \cup {s}
       PROVE  g \notin Needs[t]
  <2>1. state[g] = "stopped"
    BY <1>1 DEF StoppedAlone
  <2>2. CASE t = s
    BY <1>1, <1>3, <2>2 DEF Later
  <2>3. CASE t \in ToSet(order)
    BY <1>6, <2>1, <2>3 DEF NeedsRun
  <2> QED BY <2>2, <2>3
<1>11. \A t \in ToSet(order) \cup {s} : t = s \/ s \in Needs[t]
  BY <1>6
<1> DEFINE targets == Append(order, s)
<1>12. repair'.targets = targets /\ StopSorted(targets) /\ ToSet(targets) = ToSet(order) \cup {s}
  BY <1>2, <1>9
<1> HIDE DEF targets
<1>13. Later'
  BY <1>1, <1>10, <1>11, <1>12 DEF Later, StopSorted
<1> QED BY <1>1, <1>13 DEF StoppedAlone, Sorted, StopSorted

LEMMA StopOneAlone ==
  ASSUME TypeOK, Own, StoppedAlone, Later, Sorted, StopOne
  PROVE  StoppedAlone' /\ Later' /\ Sorted'
<1> DEFINE s == Head(repair.targets)
           guard == Append(repair.guard, s)
<1>1. /\ repair.phase = "stop" /\ repair'.phase = "query" /\ repair'.svcs = repair.svcs
      /\ repair'.targets = repair.targets /\ repair'.guard = guard
      /\ ToSet(guard) = ToSet(repair.guard) \cup {s}
      /\ s \in Services /\ repair.targets # <<>> /\ repair.svcs # <<>>
  BY StopOneIs DEF StopOne
<1>2. \A t \in Services : state[t] = "stopped" => state'[t] = "stopped"
  BY TypeIs DEF StopOne, NetStop, Machine
<1>3. StopSorted(repair.targets) /\ StopSorted(repair.svcs) /\ StopSorted(repair.guard)
  BY <1>1 DEF Later, Sorted
<1>4. s \in ToSet(repair.targets)
  BY <1>1, RepairIs, TailOfSeq
<1>5. \A g \in ToSet(repair.guard) : g \notin Needs[s]
  BY <1>1, <1>4 DEF Later
<1>6. StopSorted(guard)
  BY <1>1, <1>3, <1>5, RepairIs, SortedAppend
<1>7. \A t \in ToSet(repair.targets) : s \notin Needs[t]
  BY <1>1, <1>3, RepairIs, SortedHead
<1>8. Head(repair.svcs) \in Services
  BY <1>1, RepairIs, TailOfSeq
<1>9. s = Head(repair.svcs) \/ Head(repair.svcs) \in Needs[s]
  BY <1>1, <1>4 DEF Later
<1>10. ASSUME NEW x \in ToSet(repair.svcs) PROVE s \notin Needs[x]
  <2>1. x \in Services /\ Head(repair.svcs) \notin Needs[x]
    BY <1>1, <1>3, RepairIs, SortedHead, SetOfSeq
  <2> QED BY <1>9, <2>1, NeedsAre
<1> HIDE DEF s, guard
<1>11. StoppedAlone'
  <2>1. ToSet(repair.guard) \subseteq Services
    BY RepairIs, SetOfSeq
  <2>2. \A g \in ToSet(repair.guard) : state'[g] = "stopped"
    BY <1>1, <1>2, <2>1 DEF StoppedAlone
  <2> QED BY <1>1, <2>2 DEF StoppedAlone, s
<1>12. Later'
  <2>1. \A g \in ToSet(guard), x \in ToSet(repair.svcs) : g \notin Needs[x]
    BY <1>1, <1>10 DEF Later
  <2>2. \A g \in ToSet(guard), t \in ToSet(repair.targets) : g \notin Needs[t]
    BY <1>1, <1>7 DEF Later
  <2>3. \A t \in ToSet(repair.targets) :
          t = Head(repair.svcs) \/ Head(repair.svcs) \in Needs[t]
    BY <1>1 DEF Later
  <2> QED BY <1>1, <1>3, <2>1, <2>2, <2>3 DEF Later, StopSorted
<1> QED BY <1>1, <1>6, <1>11, <1>12 DEF Sorted, StopSorted

LEMMA NextTargetAlone ==
  ASSUME TypeOK, Own, StoppedAlone, Later, Sorted, NextTarget
  PROVE  StoppedAlone' /\ Later' /\ Sorted'
<1> DEFINE rest == Tail(repair.targets)
<1>1. /\ repair.phase = "query" /\ repair.targets # <<>> /\ repair.svcs # <<>>
      /\ state[Head(repair.targets)] = "stopped" /\ state' = state
      /\ repair'.phase \in {"stop", "list", "sweep", "rename", "delete"}
      /\ repair'.guard = repair.guard /\ repair'.targets = rest
      /\ repair'.phase = "stop" => repair'.targets # <<>> /\ repair'.svcs = repair.svcs
      /\ repair'.svcs \in {repair.svcs, Tail(repair.svcs)}
  BY NextTargetIs DEF NextTarget, windows
<1>2. \A g \in ToSet(repair.guard) : state'[g] = "stopped"
  BY <1>1 DEF StoppedAlone
<1>3. StoppedAlone'
  BY <1>1, <1>2 DEF StoppedAlone
<1>4. StopSorted(repair.targets) /\ StopSorted(repair.svcs) /\ StopSorted(repair.guard)
  BY <1>1 DEF Later, Sorted
<1>5. StopSorted(rest) /\ ToSet(rest) \subseteq ToSet(repair.targets)
  BY <1>1, <1>4, RepairIs, SortedTails, TailOfSeq
<1>6. StopSorted(Tail(repair.svcs)) /\ ToSet(Tail(repair.svcs)) \subseteq ToSet(repair.svcs)
  BY <1>1, <1>4, RepairIs, SortedTails, TailOfSeq
<1>7. PICK svcs : svcs = repair'.svcs
  OBVIOUS
<1>8. StopSorted(svcs) /\ ToSet(svcs) \subseteq ToSet(repair.svcs)
  BY <1>1, <1>4, <1>6, <1>7
<1> HIDE DEF rest
<1>9. /\ \A g \in ToSet(repair.guard), s \in ToSet(repair.svcs) : g \notin Needs[s]
      /\ \A g \in ToSet(repair.guard), t \in ToSet(repair.targets) : g \notin Needs[t]
      /\ \A t \in ToSet(repair.targets) :
           t = Head(repair.svcs) \/ Head(repair.svcs) \in Needs[t]
  BY <1>1 DEF Later
<1>10. Later'
  <2>1. \A g \in ToSet(repair'.guard), s \in ToSet(repair'.svcs) : g \notin Needs[s]
    BY <1>1, <1>7, <1>8, <1>9
  <2>2. \A g \in ToSet(repair'.guard), t \in ToSet(repair'.targets) : g \notin Needs[t]
    BY <1>1, <1>5, <1>9
  <2>3. repair'.phase = "stop" =>
          \A t \in ToSet(repair'.targets) :
            t = Head(repair'.svcs) \/ Head(repair'.svcs) \in Needs[t]
    BY <1>1, <1>5, <1>9
  <2>4. StopSorted(repair'.svcs) /\ StopSorted(repair'.targets)
    BY <1>1, <1>5, <1>7, <1>8
  <2> QED BY <1>1, <2>1, <2>2, <2>3, <2>4 DEF Later, StopSorted
<1> QED BY <1>1, <1>3, <1>4, <1>10 DEF Sorted, StopSorted

LEMMA AloneStep ==
  TypeOK /\ Own /\ NeedsRun /\ Alone /\ Step => Alone'
<1> SUFFICES ASSUME TypeOK, Own, NeedsRun, Alone, Step, repair' # NoRepair, repair'.alone
             PROVE  StoppedAlone' /\ Later' /\ Sorted'
  BY DEF Alone
<1>0. Around /\ Machine /\ ToSet(repair.guard) \subseteq Services
  BY TypeIs, RepairIs, SetOfSeq
<1>1. ASSUME repair # NoRepair, repair.alone PROVE StoppedAlone /\ Later /\ Sorted
  BY <1>1 DEF Alone
<1>2. CASE Still
  <2>1. repair' = repair /\ repair # NoRepair /\ repair.alone
    BY <1>2 DEF Still
  <2>2. \A s \in Services : state[s] = "stopped" => state'[s] = "stopped"
    BY <1>2 DEF Still
  <2>3. StoppedAlone'
    BY <1>0, <1>1, <2>1, <2>2 DEF StoppedAlone
  <2>4. Later' /\ Sorted'
    BY <1>1, <2>1 DEF Later, Sorted, StopSorted, StartSorted
  <2> QED BY <2>3, <2>4
<1>13. ASSUME NEW s \in Services, Starts(s) PROVE StoppedAlone' /\ Later' /\ Sorted'
  <2>1. repair' = repair /\ repair # NoRepair /\ repair.alone
    BY <1>13 DEF Starts
  <2>2. \A t \in Services : state[t] = "stopped" => state'[t] = "stopped"
    BY <1>0, <1>13 DEF Starts, Machine
  <2>3. StoppedAlone'
    BY <1>0, <1>1, <2>1, <2>2 DEF StoppedAlone
  <2>4. Later' /\ Sorted'
    BY <1>1, <2>1 DEF Later, Sorted, StopSorted, StartSorted
  <2> QED BY <2>3, <2>4
<1>3. CASE Ended
  BY <1>3 DEF Ended, Dropped
<1>4. CASE Starting
  <2>1. /\ repair # NoRepair /\ repair.alone /\ repair'.phase = "start"
        /\ repair'.toStart = Reverse(repair.guard)
        /\ repair.phase \in {"sweep", "rename", "delete"}
    BY <1>4, StartingIs, AtWork DEF Folding, Starting
  <2>2. StopSorted(repair.guard)
    BY <1>1, <2>1 DEF Sorted
  <2>3. StartSorted(Reverse(repair.guard))
    BY <2>2, RepairIs, SortedReverse
  <2>4. Sorted'
    BY <2>1, <2>3 DEF Sorted, StartSorted
  <2> QED BY <2>1, <2>4 DEF StoppedAlone, Later
<1>5. CASE Listing
  BY <1>1, <1>5, ListingAlone, ListingIs, AtWork DEF Folding
<1>6. CASE Renaming
  <2>1. /\ repair # NoRepair /\ repair.alone /\ repair.phase = "rename"
        /\ repair'.phase = "rename" /\ repair'.guard = repair.guard /\ state' = state
    BY <1>6, RenamingIs, AtWork DEF Renaming, World0
  <2>2. StoppedAlone /\ StopSorted(repair.guard)
    BY <1>1, <2>1 DEF Sorted
  <2> QED BY <2>1, <2>2 DEF StoppedAlone, Later, Sorted, StopSorted
<1>7. ASSUME NEW n \in Repairs, BackgroundStarts(n)
      PROVE  StoppedAlone' /\ Later' /\ Sorted'
  BY <1>7 DEF BackgroundStarts, Own
<1>8. ASSUME NEW kind \in Kinds, StartRepair(kind)
      PROVE  StoppedAlone' /\ Later' /\ Sorted'
  <2>1. /\ repair'.phase = "list" /\ repair'.guard = <<>>
        /\ repair'.svcs = <<Spooler>> \/ repair'.svcs = UpdateServices
    BY <1>8, StartRepairIs
  <2>2. StopSorted(<<>>) /\ ToSet(<<>>) = {}
    BY SetOfEmpty DEF StopSorted
  <2>3. StopSorted(<<Spooler>>)
    <3>1. Spooler \notin Needs[Spooler]
      BY ServicesAssumption
    <3> QED BY <3>1 DEF StopSorted
  <2>4. StopSorted(UpdateServices)
    BY ServicesAssumption DEF StopSorted
  <2>5. StopSorted(repair'.svcs)
    BY <2>1, <2>3, <2>4
  <2> QED BY <2>1, <2>2, <2>5 DEF StoppedAlone, Later, Sorted, StopSorted
<1>9. CASE StopOne
  BY <1>1, <1>9, StopOneAlone, StopOneIs, AtWork DEF Folding, StopOne
<1>10. CASE NextTarget
  BY <1>1, <1>10, NextTargetAlone, NextTargetIs, AtWork DEF Folding
<1>11. CASE StartOne
  <2>1. /\ repair # NoRepair /\ repair.alone /\ repair.phase = "start"
        /\ repair'.phase = "check" /\ repair'.toStart = repair.toStart
    BY <1>11, StartOneIs, AtWork DEF Folding, StartOne
  <2>2. StartSorted(repair.toStart)
    BY <1>1, <2>1 DEF Sorted
  <2> QED BY <2>1, <2>2 DEF StoppedAlone, Later, Sorted, StartSorted
<1>12. CASE CheckStarted
  <2>1. /\ repair # NoRepair /\ repair.alone /\ repair.phase = "check"
        /\ repair'.phase = "start" /\ repair'.toStart = Tail(repair.toStart)
        /\ repair.toStart # <<>>
    BY <1>12, CheckStartedIs, AtWork DEF Folding
  <2>2. StartSorted(repair.toStart)
    BY <1>1, <2>1 DEF Sorted
  <2>3. StartSorted(Tail(repair.toStart))
    BY <2>1, <2>2, RepairIs, SortedTails
  <2>4. Sorted'
    BY <2>1, <2>3 DEF Sorted, StartSorted
  <2> QED BY <2>1, <2>4 DEF StoppedAlone, Later
<1> QED BY <1>13, <1>2, <1>3, <1>4, <1>5, <1>6, <1>7, <1>8, <1>9, <1>10, <1>11, <1>12 DEF Step

---------------------------------------------------------------------------
IInv ==
  TypeOK /\ Own /\ NeedsRun /\ NoneLate /\ Started /\ Covered /\ Renamed /\ Alone

LEMMA InitIInv == Init => IInv
<1> SUFFICES ASSUME Init PROVE IInv
  OBVIOUS
<1>1. TypeOK /\ Own
  BY TypeInit
<1>2. /\ repair = NoRepair /\ downed = {}
      /\ \E up \in SUBSET Services :
           /\ \A s \in up : Needs[s] \subseteq up
           /\ state = [s \in Services |-> IF s \in up THEN "running" ELSE "stopped"]
  BY DEF Init
<1>3. NeedsRun /\ NoneLate
  BY <1>2, NeedsAre DEF NeedsRun, NoneLate
<1>4. Started /\ Covered /\ Renamed /\ Alone
  BY <1>2, NoRepairFits DEF Started, Covered, Owed, Renamed, Alone
<1> QED BY <1>1, <1>3, <1>4 DEF IInv

LEMMA StepIInv == IInv /\ [Next]_vars => IInv'
<1> SUFFICES ASSUME IInv, [Next]_vars PROVE IInv'
  OBVIOUS
<1>1. TypeOK' /\ Own' /\ Step
  BY TypeStep, StepIs DEF IInv
<1>2. NeedsRun' /\ NoneLate'
  BY <1>1, WindowsStep DEF IInv
<1>3. Started' /\ Covered'
  BY <1>1, StartedStep, CoveredStep DEF IInv
<1>4. Renamed'
  BY <1>1, RenamedStep DEF IInv
<1>5. Alone'
  BY <1>1, AloneStep DEF IInv
<1> QED BY <1>1, <1>2, <1>3, <1>4, <1>5 DEF IInv

LEMMA AlwaysIInv == Spec => []IInv
BY InitIInv, StepIInv, PTL DEF Spec

(* The variables hold what their types say (service.rs StopGuard,          *)
(* windows_updates.rs and devices.rs).                                     *)
THEOREM TypeCorrect == Spec => []TypeOK
<1>1. IInv => TypeOK
  BY DEF IInv
<1> QED BY <1>1, AlwaysIInv, PTL

(* What a repair stopped runs again, or is starting, when the repairs and  *)
(* their guards are through, unless Windows could not start it; and it is  *)
(* started in an order in which every start finds what it needs running    *)
(* (service.rs StartAgain): what is owed is always with a guard, and a     *)
(* guard alone keeps its order.                                            *)
THEOREM WhatWasStoppedRunsAgain == Spec => []RunsAgainInOrder
<1>1. IInv => RunsAgain
  <2> SUFFICES ASSUME IInv, ~world.ends, ~world.slow, AtRest
               PROVE  downed \subseteq refused \cup Pending
    BY DEF RunsAgain
  <2>1. Owed \subseteq Waiting /\ Left = {}
    BY NoneLeft DEF IInv, Covered, AtRest
  <2>2. \A n \in Repairs : ToSet(background[n]) = {}
    BY SetOfEmpty DEF AtRest
  <2> QED BY <2>1, <2>2 DEF Waiting, Owed
<1>2. IInv => StartsInOrder
  <2> SUFFICES ASSUME IInv, repair.phase \in {"start", "check"}, repair.alone
               PROVE  \A i, j \in DOMAIN repair.toStart :
                        repair.toStart[i] \in Needs[repair.toStart[j]] => i < j
    BY DEF StartsInOrder
  <2>1. StartSorted(repair.toStart)
    BY AtWork DEF IInv, Alone, Sorted
  <2>2. DOMAIN repair.toStart = 1..Len(repair.toStart)
    BY RepairIs DEF IInv
  <2> QED BY <2>1, <2>2 DEF StartSorted
<1>3. IInv => RunsAgainInOrder
  BY <1>1, <1>2 DEF IInv, RunsAgainInOrder
<1> QED BY <1>3, AlwaysIInv, PTL

(* While a repair renames, empties or deletes, all it stopped is stopped,  *)
(* and so is all that needs it (service.rs stop_one: the query after every *)
(* net stop): of a repair that started while no guard of an earlier one    *)
(* was at work. Of another it does not hold (AlwaysTouchesWhileStopped).   *)
THEOREM NothingIsTouchedInUse == Spec => []TouchesWhileStopped
<1>1. IInv => TouchesWhileStopped
  <2> SUFFICES ASSUME IInv, Touches, repair.alone, NEW s \in ToSet(repair.guard)
               PROVE  state[s] = "stopped" /\ RunningDependents(s) = {}
    BY DEF TouchesWhileStopped
  <2>1. state[s] = "stopped"
    BY AtWork DEF IInv, Alone, StoppedAlone, Touches
  <2>2. \A d \in Services : s \in Needs[d] => state[d] = "stopped"
    BY <2>1 DEF IInv, NeedsRun
  <2> QED BY <2>1, <2>2 DEF RunningDependents, Dependents
<1> QED BY <1>1, AlwaysIInv, PTL

(* A repair is done only when all it stopped runs again, or was starting   *)
(* when it asked (SERVICE_START_PENDING), and nothing was changed only     *)
(* when no folder is left renamed (windows_updates.rs, devices.rs: the     *)
(* outcome of a repair that stops services).                               *)
THEOREM WhatIsReportedIsTrue == Spec => ReportsAreTrue
<1>1. IInv /\ [Next]_vars =>
        [report' = "done" /\ report' # report =>
           \A s \in ToSet(repair.guard) :
             state[s] \in {"running", "starting"} \/ s \in repair.pending]_vars
  BY StepIs, DoneIsTrue DEF IInv
<1>2. IInv /\ [Next]_vars =>
        [report' = "unchanged" /\ report' # report =>
           \A f \in ToSet(Folders) : folder'[f] = "away" => repair.before[f] = "away"]_vars
  BY UnchangedIsTrue DEF IInv
<1>3. Spec => DoneMeansRunning
  BY <1>1, AlwaysIInv, PTL DEF Spec, DoneMeansRunning
<1>4. Spec => UnchangedMeansUnchanged
  BY <1>2, AlwaysIInv, PTL DEF Spec, UnchangedMeansUnchanged
<1> QED BY <1>3, <1>4 DEF ReportsAreTrue
===========================================================================
