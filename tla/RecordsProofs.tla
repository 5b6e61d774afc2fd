--------------------------- MODULE RecordsProofs ---------------------------
(***************************************************************************)
(* Theorems about Records: the registry backups of repairs and their way   *)
(* back, for any values of the key and any number of repairs, rollbacks    *)
(* and edits; and what WinMedic saves, logs and offers of its crashes, for *)
(* any number of WinMedics, files, entries and crashes; and the releases   *)
(* WinMedic offers and installs, for any number of them.                   *)
(***************************************************************************)
EXTENDS Records, Integers, Sequences, FiniteSetTheorems, TLAPS

---------------------------------------------------------------------------
(* Backups. What a repair may find in a value, and what an export holds.   *)
Found == {"original", "odd", "fixed", "absent"}
ValuesOf(of) == IF of = B!WholeKey THEN Values ELSE {of}
Exports(of) == [ValuesOf(of) -> Found]
Contents(of) == Exports(of) \cup {B!Nothing, B!Cut}

(* Nobody's edit is in the registry, nor in an anchor, nor in a file that  *)
(* was not touched.                                                        *)
Untouched ==
  /\ now \in 0..MaxSeconds /\ registry \in [Values -> Found]
  /\ DOMAIN files = B!Names /\ DOMAIN anchors = B!Names
  /\ \A n \in B!Names : /\ anchors[n] \in Contents(n.of)
                        /\ n \notin edited => files[n] \in Contents(n.of)

(* What a rollback is about to import was written by a repair.             *)
Importing ==
  rollback # B!Nothing => rollback \in B!Names /\ files[rollback] \in Contents(rollback.of)

(* A repair, its file and its anchor; it changes the value when both are   *)
(* there.                                                                  *)
AtWork ==
  repair # B!Nothing =>
    LET n == repair.name
    IN  /\ DOMAIN repair = {"value", "name", "at", "content"}
        /\ n \in B!Names /\ repair.value \in ValuesOf(n.of) \cap Values
        /\ repair.at \in {"export", "keep", "anchor", "change"}
        /\ repair.at # "export" =>
             /\ repair.content \in Exports(n.of)
             /\ n \in edited \/ files[n] = repair.content
        /\ repair.at = "keep" => files[n] = repair.content
        /\ repair.at = "change" => anchors[n] = repair.content

(* What each value's last repair began with is in its file and its anchor, *)
(* and no repair at work has written to these, unless that is known.       *)
Free(n) == repair # B!Nothing /\ repair.name = n => repair.at = "export"
Lies(v) ==
  LET n == backedUp[v].name
  IN  /\ files[n] \in Exports(n.of) /\ anchors[n] = files[n]
      /\ v \in ValuesOf(n.of) /\ files[n][v] = backedUp[v].data
      /\ Free(n)
Backed(v) == backedUp[v].name \in edited \/ backedUp[v].file = "overwritten" \/ Lies(v)

Backup == [name : B!Names, data : Found, file : {"kept", "overwritten"}]
BackedUp ==
  /\ DOMAIN backedUp = Values
  /\ \A v \in Values : backedUp[v] # B!Nothing => backedUp[v] \in Backup /\ Backed(v)

BackupsInv == Untouched /\ Importing /\ AtWork /\ BackedUp

LEMMA ExportsAre ==
  ASSUME NEW n \in B!Names, NEW e \in Exports(n.of)
  PROVE  e # B!Nothing /\ e # B!Cut /\ DOMAIN e \subseteq Values
<1>1. DOMAIN e = ValuesOf(n.of) /\ n.of \in Values \cup {B!WholeKey}
  BY DEF Exports, B!Names, B!Kinds
<1>2. "nothing" \notin Values /\ "cut" \notin Values
  BY RecordsAssumption DEF B!BackupsAssumption
<1>3. DOMAIN e \subseteq Values
  BY <1>1 DEF ValuesOf
<1>4. DOMAIN B!Nothing = {"nothing"} /\ DOMAIN B!Cut = {"cut"}
  BY DEF B!Nothing, B!Cut
<1> QED BY <1>2, <1>3, <1>4

LEMMA ExportIs ==
  ASSUME Untouched, NEW n \in B!Names
  PROVE  B!Export(n.of) \in Exports(n.of)
<1>1. n.of \in Values \cup {B!WholeKey}
  BY DEF B!Names, B!Kinds
<1>2. CASE n.of = B!WholeKey
  BY <1>2 DEF B!Export, Exports, ValuesOf, Untouched
<1>3. CASE n.of # B!WholeKey
  <2>1. B!Export(n.of) = [x \in {n.of} |-> registry[x]]
    BY <1>3 DEF B!Export, B!CutValue, B!Restrict
  <2>2. registry[n.of] \in Found
    BY <1>1, <1>3 DEF Untouched
  <2> QED BY <1>3, <2>1, <2>2 DEF Exports, ValuesOf
<1> QED BY <1>2, <1>3

LEMMA BackupsInit == Init => BackupsInv
<1> SUFFICES ASSUME Init PROVE BackupsInv
  OBVIOUS
<1>1. B!Init /\ MaxSeconds \in Nat
  BY RecordsAssumption DEF Init, B!BackupsAssumption
<1> QED BY <1>1 DEF B!Init, BackupsInv, Untouched, Importing, AtWork, BackedUp, Found, Contents

(* What the places of a repair have in common.                             *)
LEMMA RepairIs ==
  ASSUME BackupsInv, NEW place, B!At(place)
  PROVE  /\ repair # B!Nothing /\ repair.at = place
         /\ DOMAIN repair = {"value", "name", "at", "content"}
         /\ repair.name \in B!Names /\ repair.value \in ValuesOf(repair.name.of) \cap Values
         /\ place # "export" =>
              /\ repair.content \in Exports(repair.name.of)
              /\ repair.name \in edited \/ files[repair.name] = repair.content
         /\ place = "keep" => files[repair.name] = repair.content
         /\ place = "change" => anchors[repair.name] = repair.content
BY DEF B!At, BackupsInv, AtWork

(* The file of the repair at work is written to, and that is noted.        *)
LEMMA OverwriteIs ==
  ASSUME BackedUp, B!Overwrite
  PROVE  /\ DOMAIN backedUp' = Values
         /\ \A v \in Values : backedUp'[v] # B!Nothing =>
              /\ backedUp[v] # B!Nothing /\ backedUp'[v] \in Backup
              /\ backedUp'[v].name = backedUp[v].name
              /\ backedUp[v].name = repair.name => backedUp'[v].file = "overwritten"
              /\ backedUp[v].name # repair.name => backedUp'[v] = backedUp[v]
<1> SUFFICES ASSUME NEW v \in Values, backedUp'[v] # B!Nothing
             PROVE  /\ backedUp[v] # B!Nothing /\ backedUp'[v] \in Backup
                    /\ backedUp'[v].name = backedUp[v].name
                    /\ backedUp[v].name = repair.name => backedUp'[v].file = "overwritten"
                    /\ backedUp[v].name # repair.name => backedUp'[v] = backedUp[v]
  BY DEF B!Overwrite
<1>1. backedUp'[v] = IF backedUp[v] # B!Nothing /\ backedUp[v].name = repair.name
                     THEN [backedUp[v] EXCEPT !.file = "overwritten"] ELSE backedUp[v]
  BY DEF B!Overwrite
<1>2. backedUp[v] # B!Nothing
  BY <1>1
<1>3. backedUp[v] \in Backup
  BY <1>2 DEF BackedUp
<1>4. [backedUp[v] EXCEPT !.file = "overwritten"] \in Backup
  BY <1>3 DEF Backup
<1>5. /\ [backedUp[v] EXCEPT !.file = "overwritten"].name = backedUp[v].name
      /\ [backedUp[v] EXCEPT !.file = "overwritten"].file = "overwritten"
  BY <1>3 DEF Backup
<1> QED BY <1>1, <1>2, <1>3, <1>4, <1>5

(* A step that changes the file and the anchor of the repair at work only, *)
(* and leaves there what an export or a failed one does. What was backed   *)
(* up under that name was overwritten by then, is now, or is left alone.   *)
LEMMA OneFileStep ==
  ASSUME BackupsInv, repair # B!Nothing,
         UNCHANGED <<registry, now, rollback, edited>>,
         DOMAIN files' = B!Names, DOMAIN anchors' = B!Names,
         \A n \in B!Names : n # repair.name => files'[n] = files[n] /\ anchors'[n] = anchors[n],
         files'[repair.name] # files[repair.name] => files'[repair.name] \in Contents(repair.name.of),
         anchors'[repair.name] \in Contents(repair.name.of),
         repair' = B!Nothing \/ repair'.name = repair.name,
         \/ B!Overwrite
         \/ repair.at # "export" /\ UNCHANGED backedUp
         \/ /\ repair' = B!Nothing /\ UNCHANGED <<anchors, backedUp>>
            /\ files'[repair.name] = files[repair.name]
  PROVE  Untouched' /\ Importing' /\ BackedUp'
<1>1. repair.name \in B!Names
  BY DEF BackupsInv, AtWork
<1>2. Untouched'
  BY <1>1 DEF BackupsInv, Untouched
<1>3. Importing'
  BY <1>1 DEF BackupsInv, Importing
<1>4. CASE B!Overwrite
  <2>1. DOMAIN backedUp' = Values
    BY <1>4, OverwriteIs DEF BackupsInv
  <2>2. ASSUME NEW v \in Values, backedUp'[v] # B!Nothing
        PROVE  backedUp'[v] \in Backup /\ Backed(v)'
    <3>1. /\ backedUp[v] # B!Nothing /\ backedUp'[v] \in Backup
          /\ backedUp'[v].name = backedUp[v].name
          /\ backedUp[v].name = repair.name => backedUp'[v].file = "overwritten"
          /\ backedUp[v].name # repair.name => backedUp'[v] = backedUp[v]
      BY <1>4, <2>2, OverwriteIs DEF BackupsInv
    <3>2. backedUp[v] \in Backup /\ Backed(v)
      BY <3>1 DEF BackupsInv, BackedUp
    <3>3. backedUp[v].name \in B!Names
      BY <3>2 DEF Backup
    <3>4. CASE backedUp[v].name # repair.name
      BY <1>1, <3>1, <3>2, <3>3, <3>4 DEF Backed, Lies, Free
    <3>5. CASE backedUp[v].name = repair.name
      BY <3>1, <3>5 DEF Backed, Lies, Free
    <3> QED BY <3>1, <3>4, <3>5
  <2> QED BY <1>2, <1>3, <2>1, <2>2 DEF BackedUp
<1>5. CASE UNCHANGED backedUp
  <2>1. ASSUME NEW v \in Values, backedUp[v] # B!Nothing
        PROVE  backedUp[v] \in Backup /\ Backed(v)'
    <3>1. backedUp[v] \in Backup /\ Backed(v) /\ backedUp[v].name \in B!Names
      BY <2>1 DEF BackupsInv, BackedUp, Backup
    <3>2. CASE backedUp[v].name # repair.name
      BY <1>1, <1>5, <3>1, <3>2 DEF Backed, Lies, Free
    <3>3. CASE repair.at # "export" /\ backedUp[v].name = repair.name
      BY <1>5, <3>1, <3>3 DEF Backed, Lies, Free
    <3>4. CASE repair' = B!Nothing /\ files'[repair.name] = files[repair.name] /\ UNCHANGED anchors
      BY <1>1, <1>5, <3>1, <3>4 DEF Backed, Lies, Free
    <3>5. CASE B!Overwrite /\ backedUp[v].name = repair.name
      <4>1. backedUp'[v] # B!Nothing /\ B!Overwrite /\ BackedUp
        BY <1>5, <2>1, <3>5 DEF BackupsInv
      <4>2. backedUp'[v].file = "overwritten"
        BY <3>5, <4>1, OverwriteIs
      <4> QED BY <3>1, <4>2 DEF Backed
    <3>6. \/ repair.at # "export" \/ B!Overwrite
          \/ repair' = B!Nothing /\ files'[repair.name] = files[repair.name] /\ UNCHANGED anchors
      OBVIOUS
    <3> QED BY <3>1, <3>2, <3>3, <3>4, <3>5, <3>6
  <2> QED BY <1>2, <1>3, <1>5, <2>1 DEF BackupsInv, BackedUp
<1> QED BY <1>2, <1>3, <1>4, <1>5

LEMMA StartRepairStep ==
  ASSUME BackupsInv, NEW v \in Values,
         B!StartRepair(v)
  PROVE  BackupsInv'
<1>1. /\ repair = B!Nothing
      /\ UNCHANGED <<registry, files, anchors, now, rollback, backedUp, edited>>
  BY DEF B!StartRepair
<1>2. PICK of \in {v, B!WholeKey} :
        repair' = [value |-> v, name |-> [second |-> now, of |-> of], at |-> "export",
                   content |-> B!Nothing]
  BY DEF B!StartRepair
<1> DEFINE n == [second |-> now, of |-> of]
<1>3. n \in B!Names /\ n.of = of /\ v \in ValuesOf(of)
  BY DEF B!Names, B!Kinds, ValuesOf, BackupsInv, Untouched
<1> HIDE DEF n
<1>4. /\ repair'.value = v /\ repair'.name = n /\ repair'.at = "export"
      /\ DOMAIN repair' = {"value", "name", "at", "content"}
  BY <1>2 DEF n
<1>5. AtWork'
  BY <1>3, <1>4 DEF AtWork
<1>6. ASSUME NEW w \in Values, backedUp[w] # B!Nothing
      PROVE  backedUp[w] \in Backup /\ Backed(w)'
  BY <1>1, <1>4, <1>6 DEF BackupsInv, BackedUp, Backed, Lies, Free
<1> QED BY <1>1, <1>5, <1>6 DEF BackupsInv, Untouched, Importing, BackedUp

LEMMA ExportedStep ==
  ASSUME BackupsInv, B!Exported PROVE BackupsInv'
<1> DEFINE n == repair.name
           e == B!Export(n.of)
<1>1. /\ B!At("export") /\ files' = [files EXCEPT ![n] = e]
      /\ repair' = [repair EXCEPT !.at = "keep", !.content = e]
      /\ B!Overwrite
      /\ UNCHANGED <<registry, anchors, now, rollback, edited>>
  BY DEF B!Exported
<1>2. /\ repair # B!Nothing /\ n \in B!Names /\ repair.value \in ValuesOf(n.of) \cap Values
      /\ DOMAIN repair = {"value", "name", "at", "content"}
  BY <1>1, RepairIs
<1>3. e \in Exports(n.of)
  BY <1>2, ExportIs DEF BackupsInv
<1> HIDE DEF e
<1>4. /\ repair'.name = n /\ repair'.value = repair.value /\ DOMAIN repair' = DOMAIN repair
      /\ repair'.at = "keep" /\ repair'.content = e
  BY <1>1, <1>2
<1>5. /\ DOMAIN files' = B!Names /\ files'[n] = e
      /\ \A m \in B!Names : m # n => files'[m] = files[m]
  BY <1>1, <1>2 DEF BackupsInv, Untouched
<1>6. Untouched' /\ Importing' /\ BackedUp'
  <2>1. anchors[n] \in Contents(n.of) /\ e \in Contents(n.of)
    BY <1>2, <1>3 DEF BackupsInv, Untouched, Contents
  <2>2. DOMAIN anchors = B!Names
    BY DEF BackupsInv, Untouched
  <2> HIDE DEF n
  <2> QED BY <1>1, <1>2, <1>4, <1>5, <2>1, <2>2, OneFileStep DEF n
<1>7. AtWork'
  BY <1>2, <1>3, <1>4, <1>5 DEF AtWork
<1> QED BY <1>6, <1>7 DEF BackupsInv

LEMMA ExportFailsStep ==
  ASSUME BackupsInv, B!ExportFails PROVE BackupsInv'
<1> DEFINE n == repair.name
<1>1. /\ B!At("export") /\ repair' = B!Nothing
      /\ UNCHANGED <<registry, anchors, now, rollback, edited>>
  BY DEF B!ExportFails
<1>2. PICK rest \in {files[n]} \cup
                 (IF n = rollback THEN {}
                  ELSE IF n.of = B!WholeKey THEN {B!Cut, B!Export(B!WholeKey)} ELSE {B!Nothing}) :
       /\ files' = [files EXCEPT ![n] = rest]
       /\ IF rest = files[n] THEN UNCHANGED backedUp ELSE B!Overwrite
  BY DEF B!ExportFails
<1>3. repair # B!Nothing /\ n \in B!Names
  BY <1>1, RepairIs
<1>4. rest # files[n] => rest \in Contents(n.of)
  <2>1. B!Export(n.of) \in Contents(n.of) /\ B!Cut \in Contents(n.of) /\ B!Nothing \in Contents(n.of)
    BY <1>3, ExportIs DEF BackupsInv, Contents
  <2> QED BY <1>2, <2>1
<1>5. /\ DOMAIN files' = B!Names /\ files'[n] = rest
      /\ \A m \in B!Names : m # n => files'[m] = files[m]
  BY <1>2, <1>3 DEF BackupsInv, Untouched
<1>6. anchors[n] \in Contents(n.of) /\ DOMAIN anchors = B!Names
  BY <1>3 DEF BackupsInv, Untouched
<1>7. Untouched' /\ Importing' /\ BackedUp'
  BY <1>1, <1>2, <1>3, <1>4, <1>5, <1>6, OneFileStep
<1> QED BY <1>1, <1>7 DEF BackupsInv, AtWork

(* keep, in its two steps: the anchor is made, and filled in.              *)
LEMMA AnchorSteps ==
  ASSUME BackupsInv, B!Keep \/ B!Anchored PROVE BackupsInv'
<1> DEFINE n == repair.name
<1>1. /\ B!At("keep") \/ B!At("anchor")
      /\ UNCHANGED <<registry, files, now, rollback, backedUp, edited>>
  BY DEF B!Keep, B!Anchored
<1>2. /\ repair # B!Nothing /\ n \in B!Names /\ repair.value \in ValuesOf(n.of) \cap Values
      /\ DOMAIN repair = {"value", "name", "at", "content"} /\ repair.at # "export"
      /\ repair.content \in Exports(n.of) /\ (n \in edited \/ files[n] = repair.content)
  BY <1>1, RepairIs
<1>3. PICK a \in Contents(n.of), place \in {"anchor", "change"} :
        /\ anchors' = [anchors EXCEPT ![n] = a]
        /\ repair' = [repair EXCEPT !.at = place]
        /\ place = "change" => a = repair.content
  <2>1. CASE B!Keep
    BY <2>1 DEF B!Keep, Contents
  <2>2. CASE B!Anchored
    BY <1>2, <2>2 DEF B!Anchored, Contents
  <2> QED BY <2>1, <2>2
<1>4. /\ repair'.name = n /\ repair'.value = repair.value /\ DOMAIN repair' = DOMAIN repair
      /\ repair'.at = place /\ repair'.content = repair.content
  BY <1>2, <1>3
<1>5. /\ DOMAIN files = B!Names /\ DOMAIN anchors' = B!Names /\ anchors'[n] = a
      /\ \A m \in B!Names : m # n => anchors'[m] = anchors[m]
  BY <1>2, <1>3 DEF BackupsInv, Untouched
<1>6. Untouched' /\ Importing' /\ BackedUp'
  BY <1>1, <1>2, <1>3, <1>4, <1>5, OneFileStep
<1>7. AtWork'
  BY <1>1, <1>2, <1>3, <1>4, <1>5 DEF AtWork
<1> QED BY <1>6, <1>7 DEF BackupsInv

LEMMA NotKeptStep ==
  ASSUME BackupsInv, B!NotKept PROVE BackupsInv'
<1> DEFINE n == repair.name
<1>1. /\ B!At("keep") \/ B!At("anchor")
      /\ anchors' = [anchors EXCEPT ![n] = B!Nothing]
      /\ files' = [files EXCEPT ![n] = B!Nothing]
      /\ repair' = B!Nothing
      /\ UNCHANGED <<registry, now, rollback, backedUp, edited>>
  BY DEF B!NotKept
<1>2. repair # B!Nothing /\ n \in B!Names /\ repair.at # "export"
  BY <1>1, RepairIs
<1>3. /\ DOMAIN files' = B!Names /\ files'[n] = B!Nothing
      /\ DOMAIN anchors' = B!Names /\ anchors'[n] = B!Nothing
      /\ \A m \in B!Names : m # n => files'[m] = files[m] /\ anchors'[m] = anchors[m]
  BY <1>1, <1>2 DEF BackupsInv, Untouched
<1>4. B!Nothing \in Contents(n.of)
  BY DEF Contents
<1>5. Untouched' /\ Importing' /\ BackedUp'
  BY <1>1, <1>2, <1>3, <1>4, OneFileStep
<1> QED BY <1>1, <1>5 DEF BackupsInv, AtWork

LEMMA ChangeStep ==
  ASSUME BackupsInv, B!Change PROVE BackupsInv'
<1> DEFINE n == repair.name
           v == repair.value
           b == [name |-> n, data |-> repair.content[v], file |-> "kept"]
<1>1. /\ B!At("change") /\ repair' = B!Nothing
      /\ backedUp' = [backedUp EXCEPT ![v] = b]
      /\ UNCHANGED <<files, anchors, now, rollback, edited>>
  BY DEF B!Change
<1>2. PICK d \in {"absent", "fixed", registry[v]} : registry' = [registry EXCEPT ![v] = d]
  BY DEF B!Change
<1>3. /\ n \in B!Names /\ v \in ValuesOf(n.of) \cap Values
      /\ repair.content \in Exports(n.of)
      /\ n \in edited \/ files[n] = repair.content
      /\ anchors[n] = repair.content
  BY <1>1, RepairIs
<1>4. Untouched'
  <2>1. d \in Found
    BY <1>2, <1>3 DEF Found, BackupsInv, Untouched
  <2> QED BY <1>1, <1>2, <2>1 DEF BackupsInv, Untouched
<1>5. /\ DOMAIN backedUp' = Values /\ backedUp'[v] = b
      /\ \A w \in Values : w # v => backedUp'[w] = backedUp[w]
  BY <1>1, <1>3 DEF BackupsInv, BackedUp
<1>6. b.name = n /\ b.data = repair.content[v] /\ b \in Backup
  <2>1. repair.content[v] \in Found
    BY <1>3 DEF Exports
  <2> QED BY <1>3, <2>1 DEF Backup
<1> HIDE DEF b
<1>7. ASSUME NEW w \in Values, backedUp'[w] # B!Nothing
      PROVE  backedUp'[w] \in Backup /\ Backed(w)'
  <2>1. CASE w = v
    BY <1>1, <1>3, <1>5, <1>6, <2>1 DEF Backed, Lies, Free
  <2>2. CASE w # v
    BY <1>1, <1>5, <1>7, <2>2 DEF Backed, Lies, Free, BackupsInv, BackedUp
  <2> QED BY <2>1, <2>2
<1> QED BY <1>1, <1>4, <1>5, <1>7 DEF BackupsInv, BackedUp, Importing, AtWork

LEMMA KilledRepairStep ==
  ASSUME BackupsInv, B!Killed PROVE BackupsInv'
<1>1. /\ repair' = B!Nothing /\ rollback' = B!Nothing
      /\ UNCHANGED <<registry, files, anchors, now, backedUp, edited>>
  BY DEF B!Killed
<1>2. BackedUp'
  BY <1>1 DEF BackupsInv, BackedUp, Backed, Lies, Free
<1> QED BY <1>1, <1>2 DEF BackupsInv, Untouched, Importing, AtWork

LEMMA StartRollbackStep ==
  ASSUME BackupsInv, NEW n \in B!Names, B!StartRollback(n) PROVE BackupsInv'
<1>1. /\ rollback' = IF B!Importable(n) THEN n ELSE B!Nothing
      /\ UNCHANGED <<registry, files, anchors, now, repair, backedUp, edited>>
  BY DEF B!StartRollback
<1>2. B!Importable(n) => files[n] \in Contents(n.of)
  BY DEF B!Importable, BackupsInv, Untouched
<1>3. Importing'
  BY <1>1, <1>2 DEF Importing
<1>4. AtWork' /\ BackedUp'
  BY <1>1 DEF BackupsInv, AtWork, BackedUp, Backed, Lies, Free
<1> QED BY <1>1, <1>3, <1>4 DEF BackupsInv, Untouched

LEMMA ImportStep ==
  ASSUME BackupsInv, B!Import PROVE BackupsInv'
<1>1. /\ rollback # B!Nothing /\ rollback' = B!Nothing
      /\ UNCHANGED <<files, anchors, now, repair, backedUp, edited>>
  BY DEF B!Import
<1> DEFINE content == files[rollback]
<1>2. PICK set \in SUBSET {v \in DOMAIN content : content[v] # "absent"} :
        registry' = [v \in Values |-> IF v \in set THEN content[v] ELSE registry[v]]
  BY DEF B!Import
<1>3. \A v \in set : content[v] \in Found
  <2>1. content \in Contents(rollback.of)
    BY <1>1 DEF BackupsInv, Importing
  <2>2. CASE content \in Exports(rollback.of)
    BY <1>2, <2>2 DEF Exports
  <2>3. CASE content \in {B!Nothing, B!Cut}
    BY <1>2, <2>3 DEF B!Nothing, B!Cut
  <2> QED BY <2>1, <2>2, <2>3 DEF Contents
<1>4. registry' \in [Values -> Found]
  BY <1>2, <1>3 DEF BackupsInv, Untouched
<1>5. AtWork' /\ BackedUp'
  BY <1>1 DEF BackupsInv, AtWork, BackedUp, Backed, Lies, Free
<1> QED BY <1>1, <1>4, <1>5 DEF BackupsInv, Untouched, Importing

LEMMA EditStep ==
  ASSUME BackupsInv, NEW n \in B!Names, B!Edit(n) PROVE BackupsInv'
<1>1. /\ ~(B!At("keep") /\ repair.name = n) /\ n # rollback /\ edited' = edited \cup {n}
      /\ UNCHANGED <<registry, anchors, now, repair, rollback, backedUp>>
  BY DEF B!Edit
<1>2. PICK content : files' = [files EXCEPT ![n] = content]
  BY DEF B!Edit
<1>3. /\ DOMAIN files' = B!Names /\ \A m \in B!Names : m # n => files'[m] = files[m]
  BY <1>2 DEF BackupsInv, Untouched
<1>4. Untouched'
  BY <1>1, <1>3 DEF BackupsInv, Untouched
<1>5. Importing'
  BY <1>1, <1>3 DEF BackupsInv, Importing
<1>6. AtWork'
  BY <1>1, <1>3 DEF BackupsInv, AtWork, B!At
<1>7. ASSUME NEW v \in Values, backedUp[v] # B!Nothing
      PROVE  backedUp[v] \in Backup /\ Backed(v)'
  <2>1. backedUp[v] \in Backup /\ Backed(v) /\ backedUp[v].name \in B!Names
    BY <1>7 DEF BackupsInv, BackedUp, Backup
  <2>2. CASE backedUp[v].name = n
    BY <1>1, <2>1, <2>2 DEF Backed
  <2>3. CASE backedUp[v].name # n
    BY <1>1, <1>3, <2>1, <2>3 DEF Backed, Lies, Free
  <2> QED BY <2>1, <2>2, <2>3
<1>8. BackedUp'
  BY <1>1, <1>7 DEF BackupsInv, BackedUp
<1> QED BY <1>4, <1>5, <1>6, <1>8 DEF BackupsInv

LEMMA PurgeStep ==
  ASSUME BackupsInv, B!DeleteMachineAnchors PROVE BackupsInv'
<1>1. /\ repair = B!Nothing /\ rollback = B!Nothing
      /\ anchors' = [n \in B!Names |-> B!Nothing] /\ edited' = B!Names
      /\ UNCHANGED <<registry, files, now, repair, rollback, backedUp>>
  BY DEF B!DeleteMachineAnchors
<1>2. Untouched'
  BY <1>1 DEF BackupsInv, Untouched, Contents
<1>3. ASSUME NEW v \in Values, backedUp[v] # B!Nothing
      PROVE  backedUp[v] \in Backup /\ Backed(v)'
  <2>1. backedUp[v] \in Backup /\ backedUp[v].name \in B!Names
    BY <1>3 DEF BackupsInv, BackedUp, Backup
  <2> QED BY <1>1, <2>1 DEF Backed
<1>4. BackedUp'
  BY <1>1, <1>3 DEF BackupsInv, BackedUp
<1> QED BY <1>1, <1>2, <1>4 DEF BackupsInv, Importing, AtWork

LEMMA BackupsStep == BackupsInv /\ [Next]_vars => BackupsInv'
<1> SUFFICES ASSUME BackupsInv, [Next]_vars PROVE BackupsInv'
  OBVIOUS
<1>1. CASE B!Next
  <2>1. CASE B!Tick
    <3>1. now' \in 0..MaxSeconds
      BY <2>1, RecordsAssumption DEF B!Tick, BackupsInv, Untouched, B!BackupsAssumption
    <3>2. UNCHANGED <<registry, files, anchors, repair, rollback, backedUp, edited>>
      BY <2>1 DEF B!Tick
    <3> QED BY <3>1, <3>2 DEF BackupsInv, Untouched, Importing, AtWork, BackedUp, Backed, Lies, Free
  <2> QED BY <1>1, <2>1, StartRepairStep, ExportedStep, ExportFailsStep, AnchorSteps,
             NotKeptStep, ChangeStep, KilledRepairStep, StartRollbackStep, ImportStep,
             EditStep, PurgeStep DEF B!Next
<1>2. CASE UNCHANGED backupsVars
  BY <1>2 DEF backupsVars, BackupsInv, Untouched, Importing, AtWork, BackedUp, Backed, Lies, Free
<1> QED BY <1>1, <1>2 DEF Next, vars

(* What a repair found before it changed a value can be put back, and a    *)
(* rollback imports what repairs wrote and nothing else                    *)
(* (safety/reg_backup.rs): however repairs, rollbacks, edits and kills     *)
(* follow each other, also in the same second. The exceptions are those of *)
(* the code: a file somebody touched, one a later repair wrote to in the   *)
(* same second, a value that was not there, and text over a line break.    *)
THEOREM WhatWasBackedUpGoesBack == Spec => []RollsBack
<1>1. BackupsInv => RollsBack
  <2> SUFFICES ASSUME BackupsInv PROVE B!CanBeRolledBack /\ B!OnlyWhatWasBackedUp
    BY DEF RollsBack
  <2>1. B!OnlyWhatWasBackedUp
    BY DEF BackupsInv, Untouched, Found, B!OnlyWhatWasBackedUp
  <2>2. ASSUME NEW v \in Values, backedUp[v] # B!Nothing, backedUp[v].name \notin edited,
               backedUp[v].file # "overwritten",
               \A w \in DOMAIN files[backedUp[v].name] : files[backedUp[v].name][w] # "odd"
        PROVE  /\ B!Importable(backedUp[v].name)
               /\ files[backedUp[v].name][v] = backedUp[v].data
    <3> DEFINE n == backedUp[v].name
    <3>1. /\ n \in B!Names /\ files[n] \in Exports(n.of) /\ anchors[n] = files[n]
          /\ files[n][v] = backedUp[v].data
      BY <2>2 DEF BackupsInv, BackedUp, Backed, Lies, Backup
    <3>2. anchors[n] # B!Nothing /\ anchors[n] # B!Cut /\ DOMAIN files[n] \subseteq Values
      BY <3>1, ExportsAre
    <3> QED BY <2>2, <3>1, <3>2 DEF B!Importable, B!ListBackups, B!CheckContents
  <2> QED BY <2>1, <2>2 DEF B!CanBeRolledBack
<1> QED BY <1>1, BackupsInit, BackupsStep, PTL DEF Spec

---------------------------------------------------------------------------
(* Saves. A file holds a save or what a hand edit made of it; a process    *)
(* that is about to rename has written its save to the end.                *)
Held == {S!Missing} \cup {S!Whole(n) : n \in Nat} \cup {S!ByHand(n) : n \in Nat}
Process ==
  [open : BOOLEAN, at : {"closed", "idle", "write", "rename"}, save : Nat, of : S!Kept]

Saving(p) == process[p].at \in {"write", "rename"}

SavesTypes ==
  /\ file \in [S!Kept -> Held] /\ DOMAIN temp = S!Temps
  /\ process \in [Processes -> Process]
  /\ counts.saves \in Nat /\ counts.edits \in Nat /\ DOMAIN counts = {"saves", "edits"}

Written ==
  \A p \in Processes :
    /\ process[p].at # "closed" => process[p].open
    /\ process[p].at = "rename" =>
         \E n \in Nat : temp[S!Temp(process[p].of, p)] = S!Whole(n)

OneSave ==
  \A p, q \in Processes :
    Saving(p) /\ Saving(q) /\ process[p].of = "config" /\ process[q].of = "config" => p = q

(* While a WinMedic is open the settings are no hand edit: it moved that   *)
(* one aside when it started.                                              *)
Edited ==
  /\ (\E p \in Processes : process[p].open) =>
       S!Readable(file.config) \/ file.config = S!Missing
  /\ \A n \in Nat : n < counts.edits => S!ByHand(n) \in aside \cup {file.config}

SavesInv == SavesTypes /\ Written /\ OneSave /\ Edited

LEMMA HeldAre ==
  /\ \A n \in Nat : /\ S!Whole(n).what = "whole" /\ S!ByHand(n).what = "broken by hand"
                    /\ S!Whole(n) # S!Half /\ S!ByHand(n) # S!Half
                    /\ S!Whole(n) # S!Missing /\ S!ByHand(n) # S!Missing
                    /\ \A m \in Nat : S!Whole(m) # S!ByHand(n)
  /\ S!Missing # S!Half
BY DEF S!Whole, S!ByHand, S!Half, S!Missing

LEMMA SavesInit == Init => SavesInv
<1> SUFFICES ASSUME Init PROVE SavesInv
  OBVIOUS
<1>1. S!Init
  BY DEF Init
<1>2. S!Closed \in Process /\ S!Closed.at = "closed" /\ ~S!Closed.open
  BY DEF S!Closed, Process, S!Kept
<1>3. /\ process = [p \in Processes |-> S!Closed] /\ counts = [saves |-> 0, edits |-> 0]
      /\ file \in [S!Kept -> {S!Missing, S!Whole(0)}] /\ temp = [t \in S!Temps |-> S!Missing]
  BY <1>1 DEF S!Init
<1>4. SavesTypes
  BY <1>2, <1>3 DEF SavesTypes, Held
<1> QED BY <1>2, <1>3, <1>4 DEF SavesInv, Written, OneSave, Edited, Saving

(* A step of process p makes s of it.                                      *)
LEMMA ProcessSteps ==
  ASSUME SavesInv, NEW p \in Processes, NEW s \in Process, S!Sets(p, s)
  PROVE  /\ process' \in [Processes -> Process] /\ process'[p] = s
         /\ \A q \in Processes \ {p} : process'[q] = process[q]
         /\ process[p] \in Process
BY DEF SavesInv, SavesTypes, S!Sets

LEMMA OpenIs ==
  /\ S!Open \in Process /\ S!Open.at = "idle" /\ S!Open.open
  /\ S!Closed \in Process /\ S!Closed.at = "closed" /\ ~S!Closed.open
BY DEF S!Open, S!Closed, Process, S!Kept

LEMMA LoadStep ==
  ASSUME "locked" \notin Lapses, SavesInv, NEW p \in Processes, S!Load(p) PROVE SavesInv'
<1>1. ~process[p].open /\ S!Sets(p, S!Open) /\ UNCHANGED <<temp, counts>>
  BY DEF S!Load, S!Quarantine
<1>2. /\ process' \in [Processes -> Process] /\ process'[p] = S!Open
      /\ \A q \in Processes \ {p} : process'[q] = process[q]
  BY <1>1, ProcessSteps, OpenIs
<1>3. \/ UNCHANGED <<file, aside>> /\ (S!Readable(file.config) \/ file.config = S!Missing)
      \/ file' = [file EXCEPT !.config = S!Missing] /\ aside' = aside \cup {file.config}
  BY DEF S!Load, S!Quarantine
<1>4. /\ file' \in [S!Kept -> Held]
      /\ S!Readable(file'.config) \/ file'.config = S!Missing
      /\ aside \cup {file.config} \subseteq aside' \cup {file'.config}
  BY <1>3 DEF SavesInv, SavesTypes, Held, S!Kept
<1>5. SavesTypes'
  BY <1>1, <1>2, <1>4 DEF SavesInv, SavesTypes
<1>6. Written' /\ OneSave'
  BY <1>1, <1>2, OpenIs DEF SavesInv, Written, OneSave, Saving
<1>7. Edited'
  BY <1>1, <1>4 DEF SavesInv, Edited
<1> QED BY <1>5, <1>6, <1>7 DEF SavesInv

LEMMA CreateStep ==
  ASSUME "together" \notin Lapses, SavesInv, NEW p \in Processes, NEW f \in S!Kept,
         S!Create(p, f)
  PROVE  SavesInv'
<1> DEFINE s == [open |-> TRUE, at |-> "write", save |-> counts.saves + 1, of |-> f]
<1>1. /\ process[p].at = "idle" /\ S!Sets(p, s)
      /\ temp' = [temp EXCEPT ![S!Temp(f, p)] = S!Half]
      /\ counts' = [counts EXCEPT !.saves = counts.saves + 1]
      /\ UNCHANGED <<file, aside>>
  BY DEF S!Create
<1>2. f = "config" => \A q \in Processes : ~(Saving(q) /\ process[q].of = "config")
  BY DEF S!Create, Saving
<1>3. s \in Process /\ s.at = "write" /\ s.open /\ s.of = f
  BY DEF Process, SavesInv, SavesTypes
<1> HIDE DEF s
<1>4. /\ process' \in [Processes -> Process] /\ process'[p] = s
      /\ \A q \in Processes \ {p} : process'[q] = process[q]
  BY <1>1, <1>3, ProcessSteps
<1>5. /\ counts'.saves \in Nat /\ counts'.edits = counts.edits
      /\ DOMAIN counts' = {"saves", "edits"} /\ DOMAIN temp' = S!Temps
  BY <1>1 DEF SavesInv, SavesTypes
<1>6. SavesTypes'
  BY <1>1, <1>4, <1>5 DEF SavesInv, SavesTypes
<1>7. ASSUME NEW q \in Processes, q # p, process[q].at = "rename"
      PROVE  S!Temp(process[q].of, q) # S!Temp(f, p)
  <2>1. process[q].of \in S!Kept
    BY DEF SavesInv, SavesTypes, Process
  <2> QED BY <1>2, <1>7, <2>1 DEF S!Temp, S!Kept, Saving
<1>8. Written'
  BY <1>1, <1>3, <1>4, <1>7 DEF SavesInv, SavesTypes, Written, Saving
<1>9. OneSave'
  BY <1>2, <1>3, <1>4 DEF SavesInv, OneSave, Saving
<1>10. Edited'
  <2>1. process[p].open
    BY <1>1 DEF SavesInv, Written
  <2> QED BY <1>1, <1>5, <2>1 DEF SavesInv, Edited
<1> QED BY <1>6, <1>8, <1>9, <1>10 DEF SavesInv

LEMMA WriteStep ==
  ASSUME SavesInv, NEW p \in Processes, S!Write(p) PROVE SavesInv'
<1> DEFINE t == S!Temp(process[p].of, p)
           s == [process[p] EXCEPT !.at = "rename"]
<1>1. process[p].at = "write" /\ UNCHANGED <<file, aside, counts>>
  BY DEF S!Write
<1>2. process[p] \in Process /\ process[p].save \in Nat /\ process[p].of \in S!Kept
  BY DEF SavesInv, SavesTypes, Process
<1>3. process[p].open
  BY <1>1 DEF SavesInv, Written, Saving
<1>4. ASSUME NEW q \in Processes, q # p, process[q].at = "rename"
      PROVE  S!Temp(process[q].of, q) # t
  <2>1. process[q].of \in S!Kept
    BY DEF SavesInv, SavesTypes, Process
  <2>2. ~(process[q].of = "config" /\ process[p].of = "config")
    BY <1>1, <1>4 DEF SavesInv, OneSave, Saving
  <2> QED BY <1>2, <1>4, <2>1, <2>2 DEF S!Temp, S!Kept
<1>5. t \in S!Temps
  BY <1>2 DEF S!Temp, S!Temps
<1>6. CASE temp' = [temp EXCEPT ![t] = S!Whole(process[p].save)] /\ S!Sets(p, s)
  <2>1. s \in Process /\ s.at = "rename" /\ s.open /\ s.of = process[p].of
    BY <1>2, <1>3 DEF Process
  <2> HIDE DEF s
  <2>2. /\ process' \in [Processes -> Process] /\ process'[p] = s
        /\ \A q \in Processes \ {p} : process'[q] = process[q]
    BY <1>6, <2>1, ProcessSteps
  <2>3. SavesTypes'
    BY <1>1, <1>6, <2>2 DEF SavesInv, SavesTypes
  <2>4. temp'[S!Temp(s.of, p)] = S!Whole(process[p].save)
    BY <1>5, <1>6, <2>1 DEF SavesInv, SavesTypes
  <2> HIDE DEF t
  <2>5. Written'
    BY <1>2, <1>4, <1>6, <2>1, <2>2, <2>4 DEF SavesInv, SavesTypes, Written, Saving
  <2>6. OneSave'
    BY <1>1, <2>1, <2>2 DEF SavesInv, OneSave, Saving
  <2>7. Edited'
    BY <1>1, <1>3, <2>2 DEF SavesInv, Edited
  <2> QED BY <2>3, <2>5, <2>6, <2>7 DEF SavesInv
<1>7. CASE S!Sets(p, S!Open) /\ UNCHANGED temp
  <2>1. /\ process' \in [Processes -> Process] /\ process'[p] = S!Open
        /\ \A q \in Processes \ {p} : process'[q] = process[q]
    BY <1>7, ProcessSteps, OpenIs
  <2>2. SavesTypes'
    BY <1>1, <1>7, <2>1 DEF SavesInv, SavesTypes
  <2>3. Written' /\ OneSave'
    BY <1>7, <2>1, OpenIs DEF SavesInv, Written, OneSave, Saving
  <2>4. Edited'
    BY <1>1, <1>3 DEF SavesInv, Edited
  <2> QED BY <2>2, <2>3, <2>4 DEF SavesInv
<1> QED BY <1>6, <1>7 DEF S!Write

LEMMA RenameStep ==
  ASSUME SavesInv, NEW p \in Processes, S!Rename(p) PROVE SavesInv'
<1> DEFINE f == process[p].of
           t == S!Temp(f, p)
<1>1. /\ process[p].at = "rename" /\ S!Sets(p, S!Open)
      /\ temp' = [temp EXCEPT ![t] = S!Missing]
      /\ file' = [file EXCEPT ![f] = temp[t]] \/ UNCHANGED file
      /\ UNCHANGED <<aside, counts>>
  BY DEF S!Rename
<1>2. process[p].open /\ f \in S!Kept
  BY <1>1 DEF SavesInv, Written, Saving, SavesTypes, Process
<1>3. PICK n \in Nat : temp[t] = S!Whole(n)
  BY <1>1 DEF SavesInv, Written
<1>4. /\ process' \in [Processes -> Process] /\ process'[p] = S!Open
      /\ \A q \in Processes \ {p} : process'[q] = process[q]
  BY <1>1, ProcessSteps, OpenIs
<1>5. S!Readable(file.config) \/ file.config = S!Missing
  BY <1>2 DEF SavesInv, Edited
<1>6. /\ file' \in [S!Kept -> Held]
      /\ S!Readable(file'.config) \/ file'.config = S!Missing
  <2>1. file \in [S!Kept -> Held]
    BY DEF SavesInv, SavesTypes
  <2>2. S!Whole(n) \in Held /\ S!Readable(S!Whole(n))
    BY HeldAre DEF Held, S!Readable
  <2>3. CASE file' = [file EXCEPT ![f] = temp[t]]
    <3>1. file' = [file EXCEPT ![f] = S!Whole(n)]
      BY <1>3, <2>3
    <3> HIDE DEF f, t
    <3>2. file' \in [S!Kept -> Held] /\ file'["config"] \in {S!Whole(n), file["config"]}
      BY <1>2, <2>1, <2>2, <3>1 DEF S!Kept
    <3> QED BY <1>5, <2>2, <3>2
  <2> QED BY <1>1, <1>5, <2>1, <2>3
<1>7. SavesTypes'
  BY <1>1, <1>4, <1>6 DEF SavesInv, SavesTypes
<1>8. ASSUME NEW q \in Processes, q # p, process[q].at = "rename"
      PROVE  S!Temp(process[q].of, q) # t
  <2>1. process[q].of \in S!Kept
    BY DEF SavesInv, SavesTypes, Process
  <2>2. ~(process[q].of = "config" /\ process[p].of = "config")
    BY <1>1, <1>8 DEF SavesInv, OneSave, Saving
  <2> QED BY <1>2, <1>8, <2>1, <2>2 DEF S!Temp, S!Kept
<1> HIDE DEF t
<1>9. Written'
  BY <1>1, <1>4, <1>8, OpenIs DEF SavesInv, Written, Saving
<1>10. OneSave'
  BY <1>4, OpenIs DEF SavesInv, OneSave, Saving
<1>11. Edited'
  <2>1. ASSUME NEW m \in Nat, m < counts.edits PROVE S!ByHand(m) \in aside
    <3>1. S!ByHand(m) \in aside \cup {file.config}
      BY <2>1 DEF SavesInv, Edited
    <3> QED BY <1>5, <3>1, HeldAre DEF S!Readable
  <2> QED BY <1>1, <1>6, <2>1 DEF Edited
<1> QED BY <1>7, <1>9, <1>10, <1>11 DEF SavesInv

LEMMA CloseStep ==
  ASSUME SavesInv, NEW p \in Processes, S!Close(p) PROVE SavesInv'
<1>1. process[p].open /\ S!Sets(p, S!Closed) /\ UNCHANGED <<file, temp, aside, counts>>
  BY DEF S!Close
<1>2. /\ process' \in [Processes -> Process] /\ process'[p] = S!Closed
      /\ \A q \in Processes \ {p} : process'[q] = process[q]
  BY <1>1, ProcessSteps, OpenIs
<1>3. SavesTypes'
  BY <1>1, <1>2 DEF SavesInv, SavesTypes
<1>4. Written' /\ OneSave'
  BY <1>1, <1>2, OpenIs DEF SavesInv, Written, OneSave, Saving
<1>5. Edited'
  BY <1>1 DEF SavesInv, Edited
<1> QED BY <1>3, <1>4, <1>5 DEF SavesInv

LEMMA EditByHandStep ==
  ASSUME SavesInv, S!EditByHand PROVE SavesInv'
<1>1. /\ \A p \in Processes : ~process[p].open
      /\ S!Readable(file.config)
      /\ file' = [file EXCEPT !.config = S!ByHand(counts.edits)]
      /\ counts' = [counts EXCEPT !.edits = counts.edits + 1]
      /\ UNCHANGED <<temp, aside, process>>
  BY DEF S!EditByHand
<1>2. /\ counts'.saves \in Nat /\ counts'.edits = counts.edits + 1 /\ counts.edits \in Nat
      /\ DOMAIN counts' = {"saves", "edits"}
  BY <1>1 DEF SavesInv, SavesTypes
<1>3. file' \in [S!Kept -> Held] /\ file'.config = S!ByHand(counts.edits)
  BY <1>1, <1>2 DEF SavesInv, SavesTypes, Held, S!Kept
<1>4. SavesTypes' /\ Written' /\ OneSave'
  BY <1>1, <1>2, <1>3 DEF SavesInv, SavesTypes, Written, OneSave, Saving
<1>5. ASSUME NEW n \in Nat, n < counts.edits + 1
      PROVE  S!ByHand(n) \in aside \cup {file'.config}
  <2>1. CASE n = counts.edits
    BY <1>3, <2>1
  <2>2. CASE n < counts.edits
    <3>1. S!ByHand(n) \in aside \cup {file.config}
      BY <2>2 DEF SavesInv, Edited
    <3> QED BY <1>1, <3>1, HeldAre DEF S!Readable
  <2> QED BY <1>2, <1>5, <2>1, <2>2
<1>6. Edited'
  BY <1>1, <1>2, <1>5 DEF Edited
<1> QED BY <1>4, <1>6 DEF SavesInv

LEMMA SavesStep ==
  ASSUME "together" \notin Lapses, "locked" \notin Lapses
  PROVE  SavesInv /\ [Next]_vars => SavesInv'
<1> SUFFICES ASSUME SavesInv, [Next]_vars PROVE SavesInv'
  OBVIOUS
<1>1. CASE S!Next
  BY <1>1, LoadStep, CreateStep, WriteStep, RenameStep, CloseStep, EditByHandStep DEF S!Next
<1>2. CASE UNCHANGED savesVars
  BY <1>2 DEF savesVars, SavesInv, SavesTypes, Written, OneSave, Edited, Saving
<1> QED BY <1>1, <1>2 DEF Next, vars

LEMMA SavesAreWhole == SavesInv => S!SavedWhole
<1> SUFFICES ASSUME SavesInv PROVE S!SavedWhole
  OBVIOUS
<1>1. \A f \in S!Kept : file[f] # S!Half
  BY HeldAre DEF SavesInv, SavesTypes, Held
<1>2. \A n \in 0..MaxEdits : n \in Nat
  BY RecordsAssumption DEF S!SavesAssumption
<1> QED BY <1>1, <1>2 DEF S!SavedWhole, SavesInv, Edited

---------------------------------------------------------------------------
(* CrashOffers. Seconds.                                                   *)
LEMMA Seconds ==
  ASSUME NEW a \in Nat, NEW b \in Nat
  PROVE  /\ C!SecondOf(a) \in Nat /\ C!SecondOf(a) <= a
         /\ a >= Second => C!SecondOf(a) > 0
         /\ a <= b /\ C!SecondOf(a) # C!SecondOf(b) => a < C!SecondOf(b)
<1> DEFINE k == Second
<1>1. k \in Nat \ {0}
  BY RecordsAssumption DEF C!CrashOffersAssumption
<1> DEFINE qa == a \div k
           qb == b \div k
           ra == a % k
           rb == b % k
<1> HIDE DEF k
<1>2. /\ qa \in Nat /\ a = k * qa + ra /\ ra \in 0..(k - 1)
      /\ qb \in Nat /\ b = k * qb + rb /\ rb \in 0..(k - 1)
  BY <1>1
<1>3. C!SecondOf(a) = a - ra /\ C!SecondOf(b) = b - rb
  BY DEF C!SecondOf, k
<1>4. k * qa \in Nat /\ k * qb \in Nat
  BY <1>1, <1>2
<1>5. a >= k => qa >= 1
  BY <1>1
<1>6. qa >= 1 => k * qa >= k
  BY <1>1, <1>2
<1>7. qa < qb => k * qb >= k * qa + k
  BY <1>1, <1>2
<1>8. qb < qa => k * qa >= k * qb + k
  BY <1>1, <1>2
<1>9. qa = qb => k * qa = k * qb
  OBVIOUS
<1> HIDE DEF qa, qb, ra, rb
<1> DEFINE ma == k * qa
           mb == k * qb
<1>10. C!SecondOf(a) = ma /\ C!SecondOf(b) = mb
  BY <1>2, <1>3, <1>4
<1>11. /\ a = ma + ra /\ b = mb + rb /\ ma \in Nat /\ mb \in Nat
       /\ (a >= k => qa >= 1) /\ (qa >= 1 => ma >= k)
       /\ (qa < qb => mb >= ma + k) /\ (qb < qa => ma >= mb + k) /\ (qa = qb => ma = mb)
  BY <1>2, <1>4, <1>5, <1>6, <1>7, <1>8, <1>9
<1> HIDE DEF ma, mb
<1> QED BY <1>1, <1>2, <1>10, <1>11 DEF k

LEMMA CrashBounds ==
  /\ MaxKept \in Nat /\ Second \in Nat \ {0} /\ MaxTime \in Nat /\ Second <= MaxTime
  /\ FirstLookBack \in Nat /\ LookBack \in Nat
BY RecordsAssumption DEF C!CrashOffersAssumption

(* The crashes after c that left a log.                                    *)
Newer(c) == {d \in crashed : d.panic /\ d.time > c.time}
Displaced(c) == c.panic /\ Cardinality(Newer(c)) >= MaxKept

CrashTypes ==
  /\ clock \in 0..MaxTime /\ clock >= Second /\ unsaved \in Nat
  /\ seenUntil \in Int /\ seenUntil >= C!Never /\ seenUntil <= clock
  /\ crashed \subseteq C!Crash /\ IsFiniteSet(crashed)
  /\ \A c \in crashed : c.time <= clock
  /\ offered \in [C!Crash -> Nat]

LEMMA ClockIs ==
  ASSUME CrashTypes
  PROVE  /\ clock \in Nat /\ seenUntil \in Int /\ seenUntil >= -1 /\ seenUntil <= clock
         /\ clock >= Second /\ clock <= MaxTime
<1>1. clock \in Nat /\ clock <= MaxTime /\ clock >= Second
  BY CrashBounds DEF CrashTypes
<1>2. seenUntil \in Int /\ seenUntil >= -1 /\ seenUntil <= clock
  BY <1>1 DEF CrashTypes, C!Never
<1> QED BY <1>1, <1>2

(* Of every crash there is the event or the log, unless newer logs took    *)
(* its place.                                                              *)
Left ==
  /\ logs \subseteq crashed /\ \A c \in logs : c.panic
  /\ events \subseteq crashed
  /\ \A c \in crashed : c \in logs \cup events \/ Displaced(c)
  /\ \A c \in events : ~c.panic

(* What the window has read is what there was, except what came late.      *)
Looking ==
  /\ DOMAIN look = {"at", "logs", "events", "late"}
  /\ look = [at |-> look.at, logs |-> look.logs, events |-> look.events, late |-> look.late]
  /\ look.at \in {"closed", "logs", "events", "offer", "open"}
  /\ look.logs \subseteq crashed /\ look.events \subseteq crashed
  /\ look.at \in {"events", "offer"} =>
       \A c \in crashed : c.panic => c \in look.logs \cup look.late \/ Displaced(c)
  /\ look.at = "offer" =>
       \A c \in crashed : ~c.panic => c \in look.events \cup look.late

Offered ==
  /\ \A c \in C!Crash \ crashed : offered[c] = 0
  /\ \A c \in crashed :
       /\ offered[c] <= 1 + unsaved
       /\ C!When(c) > seenUntil => offered[c] <= unsaved
       /\ offered[c] = 0 => C!When(c) > seenUntil \/ Displaced(c) \/ c \in missed

OffersInv == CrashTypes /\ Left /\ Looking /\ Offered

LEMMA CountedAlike == \A Q : C!Cardinality(Q) = Cardinality(Q)
BY Zenon DEF C!Cardinality, Cardinality

(* A later crash displaces no less.                                        *)
LEMMA Displacing ==
  ASSUME IsFiniteSet(crashed'), crashed \subseteq crashed', NEW c
  PROVE  Displaced(c) => Displaced(c)'
<1> DEFINE new == {d \in crashed' : d.panic /\ d.time > c.time}
<1>1. Newer(c) \subseteq new /\ new \subseteq crashed'
  BY DEF Newer
<1>2. IsFiniteSet(new)
  BY <1>1, FS_Subset
<1>3. Cardinality(Newer(c)) <= Cardinality(new) /\ Cardinality(Newer(c)) \in Nat
      /\ Cardinality(new) \in Nat
  BY <1>1, <1>2, FS_Subset, FS_CardinalityType
<1>4. Newer(c)' = new
  BY DEF Newer
<1>5. MaxKept \in Nat
  BY CrashBounds
<1> QED BY <1>3, <1>4, <1>5 DEF Displaced

LEMMA WhenIs ==
  ASSUME CrashTypes, NEW c \in C!Crash
  PROVE  C!When(c) \in Nat /\ C!When(c) <= c.time
<1>1. c.time \in Nat
  BY CrashBounds DEF C!Crash
<1> QED BY <1>1, Seconds DEF C!When

LEMMA OffersInit == Init => OffersInv
<1> SUFFICES ASSUME Init PROVE OffersInv
  OBVIOUS
<1>1. C!Init
  BY DEF Init
<1>2. Second \in Nat \ {0} /\ MaxTime \in Nat /\ Second <= MaxTime
  BY CrashBounds
<1>3. CrashTypes
  BY <1>1, <1>2, FS_EmptySet DEF C!Init, CrashTypes, C!Never
<1>4. Left /\ Looking /\ Offered
  BY <1>1 DEF C!Init, C!Closed, Left, Looking, Offered
<1> QED BY <1>3, <1>4 DEF OffersInv

LEMMA CrashesStep ==
  ASSUME OffersInv, NEW panic \in BOOLEAN, NEW ends \in BOOLEAN, C!Crashes(panic, ends)
  PROVE  OffersInv'
<1> DEFINE c == [time |-> clock, panic |-> panic]
<1>1. /\ clock # seenUntil /\ \A d \in crashed : d.time # clock
      /\ crashed' = crashed \cup {c}
      /\ logs' = IF panic THEN C!NewestKept(logs \cup {c}) ELSE logs
      /\ events' = IF panic THEN events ELSE events \cup {c}
      /\ missed' = IF C!When(c) <= seenUntil THEN missed \cup {c} ELSE missed
      /\ \/ look' = C!Closed
         \/ look' = IF look.at = "offer" \/ (panic /\ look.at = "events")
                    THEN [look EXCEPT !.late = @ \cup {c}] ELSE look
      /\ UNCHANGED <<clock, seenUntil, offered, unsaved>>
  BY DEF C!Crashes
<1>2. clock \in Nat /\ seenUntil \in Int /\ seenUntil <= clock /\ Second \in Nat \ {0}
      /\ clock >= Second /\ clock \in 0..MaxTime
  BY ClockIs, CrashBounds DEF OffersInv
<1>3. c \in C!Crash /\ c.time = clock /\ c.panic = panic /\ c \notin crashed
  BY <1>1 DEF C!Crash, OffersInv, CrashTypes
<1> HIDE DEF c
<1>4. CrashTypes'
  <2>1. IsFiniteSet(crashed')
    BY <1>1, FS_AddElement DEF OffersInv, CrashTypes
  <2>2. /\ crashed' \subseteq C!Crash /\ \A d \in crashed' : d.time <= clock
    BY <1>1, <1>2, <1>3 DEF OffersInv, CrashTypes
  <2>3. CrashTypes
    BY DEF OffersInv
  <2> QED BY <1>1, <2>1, <2>2, <2>3 DEF CrashTypes
<1>5. \A d \in C!Crash : Displaced(d) => Displaced(d)'
  BY <1>1, <1>4, Displacing DEF CrashTypes
<1>6. Left'
  <2>1. /\ logs' \subseteq logs \cup {c} /\ (~panic => logs' = logs)
        /\ events' \subseteq events \cup {c} /\ events \subseteq events'
    BY <1>1 DEF C!NewestKept
  <2>2. ASSUME NEW d \in logs \cup {c}, panic, d \notin logs' PROVE Displaced(d)'
    <3> DEFINE all == logs \cup {c}
               newer == {x \in all : x.time > d.time}
    <3>1. ~(Cardinality(newer) < MaxKept)
      BY <1>1, <2>2, CountedAlike DEF C!NewestKept
    <3> DEFINE there == {x \in crashed' : x.panic /\ x.time > d.time}
    <3>2. newer \subseteq there /\ there \subseteq crashed'
      BY <1>1, <1>3, <2>2 DEF OffersInv, Left
    <3>3. /\ Cardinality(newer) \in Nat /\ Cardinality(there) \in Nat
          /\ Cardinality(newer) <= Cardinality(there)
      <4>1. IsFiniteSet(there)
        BY <1>4, <3>2, FS_Subset DEF CrashTypes
      <4> QED BY <3>2, <4>1, FS_Subset, FS_CardinalityType
    <3>4. Newer(d)' = there
      BY DEF Newer
    <3> HIDE DEF newer, there
    <3>5. Cardinality(there) >= MaxKept
      <4>1. MaxKept \in Nat
        BY CrashBounds
      <4> QED BY <3>1, <3>3, <4>1
    <3>6. d.panic
      BY <1>3, <2>2 DEF OffersInv, Left
    <3> QED BY <3>4, <3>5, <3>6 DEF Displaced
  <2>3. ASSUME NEW d \in crashed'
        PROVE  d \in logs' \cup events' \/ Displaced(d)'
    <3>1. d \in C!Crash
      BY <1>4 DEF CrashTypes
    <3>2. CASE d = c /\ ~panic
      BY <1>1, <3>2
    <3>3. CASE d = c /\ panic
      BY <1>3, <2>2, <3>3
    <3>4. CASE d \in crashed
      <4>1. d \in logs \cup events \/ Displaced(d)
        BY <3>4 DEF OffersInv, Left
      <4>2. CASE d \in logs
        <5>1. d.panic
          BY <4>2 DEF OffersInv, Left
        <5> QED BY <2>1, <2>2, <4>2, <5>1
      <4> QED BY <1>5, <2>1, <3>1, <4>1, <4>2
    <3> QED BY <1>1, <3>2, <3>3, <3>4
  <2>4. logs' \subseteq crashed' /\ events' \subseteq crashed' /\ \A d \in logs' : d.panic
    BY <1>1, <1>3, <2>1 DEF OffersInv, Left
  <2>5. \A d \in events' : ~d.panic
    BY <1>1, <1>3 DEF OffersInv, Left
  <2> QED BY <2>3, <2>4, <2>5 DEF Left
<1>7. Looking'
  <2>1. Looking /\ crashed \subseteq C!Crash
    BY DEF OffersInv, CrashTypes
  <2>2. CASE look' = C!Closed
    BY <2>2 DEF Looking, C!Closed
  <2> DEFINE reads == look.at = "offer" \/ (panic /\ look.at = "events")
  <2>3. CASE reads /\ look' = [look EXCEPT !.late = @ \cup {c}]
    <3>1. /\ look'.at = look.at /\ look'.logs = look.logs /\ look'.events = look.events
          /\ look'.late = look.late \cup {c} /\ DOMAIN look' = {"at", "logs", "events", "late"}
          /\ look' = [at |-> look'.at, logs |-> look'.logs, events |-> look'.events,
                      late |-> look'.late]
      BY <2>1, <2>3 DEF Looking
    <3>2. look'.at \in {"closed", "logs", "events", "offer", "open"}
          /\ look'.logs \subseteq crashed' /\ look'.events \subseteq crashed'
      BY <1>1, <2>1, <3>1 DEF Looking
    <3>3. ASSUME look'.at \in {"events", "offer"}, NEW d \in crashed', d.panic
          PROVE  d \in look'.logs \cup look'.late \/ Displaced(d)'
      BY <1>1, <1>5, <2>1, <3>1, <3>3 DEF Looking
    <3>4. ASSUME look'.at = "offer", NEW d \in crashed', ~d.panic
          PROVE  d \in look'.events \cup look'.late
      BY <1>1, <2>1, <3>1, <3>4 DEF Looking
    <3> QED BY <3>1, <3>2, <3>3, <3>4 DEF Looking
  <2>4. CASE ~reads /\ look' = look
    <3>1. look.at = "events" => ~panic
      BY <2>4
    <3>2. ASSUME look.at = "events", NEW d \in crashed', d.panic
          PROVE  d \in look.logs \cup look.late \/ Displaced(d)'
      <4>1. d \in crashed
        BY <1>1, <1>3, <3>1, <3>2
      <4> QED BY <1>5, <2>1, <3>2, <4>1 DEF Looking
    <3>3. look.at # "offer"
      BY <2>4
    <3>4. look.logs \subseteq crashed' /\ look.events \subseteq crashed'
      BY <1>1, <2>1 DEF Looking
    <3> QED BY <2>1, <2>4, <3>2, <3>3, <3>4 DEF Looking
  <2> QED BY <1>1, <2>2, <2>3, <2>4
<1>8. C!When(c) > seenUntil \/ c \in missed'
  <2>1. C!When(c) \in Nat
    BY <1>3, <1>4, WhenIs DEF OffersInv
  <2> QED BY <1>1, <1>2, <2>1
<1>9. Offered'
  <2>1. offered[c] = 0
    BY <1>3 DEF OffersInv, Offered
  <2>2. ASSUME NEW d \in crashed'
        PROVE  /\ offered[d] <= 1 + unsaved
               /\ C!When(d) > seenUntil => offered[d] <= unsaved
               /\ offered[d] = 0 => C!When(d) > seenUntil \/ Displaced(d)' \/ d \in missed'
    <3>1. unsaved \in Nat /\ d \in C!Crash
      BY <1>4 DEF OffersInv, CrashTypes
    <3>2. CASE d = c
      BY <1>8, <2>1, <3>1, <3>2
    <3>3. CASE d \in crashed
      <4>1. missed \subseteq missed'
        BY <1>1
      <4> QED BY <1>5, <3>1, <3>3, <4>1 DEF OffersInv, Offered
    <3> QED BY <1>1, <3>2, <3>3
  <2>3. \A d \in C!Crash : C!When(d)' = C!When(d)
    BY DEF C!When, C!SecondOf
  <2>4. \A d \in C!Crash \ crashed' : offered[d] = 0
    BY <1>1 DEF OffersInv, Offered
  <2> QED BY <1>1, <1>4, <2>2, <2>3, <2>4 DEF Offered, CrashTypes
<1> QED BY <1>4, <1>6, <1>7, <1>9 DEF OffersInv

LEMMA OfferStep ==
  ASSUME OffersInv, C!Offer PROVE OffersInv'
<1> DEFINE crashes == {c \in look.logs \cup look.events : C!When(c) > C!SeenUntil}
<1>1. /\ look.at = "offer" /\ UNCHANGED <<clock, logs, events, crashed>>
      /\ look' = [C!Closed EXCEPT !.at = "open"]
  BY DEF C!Offer
<1>2. offered' = [c \in C!Crash |-> IF c \in crashes THEN offered[c] + 1 ELSE offered[c]]
  BY DEF C!Offer, C!CrashesSince
<1>3. \/ seenUntil' = clock /\ missed' = missed \cup C!Unseen /\ unsaved' = unsaved
      \/ seenUntil' = seenUntil /\ missed' = missed /\ unsaved' = unsaved + 1
  BY DEF C!Offer
<1>4. CrashTypes /\ Left /\ Looking /\ Offered /\ crashed \subseteq C!Crash
  BY DEF OffersInv, CrashTypes
<1>5. /\ clock \in Nat /\ seenUntil \in Int /\ seenUntil <= clock /\ unsaved \in Nat
      /\ clock >= Second /\ clock <= MaxTime /\ seenUntil >= -1
  BY <1>4, ClockIs DEF CrashTypes
<1>6. /\ seenUntil' \in Int /\ seenUntil' >= C!Never /\ seenUntil' <= clock
      /\ seenUntil' >= seenUntil /\ unsaved' \in Nat /\ unsaved' >= unsaved
  BY <1>3, <1>4, <1>5 DEF CrashTypes, C!Never
<1>7. /\ C!SeenUntil \in Int
      /\ seenUntil # C!Never => C!SeenUntil = seenUntil
  BY <1>5, CrashBounds DEF C!SeenUntil
<1>8. ASSUME NEW c \in C!Crash, c \in crashed
      PROVE  C!When(c) \in Nat /\ C!When(c) <= clock
  <2>1. c.time <= clock /\ c.time \in Nat
    BY <1>4, <1>8, CrashBounds DEF CrashTypes, C!Crash
  <2> QED BY <1>4, <1>5, <2>1, WhenIs
<1>9. crashes \subseteq crashed /\ \A c \in crashes : C!When(c) > seenUntil
  <2>1. crashes \subseteq crashed
    BY <1>4 DEF Looking
  <2>2. ASSUME NEW c \in crashes PROVE C!When(c) > seenUntil
    <3>1. C!When(c) \in Nat /\ C!When(c) > C!SeenUntil
      BY <1>4, <1>8, <2>1
    <3>2. CASE seenUntil = C!Never
      BY <3>1, <3>2 DEF C!Never
    <3> QED BY <1>7, <3>1, <3>2
  <2> QED BY <2>1, <2>2
<1>10. ASSUME NEW c \in crashed, c \notin crashes, C!When(c) > seenUntil
       PROVE  c \in C!Unseen \/ Displaced(c)
  <2>1. C!When(c) \in Nat /\ C!SeenUntil \in Int
    BY <1>4, <1>7, <1>8
  <2>2. CASE C!When(c) > C!SeenUntil
    <3>1. c \notin look.logs \cup look.events
      BY <1>10, <2>2
    <3>2. c \in look.late \/ Displaced(c)
      BY <1>1, <1>4, <3>1 DEF Looking
    <3> QED BY <3>2 DEF C!Unseen
  <2>3. CASE C!When(c) <= C!SeenUntil
    <3>1. seenUntil = C!Never
      BY <1>5, <1>7, <1>10, <2>1, <2>3
    <3> QED BY <2>3, <3>1 DEF C!Unseen
  <2> QED BY <2>1, <2>2, <2>3
<1> HIDE DEF crashes
<1>11. /\ offered' \in [C!Crash -> Nat]
       /\ \A c \in C!Crash : offered'[c] = IF c \in crashes THEN offered[c] + 1 ELSE offered[c]
  BY <1>2, <1>4 DEF CrashTypes
<1>12. CrashTypes'
  BY <1>1, <1>4, <1>6, <1>11 DEF CrashTypes, C!Never
<1>13. Left' /\ Looking'
  <2>1. \A c : Displaced(c)' = Displaced(c)
    BY <1>1 DEF Displaced, Newer
  <2>2. Left'
    BY <1>1, <1>4, <2>1 DEF Left
  <2> QED BY <1>1, <2>2 DEF Looking, C!Closed
<1>14. Offered'
  <2>1. ASSUME NEW c \in crashed
        PROVE  /\ offered'[c] <= 1 + unsaved'
               /\ C!When(c) > seenUntil' => offered'[c] <= unsaved'
               /\ offered'[c] = 0 => C!When(c) > seenUntil' \/ Displaced(c) \/ c \in missed'
    <3>1. /\ c \in C!Crash /\ C!When(c) \in Nat /\ C!When(c) <= clock
          /\ offered[c] \in Nat
      BY <1>4, <1>8 DEF CrashTypes
    <3>2. /\ offered[c] <= 1 + unsaved
          /\ C!When(c) > seenUntil => offered[c] <= unsaved
          /\ offered[c] = 0 => C!When(c) > seenUntil \/ Displaced(c) \/ c \in missed
      BY <1>4 DEF Offered
    <3>3. CASE c \in crashes
      <4>1. offered'[c] = offered[c] + 1 /\ offered[c] <= unsaved
        BY <1>9, <1>11, <3>1, <3>2, <3>3
      <4>2. CASE seenUntil' = clock /\ unsaved' = unsaved
        BY <1>5, <3>1, <4>1, <4>2
      <4>3. CASE seenUntil' = seenUntil /\ unsaved' = unsaved + 1
        BY <1>5, <3>1, <4>1, <4>3
      <4> QED BY <1>3, <4>2, <4>3
    <3>4. CASE c \notin crashes
      <4>1. offered'[c] = offered[c]
        BY <1>11, <3>1, <3>4
      <4>2. C!When(c) > seenUntil => c \in C!Unseen \/ Displaced(c)
        BY <1>10, <3>4
      <4>3. CASE seenUntil' = clock /\ missed' = missed \cup C!Unseen /\ unsaved' = unsaved
        <5>1. offered[c] = 0 => Displaced(c) \/ c \in missed'
          BY <3>2, <4>2, <4>3
        <5>2. offered[c] <= 1 + unsaved /\ ~(C!When(c) > clock)
          BY <1>5, <3>1, <3>2
        <5> QED BY <4>1, <4>3, <5>1, <5>2
      <4>4. CASE seenUntil' = seenUntil /\ missed' = missed /\ unsaved' = unsaved + 1
        BY <1>5, <3>1, <3>2, <4>1, <4>4
      <4> QED BY <1>3, <4>3, <4>4
    <3> QED BY <3>3, <3>4
  <2>2. \A c \in C!Crash \ crashed : offered'[c] = 0
    BY <1>4, <1>9, <1>11 DEF Offered
  <2>3. \A c \in C!Crash : C!When(c)' = C!When(c) /\ Displaced(c)' = Displaced(c)
    BY <1>1 DEF C!When, C!SecondOf, Displaced, Newer
  <2> QED BY <1>1, <1>4, <2>1, <2>2, <2>3 DEF Offered
<1> QED BY <1>12, <1>13, <1>14 DEF OffersInv

(* The steps that offer nothing and leave nothing.                         *)
LEMMA LookStep ==
  ASSUME OffersInv, UNCHANGED <<logs, events, crashed, seenUntil, offered, unsaved, missed>>,
         Looking', clock' \in 0..MaxTime, clock' >= clock
  PROVE  OffersInv'
<1>1. /\ \A c : Displaced(c)' = Displaced(c)
      /\ \A c \in C!Crash : C!When(c)' = C!When(c)
  BY DEF Displaced, Newer, C!When, C!SecondOf
<1>2. CrashTypes /\ CrashTypes'
  <2>1. CrashTypes /\ MaxTime \in Nat /\ Second \in Nat
    BY CrashBounds DEF OffersInv
  <2>2. clock \in Nat /\ clock' \in Nat /\ seenUntil \in Int /\ seenUntil <= clock
    BY <2>1, ClockIs
  <2>3. \A c \in crashed : c.time \in Nat /\ c.time <= clock
    BY <2>1 DEF CrashTypes, C!Crash
  <2>4. clock' >= Second /\ seenUntil' <= clock' /\ \A c \in crashed : c.time <= clock'
    BY <2>1, <2>2, <2>3 DEF CrashTypes
  <2> QED BY <2>1, <2>4 DEF CrashTypes, C!Never
<1>3. Left'
  BY <1>1 DEF OffersInv, Left
<1>4. Offered'
  BY <1>1, <1>2 DEF OffersInv, Offered, CrashTypes
<1> QED BY <1>2, <1>3, <1>4 DEF OffersInv

LEMMA OffersStep == OffersInv /\ [Next]_vars => OffersInv'
<1> SUFFICES ASSUME OffersInv, [Next]_vars PROVE OffersInv'
  OBVIOUS
<1>0. clock \in 0..MaxTime /\ clock \in Nat /\ MaxTime \in Nat
  BY ClockIs, CrashBounds DEF OffersInv
<1>1. CASE C!OpenWindow \/ C!ReadLogs \/ C!ReadEvents \/ C!CloseWindow
  <2>1. UNCHANGED <<clock, logs, events, crashed, seenUntil, offered, unsaved, missed>>
    BY <1>1 DEF C!OpenWindow, C!ReadLogs, C!ReadEvents, C!CloseWindow
  <2>0. Looking /\ Left /\ \A c : Displaced(c)' = Displaced(c)
    BY <2>1 DEF OffersInv, Displaced, Newer
  <2>2. Looking'
    <3>1. CASE C!OpenWindow
      BY <2>1, <3>1 DEF C!OpenWindow, C!Closed, Looking
    <3>2. CASE C!ReadLogs
      <4>1. look' = [at |-> "events", logs |-> logs, events |-> look.events, late |-> look.late]
        BY <2>0, <3>2 DEF C!ReadLogs, Looking
      <4>2. ASSUME NEW c \in crashed, c.panic PROVE c \in logs \/ Displaced(c)
        BY <2>0, <4>2 DEF Left
      <4>3. logs \subseteq crashed /\ look.events \subseteq crashed
        BY <2>0 DEF Left, Looking
      <4> QED BY <2>0, <2>1, <4>1, <4>2, <4>3 DEF Looking
    <3>3. CASE C!ReadEvents
      <4>1. PICK since \in (clock - LookBack)..(clock + 1) :
              look' = [look EXCEPT !.at = "offer", !.events = {e \in events : e.time >= since},
                                   !.late = @ \cup {e \in events : e.time < since}]
        BY <3>3 DEF C!ReadEvents
      <4> DEFINE read == {e \in events : e.time >= since}
                 old == {e \in events : e.time < since}
      <4>2. look' = [at |-> "offer", logs |-> look.logs, events |-> read,
                     late |-> look.late \cup old]
        BY <2>0, <4>1 DEF Looking
      <4>3. read \cup old = events
        <5>1. since \in Int
          BY <1>0, <4>1, CrashBounds
        <5>2. \A e \in events : e.time \in Int
          BY <2>0, CrashBounds DEF OffersInv, CrashTypes, Left, C!Crash
        <5> QED BY <5>1, <5>2
      <4>4. ASSUME NEW c \in crashed, ~c.panic PROVE c \in events
        BY <2>0, <4>4 DEF Left, Displaced
      <4>5. look.at = "events" /\ look.logs \subseteq crashed /\ events \subseteq crashed
        BY <2>0, <3>3 DEF Left, Looking, C!ReadEvents
      <4> HIDE DEF read, old
      <4>6. read \subseteq crashed
        BY <4>3, <4>5
      <4>7. \A c \in crashed : c.panic => c \in look.logs \cup look.late \/ Displaced(c)
        BY <2>0, <4>5 DEF Looking
      <4> QED BY <2>0, <2>1, <4>2, <4>3, <4>4, <4>5, <4>6, <4>7 DEF Looking
    <3>4. CASE C!CloseWindow
      BY <2>1, <3>4 DEF C!CloseWindow, C!Closed, Looking
    <3> QED BY <1>1, <3>1, <3>2, <3>3, <3>4
  <2> QED BY <1>0, <2>1, <2>2, LookStep
<1>2. CASE C!Tick
  <2>1. /\ clock' \in 0..MaxTime /\ clock' >= clock
        /\ UNCHANGED <<logs, events, crashed, seenUntil, look, offered, unsaved, missed>>
    BY <1>0, <1>2 DEF C!Tick
  <2>2. Looking'
    BY <2>1 DEF OffersInv, Looking, Displaced, Newer
  <2> QED BY <2>1, <2>2, LookStep
<1>3. CASE UNCHANGED offersVars
  <2>1. UNCHANGED <<clock, logs, events, crashed, seenUntil, look, offered, unsaved, missed>>
    BY <1>3 DEF offersVars
  <2>2. Looking'
    BY <2>1 DEF OffersInv, Looking, Displaced, Newer
  <2> QED BY <1>0, <2>1, <2>2, LookStep
<1>4. C!Next \/ UNCHANGED offersVars
  BY DEF Next, vars
<1> QED BY <1>1, <1>2, <1>3, <1>4, CrashesStep, OfferStep DEF C!Next

LEMMA EachIsOffered == OffersInv => C!OfferedOnce
<1> SUFFICES ASSUME OffersInv, NEW c \in crashed
             PROVE  /\ offered[c] <= 1 + unsaved
                    /\ offered[c] = 0 => C!When(c) > seenUntil \/ Displaced(c) \/ c \in missed
                    /\ offered[c] = 0 /\ c \notin logs \cup events => Displaced(c)
  BY CountedAlike DEF C!OfferedOnce, C!Displaced, Displaced, Newer
<1> QED BY DEF OffersInv, Offered, Left

---------------------------------------------------------------------------
(* AuditLog. Who is about to do what.                                      *)
AuditTypes ==
  /\ entries \in [A!Numbers -> Seq(Int)]
  /\ DOMAIN writer = Writers
  /\ \A w \in Writers :
       writer[w].at \in {"idle", "rotate", "append"} \cup A!Rotating \cup A!TakingOver
  /\ written \in Nat /\ held = {}

AtMostOne(places) ==
  \A v, w \in Writers : writer[v].at \in places /\ writer[w].at \in places => v = w

(* Who rotates does so alone, a full file, into a place that is free.      *)
OneRotates ==
  /\ AtMostOne(A!Rotating)
  /\ \A w \in Writers :
       /\ writer[w].at \in A!Rotating => Len(entries[0]) >= Full
       /\ writer[w].at = "shift" =>
            /\ writer[w].file \in 0..(MaxRotated - 1)
            /\ entries[writer[w].file + 1] = <<>>

(* Until history.json is taken over, by one, nothing else is logged.       *)
OneTakesOver ==
  /\ AtMostOne(A!TakingOver)
  /\ legacy =>
       /\ taken /\ written = 0 /\ \A n \in A!Numbers \ {0} : entries[n] = <<>>
       /\ entries[0] = <<>> \/ \E w \in Writers : writer[w].at \in A!TakingOver
  /\ \A w \in Writers :
       /\ legacy => writer[w].at \in {"idle"} \cup A!TakingOver
       /\ writer[w].at \in A!TakingOver => legacy
       /\ writer[w].at = "take over" =>
            \/ writer[w].file = 1 /\ entries[0] = <<>>
            \/ writer[w].file = 2 /\ entries[0] = <<-1>>
       /\ writer[w].at = "remove" => entries[0] = A!Older

Ordered ==
  \A m, n \in A!Numbers : \A i \in DOMAIN entries[m], j \in DOMAIN entries[n] :
    m > n \/ (m = n /\ i < j) => entries[m][i] < entries[n][j]

(* The files hold all the entries from one on, until the last one written; *)
(* those before it went with a full set of files.                          *)
NoGap ==
  /\ \A e \in A!Recorded : e <= written
  /\ \A e, d \in A!Recorded : \A x \in Int : e <= x /\ x <= d => x \in A!Recorded
  /\ ~legacy => A!Recorded = {} \/ written \in A!Recorded
  /\ written > 0 => A!Recorded # {}

First == IF taken THEN -1 ELSE 1
KeptLong ==
  ~legacy => \A e \in Int : First <= e /\ e <= written =>
               e \in A!Recorded \/ e + MaxRotated * Full <= written

(* After each entry of an older file as many were logged as fill the ones  *)
(* between, but for the file that the rotation has moved away from here.   *)
Moved(n) == \E w \in Writers : writer[w].at = "shift" /\ n > writer[w].file + 1
Behind(n) == IF Moved(n) THEN n - 2 ELSE n - 1
Rotated ==
  \A n \in A!Numbers \ {0} : \A i \in DOMAIN entries[n] :
    entries[n][i] + Len(entries[0]) + Behind(n) * Full <= written

AuditInv ==
  AuditTypes /\ OneRotates /\ OneTakesOver /\ Ordered /\ NoGap /\ KeptLong /\ Rotated

LEMMA AuditBounds ==
  /\ Full \in Nat \ {0} /\ MaxRotated \in Nat \ {0}
  /\ A!Numbers = 0..MaxRotated /\ 0 \in A!Numbers /\ MaxRotated \in A!Numbers
<1>1. Full \in Nat \ {0} /\ MaxRotated \in Nat \ {0}
  BY RecordsAssumption DEF A!AuditLogAssumption
<1> QED BY <1>1 DEF A!Numbers

LEMMA Fills ==
  \A k \in Nat : k * Full \in Nat /\ (k + 1) * Full = k * Full + Full /\ 0 * Full = 0
BY AuditBounds

LEMMA RecordedIs ==
  \A e : e \in A!Recorded <=> \E n \in A!Numbers : \E i \in DOMAIN entries[n] : e = entries[n][i]
BY DEF A!Recorded, A!ToSet

LEMMA AuditInit ==
  ASSUME "held" \notin Tears
  PROVE  Init => AuditInv
<1> SUFFICES ASSUME Init PROVE AuditInv
  OBVIOUS
<1>1. A!Init
  BY DEF Init
<1>2. /\ entries = [n \in A!Numbers |-> <<>>] /\ writer = [w \in Writers |-> A!Writing]
      /\ written = 0 /\ held = {} /\ legacy \in BOOLEAN /\ taken = legacy
  BY <1>1 DEF A!Init
<1>3. AuditTypes
  BY <1>2 DEF AuditTypes, A!Writing
<1>4. OneRotates
  BY <1>2 DEF OneRotates, AtMostOne, A!Writing, A!Rotating
<1>5. OneTakesOver
  BY <1>2, AuditBounds DEF OneTakesOver, AtMostOne, A!Writing, A!TakingOver
<1>6. A!Recorded = {}
  BY <1>2, RecordedIs
<1>7. Ordered /\ Rotated
  BY <1>2 DEF Ordered, Rotated
<1>8. NoGap
  BY <1>2, <1>6 DEF NoGap
<1>9. KeptLong
  BY <1>2 DEF KeptLong, First
<1> QED BY <1>3, <1>4, <1>5, <1>7, <1>8, <1>9 DEF AuditInv

LEMMA Going ==
  ASSUME AuditTypes, NEW w \in Writers, NEW place, NEW k, A!Goes(w, place, k)
  PROVE  /\ DOMAIN writer' = Writers /\ writer'[w].at = place /\ writer'[w].file = k
         /\ \A v \in Writers \ {w} : writer'[v] = writer[v]
BY DEF AuditTypes, A!Goes

(* A step that writes nothing and begins or ends no move.                  *)
LEMMA StayRecorded ==
  ASSUME AuditInv, UNCHANGED <<entries, written, legacy, taken>>,
         \A n \in A!Numbers : Moved(n)' <=> Moved(n)
  PROVE  Ordered' /\ NoGap' /\ KeptLong' /\ Rotated'
<1> DEFINE stored == A!Recorded
<1>0. stored' = stored /\ First' = First
  BY DEF A!Recorded, First
<1> HIDE DEF stored
<1>1. Ordered' /\ NoGap' /\ KeptLong'
  <2>1. Ordered'
    BY DEF AuditInv, Ordered
  <2>2. NoGap'
    BY <1>0 DEF AuditInv, NoGap, stored
  <2>3. KeptLong'
    BY <1>0 DEF AuditInv, KeptLong, stored
  <2> QED BY <2>1, <2>2, <2>3
<1>2. \A n \in A!Numbers : Behind(n)' = Behind(n)
  BY DEF Behind
<1>3. Rotated'
  BY <1>2 DEF AuditInv, Rotated
<1> QED BY <1>1, <1>3

LEMMA NoMove ==
  ASSUME AuditTypes, NEW w \in Writers, NEW place, NEW k, A!Goes(w, place, k),
         writer[w].at # "shift", place # "shift"
  PROVE  \A n : Moved(n)' <=> Moved(n)
<1>1. /\ writer'[w].at # "shift"
      /\ \A v \in Writers \ {w} : writer'[v] = writer[v]
  BY Going
<1> QED BY <1>1 DEF Moved

LEMMA TakeoverBegins ==
  ASSUME AuditInv, NEW w \in Writers, writer[w].at = "idle", A!NotTakenOver,
         \A v \in Writers \ {w} : writer[v].at \notin A!TakingOver,
         A!Goes(w, "take over", 1), UNCHANGED <<entries, written, held, legacy, taken>>
  PROVE  AuditInv'
<1>1. /\ DOMAIN writer' = Writers /\ writer'[w].at = "take over" /\ writer'[w].file = 1
      /\ \A v \in Writers \ {w} : writer'[v] = writer[v]
  BY Going DEF AuditInv
<1>2. legacy /\ entries[0] = <<>>
  BY DEF A!NotTakenOver
<1>3. Ordered' /\ NoGap' /\ KeptLong' /\ Rotated'
  BY NoMove, StayRecorded DEF AuditInv
<1>4. AuditTypes'
  BY <1>1 DEF AuditInv, AuditTypes, A!Rotating, A!TakingOver
<1>5. OneRotates'
  BY <1>1 DEF AuditInv, OneRotates, AtMostOne, A!Rotating
<1>6. OneTakesOver'
  <2>1. OneTakesOver
    BY DEF AuditInv
  <2>2. AtMostOne(A!TakingOver)'
    BY <1>1 DEF AtMostOne
  <2>3. /\ taken /\ written = 0 /\ \A n \in A!Numbers \ {0} : entries[n] = <<>>
        /\ \A v \in Writers : writer[v].at \in {"idle"} \cup A!TakingOver
    BY <1>2, <2>1 DEF OneTakesOver
  <2>4. \A v \in Writers :
          /\ writer'[v].at \in {"idle"} \cup A!TakingOver
          /\ writer'[v].at = "take over" => writer'[v].file = 1 /\ entries[0] = <<>>
          /\ writer'[v].at # "remove"
    BY <1>1, <1>2, <2>3 DEF A!TakingOver
  <2> QED BY <1>2, <2>2, <2>3, <2>4 DEF OneTakesOver
<1> QED BY <1>3, <1>4, <1>5, <1>6 DEF AuditInv

LEMMA Rests ==
  ASSUME AuditInv, NEW w \in Writers, writer[w].at \notin A!Rotating \cup A!TakingOver, ~legacy,
         NEW place \in {"idle", "append"}, A!Goes(w, place, 0),
         UNCHANGED <<entries, written, held, legacy, taken>>
  PROVE  AuditInv'
<1>1. /\ DOMAIN writer' = Writers /\ writer'[w].at = place
      /\ \A v \in Writers \ {w} : writer'[v] = writer[v]
  BY Going DEF AuditInv
<1>2. writer[w].at # "shift" /\ place # "shift"
  BY DEF A!Rotating
<1>3. Ordered' /\ NoGap' /\ KeptLong' /\ Rotated'
  BY <1>2, NoMove, StayRecorded DEF AuditInv
<1>4. AuditTypes'
  BY <1>1 DEF AuditInv, AuditTypes
<1>5. OneRotates'
  BY <1>1 DEF AuditInv, OneRotates, AtMostOne, A!Rotating
<1>6. OneTakesOver'
  BY <1>1 DEF AuditInv, OneTakesOver, AtMostOne, A!TakingOver
<1> QED BY <1>3, <1>4, <1>5, <1>6 DEF AuditInv

LEMMA RotateIfNeededStep ==
  ASSUME "together" \notin Tears, AuditInv, NEW w \in Writers,
         writer[w].at \notin A!Rotating \cup A!TakingOver, ~legacy,
         A!RotateIfNeeded(w), UNCHANGED <<entries, written, held, legacy, taken>>
  PROVE  AuditInv'
<1>1. CASE A!IsFull
  <2>1. /\ A!Goes(w, "oldest", MaxRotated)
        /\ \A v \in Writers \ {w} : writer[v].at \notin A!Rotating
    BY <1>1 DEF A!RotateIfNeeded, A!Alone
  <2>2. /\ DOMAIN writer' = Writers /\ writer'[w].at = "oldest"
        /\ \A v \in Writers \ {w} : writer'[v] = writer[v]
    BY <2>1, Going DEF AuditInv
  <2>3. writer[w].at # "shift"
    BY DEF A!Rotating
  <2>4. Ordered' /\ NoGap' /\ KeptLong' /\ Rotated'
    BY <2>1, <2>3, NoMove, StayRecorded DEF AuditInv
  <2>5. AuditTypes'
    BY <2>2 DEF AuditInv, AuditTypes, A!Rotating
  <2>6. OneRotates'
    BY <1>1, <2>1, <2>2 DEF AuditInv, OneRotates, AtMostOne, A!Rotating, A!IsFull
  <2>7. OneTakesOver'
    BY <2>2 DEF AuditInv, OneTakesOver, AtMostOne, A!TakingOver
  <2> QED BY <2>4, <2>5, <2>6, <2>7 DEF AuditInv
<1>2. CASE ~A!IsFull
  BY <1>2, Rests DEF A!RotateIfNeeded
<1> QED BY <1>1, <1>2

LEMMA LogStep ==
  ASSUME "together" \notin Tears, AuditInv, NEW w \in Writers, A!Log(w) \/ A!GetHistory(w)
  PROVE  AuditInv'
<1>1. /\ writer[w].at = "idle" /\ UNCHANGED <<entries, written, held, legacy, taken>>
      /\ \A v \in Writers \ {w} : writer[v].at \notin A!TakingOver
      /\ \/ A!NotTakenOver /\ A!Goes(w, "take over", 1)
         \/ ~A!NotTakenOver /\ A!RotateIfNeeded(w)
  BY DEF A!Log, A!GetHistory, A!Alone
<1>2. CASE A!NotTakenOver
  BY <1>1, <1>2, TakeoverBegins
<1>3. CASE ~A!NotTakenOver
  <2>1. ~legacy
    BY <1>1, <1>3 DEF A!NotTakenOver, AuditInv, OneTakesOver, A!TakingOver
  <2> QED BY <1>1, <1>3, <2>1, RotateIfNeededStep DEF A!Rotating, A!TakingOver
<1> QED BY <1>2, <1>3

(* What is taken over, one after the other.                                *)
LEMMA Taking ==
  /\ Append(<<>>, -1) = <<-1>> /\ Append(<<-1>>, 0) = <<-1, 0>>
  /\ A!Older = <<-1, 0>> /\ Len(A!Older) = 2 /\ A!Older[1] = -1 /\ A!Older[2] = 0
  /\ \A s \in {<<-1>>, <<-1, 0>>} :
       /\ s \in Seq(Int) /\ DOMAIN s \in {1..1, 1..2} /\ s # <<>>
       /\ s[1] = -1 /\ (2 \in DOMAIN s => s[2] = 0)
<1> DEFINE t == Append(<<-1>>, 0)
<1>1. <<-1>> \in Seq(Int) /\ <<-1, 0>> \in Seq(Int)
  OBVIOUS
<1>2. t \in Seq(Int) /\ Len(t) = 2 /\ t[1] = -1 /\ t[2] = 0
  BY <1>1
<1>3. Append(<<>>, -1) = <<-1>>
  OBVIOUS
<1>4. t = <<-1, 0>>
  <2> HIDE DEF t
  <2> QED BY <1>2
<1>5. A!Older = <<-1, 0>> /\ Len(A!Older) = 2 /\ A!Older[1] = -1 /\ A!Older[2] = 0
  BY DEF A!Older
<1>6. /\ DOMAIN <<-1>> = 1..1 /\ <<-1>>[1] = -1 /\ <<-1>> # <<>>
      /\ DOMAIN <<-1, 0>> = 1..2 /\ <<-1, 0>>[1] = -1 /\ <<-1, 0>>[2] = 0 /\ <<-1, 0>> # <<>>
      /\ 2 \notin 1..1
  OBVIOUS
<1> QED BY <1>1, <1>3, <1>4, <1>5, <1>6

LEMMA TakeOverStep ==
  ASSUME "unread" \notin Tears, AuditInv, NEW w \in Writers, A!TakeOver(w)
  PROVE  AuditInv'
<1> DEFINE i == writer[w].file
           all == entries'[0]
<1>1. /\ writer[w].at = "take over" /\ UNCHANGED <<written, held, legacy, taken>>
      /\ entries' = [entries EXCEPT ![0] = Append(@, A!Older[i])]
      /\ IF i < Len(A!Older) THEN A!Goes(w, "take over", i + 1) ELSE A!Goes(w, "remove", 0)
  BY DEF A!TakeOver
<1>2. /\ legacy /\ taken /\ written = 0
      /\ \A n \in A!Numbers \ {0} : entries[n] = <<>>
      /\ \A v \in Writers : writer[v].at \in {"idle"} \cup A!TakingOver
      /\ \A v \in Writers \ {w} : writer[v].at \notin A!TakingOver
  BY <1>1 DEF AuditInv, OneTakesOver, AtMostOne, A!TakingOver
<1>3. (i = 1 /\ entries[0] = <<>>) \/ (i = 2 /\ entries[0] = <<-1>>)
  BY <1>1 DEF AuditInv, OneTakesOver
<1>4. /\ \A n \in A!Numbers \ {0} : entries'[n] = <<>>
      /\ entries'[0] = Append(entries[0], A!Older[i])
      /\ DOMAIN entries' = A!Numbers
  BY <1>1, <1>2, AuditBounds DEF AuditInv, AuditTypes
<1> HIDE DEF i, all
<1>6. /\ i = 1 => all = <<-1>> /\ A!Goes(w, "take over", i + 1) /\ i + 1 = 2
      /\ i = 2 => all = A!Older /\ A!Goes(w, "remove", 0)
  <2>1. ASSUME i = 1 PROVE all = <<-1>> /\ A!Goes(w, "take over", i + 1) /\ i + 1 = 2
    <3>1. A!Older[i] = -1 /\ i < Len(A!Older) /\ i + 1 = 2
      BY <2>1, Taking
    <3>2. entries[0] = <<>>
      BY <1>3, <2>1
    <3>3. all = Append(<<>>, -1)
      BY <1>4, <3>1, <3>2 DEF all
    <3> QED BY <1>1, <3>1, <3>3, Taking
  <2>2. ASSUME i = 2 PROVE all = A!Older /\ A!Goes(w, "remove", 0)
    <3>1. A!Older[i] = 0 /\ ~(i < Len(A!Older))
      BY <2>2, Taking
    <3>2. entries[0] = <<-1>>
      BY <1>3, <2>2
    <3>3. all = Append(<<-1>>, 0)
      BY <1>4, <3>1, <3>2 DEF all
    <3> QED BY <1>1, <3>1, <3>3, Taking
  <2> QED BY <2>1, <2>2
<1>7. /\ DOMAIN writer' = Writers /\ writer'[w].at \in {"take over", "remove"}
      /\ \A v \in Writers \ {w} : writer'[v] = writer[v]
      /\ writer'[w].at = "take over" => writer'[w].file = 2 /\ all = <<-1>>
      /\ writer'[w].at = "remove" => all = A!Older
  <2>0. AuditTypes
    BY DEF AuditInv
  <2>1. CASE i = 1
    <3>1. all = <<-1>> /\ A!Goes(w, "take over", i + 1) /\ i + 1 = 2
      BY <1>6, <2>1
    <3>2. writer'[w].at = "take over" /\ writer'[w].file = i + 1
      BY <2>0, <3>1 DEF AuditTypes, A!Goes
    <3>3. DOMAIN writer' = Writers /\ \A v \in Writers \ {w} : writer'[v] = writer[v]
      BY <2>0, <3>1, Going
    <3> QED BY <3>1, <3>2, <3>3
  <2>2. CASE i = 2
    <3>1. all = A!Older /\ A!Goes(w, "remove", 0)
      BY <1>6, <2>2
    <3>2. writer'[w].at = "remove"
      BY <2>0, <3>1, Going
    <3>3. DOMAIN writer' = Writers /\ \A v \in Writers \ {w} : writer'[v] = writer[v]
      BY <2>0, <3>1, Going
    <3> QED BY <3>1, <3>2, <3>3
  <2> QED BY <1>3, <2>1, <2>2
<1>8. /\ all \in Seq(Int) /\ DOMAIN all \in {1..1, 1..2}
      /\ all[1] = -1 /\ (2 \in DOMAIN all => all[2] = 0)
  <2>1. all \in {<<-1>>, <<-1, 0>>}
    BY <1>3, <1>6, Taking
  <2> QED BY <2>1, Taking
<1>9. entries' \in [A!Numbers -> Seq(Int)] /\ entries'[0] = all
  BY <1>1, <1>4, <1>8 DEF AuditInv, AuditTypes, all
<1>10. AuditTypes'
  BY <1>1, <1>7, <1>9 DEF AuditInv, AuditTypes, A!TakingOver
<1>11. OneRotates'
  <2>1. \A v \in Writers : writer'[v].at \notin A!Rotating
    BY <1>2, <1>7 DEF A!Rotating, A!TakingOver
  <2> QED BY <2>1 DEF OneRotates, AtMostOne, A!Rotating
<1>12. OneTakesOver'
  <2>1. AtMostOne(A!TakingOver)'
    <3>1. \A v \in Writers : writer'[v].at \in A!TakingOver => v = w
      BY <1>2, <1>7
    <3> QED BY <3>1 DEF AtMostOne, A!TakingOver
  <2>2. \A v \in Writers :
          /\ writer'[v].at \in {"idle"} \cup A!TakingOver
          /\ writer'[v].at = "take over" => writer'[v].file = 2 /\ all = <<-1>>
          /\ writer'[v].at = "remove" => all = A!Older
    BY <1>2, <1>7 DEF A!TakingOver
  <2>3. \E v \in Writers : writer'[v].at \in A!TakingOver
    BY <1>7 DEF A!TakingOver
  <2> QED BY <1>1, <1>2, <1>4, <1>9, <2>1, <2>2, <2>3 DEF OneTakesOver
<1>13. Ordered'
  <2>1. ASSUME NEW m \in A!Numbers, NEW n \in A!Numbers, NEW j \in DOMAIN entries'[m],
               NEW k \in DOMAIN entries'[n], m > n \/ (m = n /\ j < k)
        PROVE  entries'[m][j] < entries'[n][k]
    <3>1. m = 0 /\ n = 0
      BY <1>4, <2>1
    <3> QED BY <1>8, <1>9, <2>1, <3>1
  <2> QED BY <2>1 DEF Ordered
<1>14. A!Recorded' \in {{-1}, {-1, 0}}
  <2>1. A!Recorded' = {all[j] : j \in DOMAIN all}
    <3>1. \A n \in A!Numbers \ {0} : A!ToSet(entries'[n]) = {}
      BY <1>4 DEF A!ToSet
    <3>2. A!Recorded' = A!ToSet(entries'[0])
      BY <3>1, AuditBounds DEF A!Recorded
    <3> QED BY <1>9, <3>2 DEF A!ToSet
  <2> QED BY <1>8, <2>1
<1> DEFINE stored == A!Recorded'
<1> HIDE DEF stored
<1>15. NoGap'
  <2>1. /\ \A e \in stored : e <= 0
        /\ \A e, d \in stored : \A x \in Int : e <= x /\ x <= d => x \in stored
        /\ stored # {}
    BY <1>14 DEF stored
  <2> QED BY <1>1, <1>2, <2>1 DEF NoGap, stored
<1>16. KeptLong'
  BY <1>1, <1>2 DEF KeptLong
<1>17. Rotated'
  BY <1>4 DEF Rotated
<1> QED BY <1>10, <1>11, <1>12, <1>13, <1>15, <1>16, <1>17 DEF AuditInv

LEMMA RemoveLegacyStep ==
  ASSUME AuditInv, NEW w \in Writers, A!RemoveLegacy(w)
  PROVE  AuditInv'
<1>1. /\ writer[w].at = "remove" /\ legacy' = FALSE
      /\ UNCHANGED <<entries, written, held, taken>>
  BY DEF A!RemoveLegacy
<1>2. /\ legacy /\ taken /\ written = 0 /\ entries[0] = A!Older
      /\ \A v \in Writers : writer[v].at \in {"idle"} \cup A!TakingOver
      /\ \A v \in Writers \ {w} : writer[v].at \notin A!TakingOver
  BY <1>1 DEF AuditInv, OneTakesOver, AtMostOne, A!TakingOver
<1>3. PICK place \in {"idle", "rotate"} : A!Goes(w, place, 0)
  BY DEF A!RemoveLegacy
<1>4. /\ DOMAIN writer' = Writers /\ writer'[w].at = place
      /\ \A v \in Writers \ {w} : writer'[v] = writer[v]
  BY <1>3, Going DEF AuditInv
<1>5. AuditTypes'
  BY <1>1, <1>4 DEF AuditInv, AuditTypes
<1>6. \A v \in Writers : writer'[v].at \in {"idle", "rotate"}
  BY <1>2, <1>4
<1>7. OneRotates' /\ OneTakesOver'
  BY <1>1, <1>6 DEF OneRotates, OneTakesOver, AtMostOne, A!Rotating, A!TakingOver
<1>8. -1 \in A!Recorded /\ 0 \in A!Recorded
  <2>1. 1 \in DOMAIN entries[0] /\ 2 \in DOMAIN entries[0] /\ entries[0][1] = -1 /\ entries[0][2] = 0
    BY <1>2 DEF A!Older
  <2> QED BY <2>1, RecordedIs, AuditBounds
<1> DEFINE stored == A!Recorded
<1>9. stored' = stored
  BY <1>1 DEF A!Recorded
<1>10. NoGap /\ Ordered /\ Rotated
  BY DEF AuditInv
<1>11. \A e \in Int : -1 <= e /\ e <= 0 => e \in stored
  BY <1>8
<1> HIDE DEF stored
<1>12. Ordered'
  BY <1>1, <1>10 DEF Ordered
<1>13. NoGap'
  BY <1>1, <1>2, <1>8, <1>9, <1>10 DEF NoGap, stored
<1>14. KeptLong'
  <2>1. First' = -1
    BY <1>1, <1>2 DEF First
  <2> QED BY <1>1, <1>2, <1>9, <1>11, <2>1 DEF KeptLong, stored
<1>15. Rotated'
  <2>1. \A n : Behind(n)' = Behind(n)
    <3>1. \A n : Moved(n)' <=> Moved(n)
      BY <1>3, <1>1, NoMove DEF AuditInv
    <3> QED BY <3>1 DEF Behind
  <2> QED BY <1>1, <1>10, <2>1 DEF Rotated
<1> QED BY <1>5, <1>7, <1>12, <1>13, <1>14, <1>15 DEF AuditInv

LEMMA AppendEntryStep ==
  ASSUME AuditInv, NEW w \in Writers, A!AppendEntry(w)
  PROVE  AuditInv'
<1>1. writer[w].at = "append" /\ A!Goes(w, "idle", 0) /\ UNCHANGED <<held, legacy, taken>>
  BY DEF A!AppendEntry
<1>2. ~legacy
  BY <1>1 DEF AuditInv, OneTakesOver, A!TakingOver
<1>3. CASE UNCHANGED <<entries, written>>
  BY <1>1, <1>2, <1>3, Rests DEF A!Rotating, A!TakingOver
<1>4. CASE written' = written + 1 /\ entries' = [entries EXCEPT ![0] = Append(@, written')]
  <2> DEFINE old == entries[0]
             new == Append(old, written')
  <2>1. written \in Nat /\ entries \in [A!Numbers -> Seq(Int)] /\ old \in Seq(Int)
    BY AuditBounds DEF AuditInv, AuditTypes
  <2>2. /\ new \in Seq(Int) /\ Len(new) = Len(old) + 1 /\ DOMAIN new = 1..Len(new)
        /\ DOMAIN old = 1..Len(old) /\ Len(old) \in Nat
        /\ \A i \in DOMAIN old : new[i] = old[i]
        /\ new[Len(new)] = written'
    BY <1>4, <2>1
  <2>3. /\ entries' \in [A!Numbers -> Seq(Int)] /\ entries'[0] = new
        /\ \A n \in A!Numbers \ {0} : entries'[n] = entries[n]
    BY <1>4, <2>1, <2>2, AuditBounds
  <2>4. \A i \in DOMAIN new : (i \in DOMAIN old /\ new[i] = old[i]) \/ new[i] = written'
    BY <2>2
  <2>5. \A i \in DOMAIN new : \A j \in DOMAIN new :
          i < j => /\ i \in DOMAIN old /\ new[i] = old[i]
                   /\ (j \in DOMAIN old /\ new[j] = old[j]) \/ new[j] = written'
    BY <2>2
  <2>6. Len(entries'[0]) = Len(entries[0]) + 1 /\ Len(entries[0]) \in Nat
    BY <2>2, <2>3
  <2> HIDE DEF new
  <2>7. /\ DOMAIN writer' = Writers /\ writer'[w].at = "idle"
        /\ \A v \in Writers \ {w} : writer'[v] = writer[v]
    BY <1>1, Going DEF AuditInv
  <2>8. AuditTypes'
    <3>1. AuditTypes /\ written' \in Nat /\ held' = held
      BY <1>1, <1>4, <2>1 DEF AuditInv
    <3> QED BY <2>3, <2>7, <3>1 DEF AuditTypes
  <2>9. OneRotates'
    <3>1. Full \in Nat
      BY AuditBounds
    <3>2. \A k \in 0..(MaxRotated - 1) : k + 1 \in A!Numbers \ {0}
      BY AuditBounds
    <3>3. OneRotates
      BY DEF AuditInv
    <3>4. AtMostOne(A!Rotating)'
      BY <2>7, <3>3 DEF OneRotates, AtMostOne, A!Rotating
    <3>5. ASSUME NEW v \in Writers, writer'[v].at \in A!Rotating
          PROVE  /\ Len(entries'[0]) >= Full
                 /\ writer'[v].at = "shift" =>
                      /\ writer'[v].file \in 0..(MaxRotated - 1)
                      /\ entries'[writer'[v].file + 1] = <<>>
      <4>1. v # w /\ writer'[v] = writer[v]
        BY <2>7, <3>5 DEF A!Rotating
      <4>2. Len(entries'[0]) >= Full
        BY <2>6, <3>1, <3>3, <3>5, <4>1 DEF OneRotates
      <4>3. CASE writer[v].at = "shift"
        <5> DEFINE k == writer[v].file
        <5>1. k \in 0..(MaxRotated - 1) /\ entries[k + 1] = <<>>
          BY <3>3, <4>3 DEF OneRotates
        <5> HIDE DEF k
        <5>2. entries'[k + 1] = <<>>
          BY <2>3, <3>2, <5>1
        <5> QED BY <4>1, <4>2, <5>1, <5>2 DEF k
      <4> QED BY <4>1, <4>2, <4>3
    <3>6. \A v \in Writers : writer'[v].at = "shift" => writer'[v].at \in A!Rotating
      BY DEF A!Rotating
    <3> QED BY <3>4, <3>5, <3>6 DEF OneRotates
  <2>10. OneTakesOver'
    <3>1. \A v \in Writers : writer[v].at \notin A!TakingOver
      BY <1>2 DEF AuditInv, OneTakesOver
    <3>2. \A v \in Writers : writer'[v].at \notin A!TakingOver
      BY <2>7, <3>1 DEF A!TakingOver
    <3> QED BY <1>1, <1>2, <3>2 DEF OneTakesOver, AtMostOne, A!TakingOver
  <2> DEFINE stored == A!Recorded
  <2>11. A!Recorded' = stored \cup {written'}
    <3>1. A!ToSet(entries'[0]) = A!ToSet(entries[0]) \cup {written'}
      BY <2>2, <2>3, <2>4 DEF A!ToSet, new
    <3>2. \A n \in A!Numbers \ {0} : A!ToSet(entries'[n]) = A!ToSet(entries[n])
      BY <2>3 DEF A!ToSet
    <3> QED BY <3>1, <3>2, AuditBounds DEF A!Recorded
  <2>12. \A e \in stored : e <= written /\ e \in Int
    BY <2>1, RecordedIs DEF AuditInv, NoGap
  <2>13. \A n \in A!Numbers : \A i \in DOMAIN entries[n] : entries[n][i] \in stored
    BY RecordedIs
  <2> HIDE DEF stored
  <2>14. Ordered'
    <3>1. ASSUME NEW m \in A!Numbers, NEW n \in A!Numbers, NEW i \in DOMAIN entries'[m],
                 NEW j \in DOMAIN entries'[n], m > n \/ (m = n /\ i < j)
          PROVE  entries'[m][i] < entries'[n][j]
      <4>1. m \in Nat /\ n \in Nat /\ 0 \in A!Numbers
        BY AuditBounds
      <4>2. /\ i \in DOMAIN entries[m] /\ entries'[m][i] = entries[m][i]
            /\ \/ j \in DOMAIN entries[n] /\ entries'[n][j] = entries[n][j]
               \/ entries'[n][j] = written'
        <5>1. CASE m = 0
          <6>1. n = 0 /\ i < j
            BY <3>1, <4>1, <5>1
          <6> QED BY <2>3, <2>5, <3>1, <5>1, <6>1
        <5>2. CASE m # 0
          BY <2>3, <2>4, <3>1, <5>2
        <5> QED BY <5>1, <5>2
      <4>3. entries[m][i] <= written /\ entries[m][i] \in Int
        BY <2>12, <2>13, <4>2
      <4> QED BY <1>4, <2>1, <3>1, <4>2, <4>3 DEF AuditInv, Ordered
    <3> QED BY <3>1 DEF Ordered
  <2>15. NoGap'
    <3>1. /\ \A e, d \in stored : \A x \in Int : e <= x /\ x <= d => x \in stored
          /\ stored = {} \/ written \in stored
      BY <1>2 DEF AuditInv, NoGap, stored
    <3>2. \A e \in stored \cup {written'} : e <= written'
      BY <1>4, <2>1, <2>12
    <3>3. ASSUME NEW e \in stored \cup {written'}, NEW d \in stored \cup {written'}, NEW x \in Int,
                 e <= x, x <= d
          PROVE  x \in stored \cup {written'}
      <4>1. CASE e \in stored /\ d \in stored
        BY <3>1, <3>3, <4>1
      <4>2. CASE e \in stored /\ d = written'
        BY <1>4, <2>1, <2>12, <3>1, <3>3, <4>2
      <4>3. CASE e = written'
        BY <1>4, <2>1, <3>2, <3>3, <4>3
      <4> QED BY <4>1, <4>2, <4>3
    <3> QED BY <2>11, <3>2, <3>3 DEF NoGap
  <2>16. KeptLong'
    <3>1. First' = First
      BY <1>1 DEF First
    <3>2. MaxRotated * Full \in Nat
      BY AuditBounds, Fills
    <3>3. \A e \in Int : First <= e /\ e <= written => e \in stored \/ e + MaxRotated * Full <= written
      BY <1>2 DEF AuditInv, KeptLong, stored
    <3> DEFINE f == MaxRotated * Full
    <3> HIDE DEF f
    <3>4. ASSUME NEW e \in Int, First <= e, e <= written'
          PROVE  e \in stored \cup {written'} \/ e + f <= written'
      <4>1. CASE e = written'
        BY <4>1
      <4>2. CASE e # written'
        <5>1. e <= written
          BY <1>4, <2>1, <3>4, <4>2
        <5> QED BY <1>4, <2>1, <3>2, <3>3, <3>4, <5>1 DEF f
      <4> QED BY <4>1, <4>2
    <3> QED BY <2>11, <3>1, <3>4 DEF KeptLong, f
  <2>17. Rotated'
    <3>1. \A n : Behind(n)' = Behind(n)
      <4>1. \A n : Moved(n)' <=> Moved(n)
        BY <1>1, NoMove DEF AuditInv
      <4> QED BY <4>1 DEF Behind
    <3>2. ASSUME NEW n \in A!Numbers \ {0}, NEW i \in DOMAIN entries'[n]
          PROVE  entries'[n][i] + Len(entries'[0]) + Behind(n) * Full <= written'
      <4> DEFINE f == Behind(n) * Full
      <4>1. /\ entries[n][i] + Len(entries[0]) + f <= written /\ entries[n][i] \in Int
            /\ entries'[n][i] = entries[n][i]
        BY <2>1, <2>3, <3>2 DEF AuditInv, Rotated
      <4>2. f \in Int
        <5>1. Behind(n) \in Int /\ Full \in Int
          BY AuditBounds DEF Behind
        <5> QED BY <5>1
      <4> HIDE DEF f
      <4>3. entries'[n][i] + Len(entries'[0]) + f <= written'
        BY <1>4, <2>1, <2>6, <4>1, <4>2
      <4> QED BY <4>3 DEF f
    <3> QED BY <3>1, <3>2 DEF Rotated
  <2> QED BY <2>8, <2>9, <2>10, <2>14, <2>15, <2>16, <2>17 DEF AuditInv
<1> QED BY <1>3, <1>4 DEF A!AppendEntry

(* Who rotates is the only one, and history.json is gone.                  *)
LEMMA Rotates ==
  ASSUME AuditInv, NEW w \in Writers, writer[w].at \in A!Rotating
  PROVE  /\ ~legacy /\ Len(entries[0]) >= Full
         /\ \A v \in Writers \ {w} : writer[v].at \notin A!Rotating
         /\ \A v \in Writers : writer[v].at \notin A!TakingOver
<1>1. ~legacy
  BY DEF AuditInv, OneTakesOver, A!Rotating, A!TakingOver
<1>2. /\ Len(entries[0]) >= Full
      /\ \A v \in Writers \ {w} : writer[v].at \notin A!Rotating
  BY DEF AuditInv, OneRotates, AtMostOne
<1>3. \A v \in Writers : writer[v].at \notin A!TakingOver
  BY <1>1 DEF AuditInv, OneTakesOver
<1> QED BY <1>1, <1>2, <1>3

LEMMA RotationGoesOn ==
  ASSUME AuditInv, NEW w \in Writers, writer[w].at \in A!Rotating,
         NEW place \in {"shift", "append"}, NEW k, A!Goes(w, place, k),
         UNCHANGED <<written, held, legacy, taken>>,
         entries' \in [A!Numbers -> Seq(Int)],
         place = "shift" =>
           k \in 0..(MaxRotated - 1) /\ entries'[k + 1] = <<>> /\ entries'[0] = entries[0]
  PROVE  /\ AuditTypes' /\ OneRotates' /\ OneTakesOver'
         /\ \A n : Moved(n)' <=> place = "shift" /\ n > k + 1
<1>1. /\ DOMAIN writer' = Writers /\ writer'[w].at = place /\ writer'[w].file = k
      /\ \A v \in Writers \ {w} : writer'[v] = writer[v]
  BY Going DEF AuditInv
<1>2. /\ ~legacy /\ Len(entries[0]) >= Full
      /\ \A v \in Writers \ {w} : writer[v].at \notin A!Rotating
      /\ \A v \in Writers : writer[v].at \notin A!TakingOver
  BY Rotates
<1>3. /\ \A v \in Writers : writer'[v].at \in A!Rotating => v = w
      /\ \A v \in Writers : writer'[v].at \notin A!TakingOver
  BY <1>1, <1>2 DEF A!TakingOver
<1>4. \A v \in Writers : writer'[v].at \in {"idle", "rotate", "append"} \cup A!Rotating \cup A!TakingOver
  <2>1. ASSUME NEW v \in Writers
        PROVE  writer'[v].at \in {"idle", "rotate", "append"} \cup A!Rotating \cup A!TakingOver
    <3>1. writer[v].at \in {"idle", "rotate", "append"} \cup A!Rotating \cup A!TakingOver
      BY DEF AuditInv, AuditTypes
    <3> QED BY <1>1, <3>1 DEF A!Rotating
  <2> QED BY <2>1
<1>5. AuditTypes'
  <2>1. AuditTypes /\ written' = written /\ held' = held
    BY DEF AuditInv
  <2> QED BY <1>1, <1>4, <2>1 DEF AuditTypes
<1>6. OneRotates'
  <2>1. AtMostOne(A!Rotating)'
    BY <1>3 DEF AtMostOne, A!Rotating
  <2>2. writer'[w].at \in A!Rotating => place = "shift"
    BY <1>1 DEF A!Rotating
  <2>3. \A v \in Writers : writer'[v].at = "shift" => v = w
    BY <1>3 DEF A!Rotating
  <2> QED BY <1>1, <1>2, <1>3, <2>1, <2>2, <2>3 DEF OneRotates, A!Rotating
<1>7. OneTakesOver'
  BY <1>2, <1>3 DEF OneTakesOver, AtMostOne, A!TakingOver
<1>8. \A n : Moved(n)' <=> place = "shift" /\ n > k + 1
  <2>1. \A v \in Writers : writer'[v].at = "shift" => v = w
    BY <1>3 DEF A!Rotating
  <2> QED BY <1>1, <2>1 DEF Moved
<1> QED BY <1>5, <1>6, <1>7, <1>8

LEMMA RemoveOldestStep ==
  ASSUME AuditInv, NEW w \in Writers, A!RemoveOldest(w)
  PROVE  AuditInv'
<1> DEFINE stored == A!Recorded
           stays == A!Recorded'
<1>1. /\ writer[w].at = "oldest" /\ A!Goes(w, "shift", MaxRotated - 1)
      /\ entries' = [entries EXCEPT ![MaxRotated] = <<>>]
      /\ UNCHANGED <<written, held, legacy, taken>>
  BY DEF A!RemoveOldest, AuditInv, AuditTypes
<1>2. /\ MaxRotated \in Nat \ {0} /\ Full \in Nat \ {0}
      /\ A!Numbers = 0..MaxRotated /\ 0 \in A!Numbers /\ MaxRotated \in A!Numbers
  BY AuditBounds
<1>3. entries \in [A!Numbers -> Seq(Int)] /\ written \in Nat
  BY DEF AuditInv, AuditTypes
<1>4. /\ entries' \in [A!Numbers -> Seq(Int)] /\ entries'[MaxRotated] = <<>>
      /\ \A n \in A!Numbers \ {MaxRotated} : entries'[n] = entries[n]
      /\ entries'[0] = entries[0]
  BY <1>1, <1>2, <1>3
<1>5. writer[w].at \in A!Rotating
  BY <1>1 DEF A!Rotating
<1>6. /\ ~legacy /\ Len(entries[0]) >= Full
      /\ \A v \in Writers \ {w} : writer[v].at \notin A!Rotating
  BY <1>5, Rotates
<1>7. /\ AuditTypes' /\ OneRotates' /\ OneTakesOver'
      /\ \A n : Moved(n)' <=> n > MaxRotated - 1 + 1
  <2> DEFINE k == MaxRotated - 1
  <2>1. k \in 0..(MaxRotated - 1) /\ k + 1 = MaxRotated /\ A!Goes(w, "shift", k)
    BY <1>1, <1>2
  <2> HIDE DEF k
  <2>2. entries'[k + 1] = <<>>
    BY <1>4, <2>1
  <2>3. /\ AuditTypes' /\ OneRotates' /\ OneTakesOver'
        /\ \A n : Moved(n)' <=> n > k + 1
    BY <1>1, <1>4, <1>5, <2>1, <2>2, RotationGoesOn
  <2> QED BY <2>3 DEF k
<1>8. \A n \in A!Numbers : Behind(n)' = n - 1 /\ Behind(n) = n - 1
  <2>1. \A n : ~Moved(n)
    BY <1>1, <1>6 DEF Moved, A!Rotating
  <2>2. \A n \in A!Numbers : ~(n > MaxRotated - 1 + 1)
    BY <1>2
  <2> QED BY <1>7, <2>1, <2>2 DEF Behind
<1>9. \A n \in A!Numbers : \A i \in DOMAIN entries'[n] :
        n # MaxRotated /\ i \in DOMAIN entries[n] /\ entries'[n][i] = entries[n][i]
  BY <1>4
<1>10. Ordered'
  BY <1>9 DEF AuditInv, Ordered
<1>11. \A x : x \in stays <=> \E n \in A!Numbers \ {MaxRotated} : \E i \in DOMAIN entries[n] : x = entries[n][i]
  <2>1. \A x : x \in stays <=> \E n \in A!Numbers : \E i \in DOMAIN entries'[n] : x = entries'[n][i]
    BY DEF A!Recorded, A!ToSet
  <2> QED BY <1>4, <1>9, <2>1
<1>12. \A x : x \in stored <=> \E n \in A!Numbers : \E i \in DOMAIN entries[n] : x = entries[n][i]
  BY RecordedIs
<1> HIDE DEF stored, stays
<1>13. stays \subseteq stored /\ stored \subseteq Int
  <2>1. stored \subseteq Int
    BY <1>3, <1>12
  <2>2. stays \subseteq stored
    BY <1>11, <1>12
  <2> QED BY <2>1, <2>2
<1>14. \A x \in stored \ stays : \E i \in DOMAIN entries[MaxRotated] : x = entries[MaxRotated][i]
  BY <1>11, <1>12
<1>15. ASSUME NEW x \in stored \ stays, NEW y \in stays PROVE x < y
  <2>1. PICK i \in DOMAIN entries[MaxRotated] : x = entries[MaxRotated][i]
    BY <1>14
  <2>2. PICK n \in A!Numbers \ {MaxRotated} : \E j \in DOMAIN entries[n] : y = entries[n][j]
    BY <1>11
  <2>3. MaxRotated > n
    BY <1>2, <2>2
  <2> QED BY <1>2, <2>1, <2>2, <2>3 DEF AuditInv, Ordered
<1>16. /\ \A e \in stored : e <= written
       /\ \A e, d \in stored : \A x \in Int : e <= x /\ x <= d => x \in stored
       /\ stored = {} \/ written \in stored
  BY <1>6 DEF AuditInv, NoGap, stored
<1>17. entries[0][1] \in stays
  <2>1. entries[0] \in Seq(Int) /\ Len(entries[0]) >= 1
    BY <1>2, <1>3, <1>6
  <2>2. 1 \in DOMAIN entries[0] /\ 0 # MaxRotated
    BY <1>2, <2>1
  <2> QED BY <1>2, <1>11, <2>2
<1>18. written \in stays
  <2>1. written \in stored
    BY <1>13, <1>16, <1>17
  <2>2. CASE written \notin stays
    <3>1. written < entries[0][1] /\ entries[0][1] <= written /\ entries[0][1] \in Int
      BY <1>13, <1>15, <1>16, <1>17, <2>1, <2>2
    <3> QED BY <1>3, <3>1
  <2> QED BY <2>2
<1>19. NoGap'
  <2>1. ASSUME NEW e \in stays, NEW d \in stays, NEW x \in Int, e <= x, x <= d PROVE x \in stays
    <3>1. x \in stored
      BY <1>13, <1>16, <2>1
    <3>2. x \notin stays => x < e
      BY <1>15, <3>1
    <3> QED BY <1>13, <2>1, <3>2
  <2>2. \A e \in stays : e <= written
    BY <1>13, <1>16
  <2> QED BY <1>1, <1>18, <2>1, <2>2 DEF NoGap, stays
<1>20. ASSUME NEW e \in stored \ stays PROVE e + MaxRotated * Full <= written
  <2>1. PICK i \in DOMAIN entries[MaxRotated] : e = entries[MaxRotated][i]
    BY <1>14
  <2>2. Behind(MaxRotated) = MaxRotated - 1
    BY <1>2, <1>8
  <2> DEFINE k == MaxRotated - 1
             f == k * Full
  <2>3. e + Len(entries[0]) + f <= written
    BY <1>2, <2>1, <2>2 DEF AuditInv, Rotated
  <2>4. k \in Nat /\ k + 1 = MaxRotated
    BY <1>2
  <2> HIDE DEF k
  <2>5. f \in Nat /\ MaxRotated * Full = f + Full
    BY <2>4, Fills
  <2>6. e \in Int /\ Len(entries[0]) \in Nat
    BY <1>2, <1>3, <1>13
  <2> HIDE DEF f
  <2> DEFINE g == MaxRotated * Full
  <2>7. g = f + Full
    BY <2>5
  <2> HIDE DEF g
  <2>8. e + g <= written
    BY <1>2, <1>3, <1>6, <2>3, <2>5, <2>6, <2>7
  <2> QED BY <2>8 DEF g
<1>21. KeptLong'
  <2>1. First' = First
    BY <1>1 DEF First
  <2>2. \A e \in Int : First <= e /\ e <= written => e \in stored \/ e + MaxRotated * Full <= written
    BY <1>6 DEF AuditInv, KeptLong, stored
  <2> QED BY <1>1, <1>20, <2>1, <2>2 DEF KeptLong, stays
<1>22. Rotated'
  <2>1. ASSUME NEW n \in A!Numbers \ {0}, NEW i \in DOMAIN entries'[n]
        PROVE  entries'[n][i] + Len(entries'[0]) + Behind(n)' * Full <= written'
    <3>1. entries[n][i] + Len(entries[0]) + Behind(n) * Full <= written
      BY <1>9, <2>1 DEF AuditInv, Rotated
    <3> QED BY <1>1, <1>4, <1>8, <1>9, <2>1, <3>1
  <2> QED BY <2>1 DEF Rotated
<1> QED BY <1>7, <1>10, <1>19, <1>21, <1>22 DEF AuditInv

LEMMA ShiftStep ==
  ASSUME AuditInv, NEW w \in Writers, A!Shift(w)
  PROVE  AuditInv'
<1> DEFINE k == writer[w].file
           stored == A!Recorded
<1>1. /\ writer[w].at = "shift" /\ entries' = A!Renamed(k, k + 1)
      /\ k = 0 => A!Goes(w, "append", 0)
      /\ k # 0 => A!Goes(w, "shift", k - 1)
      /\ UNCHANGED <<written, held, legacy, taken>>
  BY DEF A!Shift
<1>2. /\ MaxRotated \in Nat \ {0} /\ Full \in Nat \ {0}
      /\ A!Numbers = 0..MaxRotated /\ 0 \in A!Numbers
  BY AuditBounds
<1>3. entries \in [A!Numbers -> Seq(Int)] /\ written \in Nat /\ held = {}
  BY DEF AuditInv, AuditTypes
<1>4. writer[w].at \in A!Rotating
  BY <1>1 DEF A!Rotating
<1>5. /\ ~legacy /\ Len(entries[0]) >= Full
      /\ \A v \in Writers \ {w} : writer[v].at \notin A!Rotating
  BY <1>4, Rotates
<1>6. k \in 0..(MaxRotated - 1) /\ entries[k + 1] = <<>>
  BY <1>1 DEF AuditInv, OneRotates
<1>7. k \in Nat /\ k \in A!Numbers /\ k + 1 \in A!Numbers /\ k # k + 1
  BY <1>2, <1>6
<1>8. \A n : Moved(n) <=> n > k + 1
  <2>1. \A v \in Writers : writer[v].at = "shift" => v = w
    BY <1>5 DEF A!Rotating
  <2> QED BY <1>1, <2>1 DEF Moved
<1>9. entries' = IF entries[k] = <<>> THEN entries
                 ELSE [entries EXCEPT ![k + 1] = entries[k], ![k] = <<>>]
  BY <1>1, <1>3 DEF A!Renamed
<1> HIDE DEF k
<1>10. /\ entries' \in [A!Numbers -> Seq(Int)]
       /\ entries'[k + 1] = entries[k] /\ entries'[k] = <<>>
       /\ \A n \in A!Numbers \ {k, k + 1} : entries'[n] = entries[n]
  <2>1. CASE entries[k] = <<>>
    BY <1>3, <1>6, <1>7, <1>9, <2>1
  <2>2. CASE entries[k] # <<>>
    <3>1. entries' = [entries EXCEPT ![k + 1] = entries[k], ![k] = <<>>]
      BY <1>9, <2>2
    <3> QED BY <1>3, <1>7, <3>1
  <2> QED BY <2>1, <2>2
<1>11. /\ AuditTypes' /\ OneRotates' /\ OneTakesOver'
       /\ \A n : Moved(n)' <=> k # 0 /\ n > k
  <2>1. CASE k = 0
    <3>1. A!Goes(w, "append", 0) /\ "append" # "shift"
      BY <1>1, <2>1
    <3>2. /\ AuditTypes' /\ OneRotates' /\ OneTakesOver'
          /\ \A n : Moved(n)' <=> "append" = "shift" /\ n > 0 + 1
      BY <1>1, <1>4, <1>10, <3>1, RotationGoesOn
    <3> QED BY <2>1, <3>1, <3>2
  <2>2. CASE k # 0
    <3> DEFINE j == k - 1
    <3>1. j \in 0..(MaxRotated - 1) /\ j + 1 = k /\ A!Goes(w, "shift", j)
      BY <1>1, <1>2, <1>6, <1>7, <2>2
    <3>2. 0 \notin {k, k + 1}
      BY <1>7, <2>2
    <3> HIDE DEF j
    <3>3. entries'[j + 1] = <<>> /\ entries'[0] = entries[0]
      BY <1>2, <1>10, <3>1, <3>2
    <3>4. /\ AuditTypes' /\ OneRotates' /\ OneTakesOver'
          /\ \A n : Moved(n)' <=> "shift" = "shift" /\ n > j + 1
      BY <1>1, <1>4, <1>10, <3>1, <3>3, RotationGoesOn
    <3> QED BY <2>2, <3>1, <3>4
  <2> QED BY <2>1, <2>2
<1> DEFINE Of(n) == IF n = k + 1 THEN k ELSE n
<1>12. ASSUME NEW n \in A!Numbers, NEW i \in DOMAIN entries'[n]
       PROVE  /\ n # k /\ Of(n) \in A!Numbers /\ i \in DOMAIN entries[Of(n)]
              /\ entries'[n][i] = entries[Of(n)][i]
  <2>1. n # k
    <3>1. DOMAIN entries'[k] = {}
      BY <1>10
    <3> QED BY <1>12, <3>1
  <2>2. CASE n = k + 1
    <3>1. Of(n) = k /\ entries'[n] = entries[k]
      BY <1>10, <2>2
    <3> QED BY <1>7, <1>12, <2>1, <3>1
  <2>3. CASE n # k + 1
    <3>1. Of(n) = n /\ entries'[n] = entries[n]
      BY <1>10, <2>1, <2>3
    <3> QED BY <1>12, <2>1, <3>1
  <2> QED BY <2>2, <2>3
<1>13. \A m, n \in A!Numbers \ {k} : (m > n => Of(m) > Of(n)) /\ (m = n => Of(m) = Of(n))
  BY <1>2, <1>7
<1>14. Ordered'
  <2>1. ASSUME NEW m \in A!Numbers, NEW n \in A!Numbers, NEW i \in DOMAIN entries'[m],
               NEW j \in DOMAIN entries'[n], m > n \/ (m = n /\ i < j)
        PROVE  entries'[m][i] < entries'[n][j]
    <3>1. /\ m # k /\ Of(m) \in A!Numbers /\ i \in DOMAIN entries[Of(m)]
          /\ entries'[m][i] = entries[Of(m)][i]
      BY <1>12
    <3>2. /\ n # k /\ Of(n) \in A!Numbers /\ j \in DOMAIN entries[Of(n)]
          /\ entries'[n][j] = entries[Of(n)][j]
      BY <1>12
    <3>3. Of(m) > Of(n) \/ (Of(m) = Of(n) /\ i < j)
      BY <1>13, <2>1, <3>1, <3>2
    <3> HIDE DEF Of
    <3> QED BY <3>1, <3>2, <3>3 DEF AuditInv, Ordered
  <2> QED BY <2>1 DEF Ordered
<1>15. stored' = stored
  <2>1. /\ A!ToSet(entries'[k + 1]) = A!ToSet(entries[k])
        /\ A!ToSet(entries'[k]) = A!ToSet(entries[k + 1])
        /\ \A n \in A!Numbers \ {k, k + 1} : A!ToSet(entries'[n]) = A!ToSet(entries[n])
    BY <1>6, <1>10
  <2>2. stored' = UNION {A!ToSet(entries'[n]) : n \in A!Numbers}
    BY DEF A!Recorded
  <2>3. stored = UNION {A!ToSet(entries[n]) : n \in A!Numbers}
    BY DEF A!Recorded
  <2> HIDE DEF stored
  <2> QED BY <1>7, <2>1, <2>2, <2>3
<1> HIDE DEF stored
<1>16. NoGap'
  BY <1>1, <1>15 DEF AuditInv, NoGap, stored
<1>17. KeptLong'
  <2>1. First' = First
    BY <1>1 DEF First
  <2> QED BY <1>1, <1>15, <2>1 DEF AuditInv, KeptLong, stored
<1>18. Rotated'
  <2>1. ASSUME NEW n \in A!Numbers \ {0}, NEW i \in DOMAIN entries'[n]
        PROVE  entries'[n][i] + Len(entries'[0]) + Behind(n)' * Full <= written'
    <3> DEFINE m == Of(n)
               x == entries[m][i]
    <3>1. n # k /\ m \in A!Numbers /\ i \in DOMAIN entries[m] /\ entries'[n][i] = x /\ n \in Nat
      BY <1>2, <1>12, <2>1
    <3>2. x \in Int /\ x <= written
      <4>1. x \in stored
        BY <3>1, RecordedIs DEF stored
      <4>2. x <= written
        BY <4>1 DEF AuditInv, NoGap, stored
      <4>3. x \in Int
        <5>1. m \in A!Numbers /\ i \in DOMAIN entries[m]
          BY <3>1
        <5> HIDE DEF m
        <5>2. entries[m] \in Seq(Int)
          BY <1>3, <5>1
        <5> QED BY <5>1, <5>2
      <4> QED BY <4>2, <4>3
    <3>3. CASE k # 0
      <4>1. entries'[0] = entries[0] /\ m # 0
        <5>1. 0 \notin {k, k + 1}
          BY <1>7, <3>3
        <5>2. m = k \/ m = n
          OBVIOUS
        <5> QED BY <1>2, <1>10, <2>1, <3>3, <5>1, <5>2
      <4>2. Behind(n)' = Behind(m)
        <5>1. CASE n = k + 1
          <6>1. m = k /\ Moved(n)' /\ ~Moved(m)
            BY <1>7, <1>8, <1>11, <3>3, <5>1
          <6>2. Behind(n)' = n - 2 /\ Behind(m) = m - 1
            BY <6>1 DEF Behind
          <6> QED BY <1>7, <5>1, <6>1, <6>2
        <5>2. CASE n # k + 1
          <6>1. m = n /\ (Moved(n)' <=> Moved(n))
            BY <1>7, <1>8, <1>11, <3>1, <3>3, <5>2
          <6>2. Behind(n)' = Behind(n)
            BY <6>1 DEF Behind
          <6> QED BY <6>1, <6>2
        <5> QED BY <5>1, <5>2
      <4> HIDE DEF Of
      <4>3. x + Len(entries[0]) + Behind(m) * Full <= written
        BY <3>1, <4>1 DEF AuditInv, Rotated
      <4> QED BY <1>1, <3>1, <4>1, <4>2, <4>3
    <3>4. CASE k = 0
      <4>1. Len(entries'[0]) = 0 /\ Behind(n)' = n - 1
        BY <1>10, <1>11, <3>4 DEF Behind
      <4>2. CASE n = 1
        <5>1. Behind(n)' * Full = 0
          BY <4>1, <4>2, Fills
        <5> QED BY <1>1, <1>3, <3>1, <3>2, <4>1, <5>1
      <4>3. CASE n # 1
        <5>1. m = n /\ Moved(n)
          BY <1>8, <2>1, <3>1, <3>4, <4>3
        <5> DEFINE p == n - 2
                   f == p * Full
                   g == (n - 1) * Full
        <5>2. p \in Nat /\ n - 1 = p + 1
          BY <2>1, <3>1, <4>3
        <5>3. Behind(n) = p
          BY <5>1 DEF Behind
        <5> HIDE DEF p
        <5>4. f \in Nat /\ g = f + Full
          BY <5>2, Fills
        <5>5. x + Len(entries[0]) + f <= written
          BY <2>1, <3>1, <5>1, <5>3 DEF AuditInv, Rotated
        <5>6. Len(entries[0]) \in Nat
          BY <1>2, <1>3
        <5>7. entries'[n][i] = x /\ Behind(n)' * Full = g
          BY <3>1, <4>1
        <5> HIDE DEF f, g, x, m
        <5>8. x + 0 + g <= written
          BY <1>2, <1>3, <1>5, <3>2, <5>4, <5>5, <5>6
        <5> QED BY <1>1, <4>1, <5>7, <5>8
      <4> QED BY <4>2, <4>3
    <3> QED BY <3>3, <3>4
  <2> QED BY <2>1 DEF Rotated
<1> QED BY <1>11, <1>14, <1>16, <1>17, <1>18 DEF AuditInv

LEMMA AuditStep ==
  ASSUME Tears = {}
  PROVE  AuditInv /\ [Next]_vars => AuditInv'
<1> SUFFICES ASSUME AuditInv, [Next]_vars PROVE AuditInv'
  OBVIOUS
<1>1. CASE A!Next
  <2>1. ASSUME NEW w \in Writers, A!Log(w) PROVE AuditInv'
    BY <2>1, LogStep
  <2>2. ASSUME NEW w \in Writers, A!GetHistory(w) PROVE AuditInv'
    BY <2>2, LogStep
  <2>3. ASSUME NEW w \in Writers, A!TakeOver(w) PROVE AuditInv'
    BY <2>3, TakeOverStep
  <2>4. ASSUME NEW w \in Writers, A!RemoveLegacy(w) PROVE AuditInv'
    BY <2>4, RemoveLegacyStep
  <2>5. ASSUME NEW w \in Writers, A!Rotate(w) PROVE AuditInv'
    <3>1. /\ writer[w].at = "rotate" /\ A!RotateIfNeeded(w)
          /\ UNCHANGED <<entries, written, held, legacy, taken>>
      BY <2>5 DEF A!Rotate
    <3>2. ~legacy
      BY <3>1 DEF AuditInv, OneTakesOver, A!TakingOver
    <3> QED BY <3>1, <3>2, RotateIfNeededStep DEF A!Rotating, A!TakingOver
  <2>6. ASSUME NEW w \in Writers, A!RemoveOldest(w) PROVE AuditInv'
    BY <2>6, RemoveOldestStep
  <2>7. ASSUME NEW w \in Writers, A!Shift(w) PROVE AuditInv'
    BY <2>7, ShiftStep
  <2>8. ASSUME NEW w \in Writers, A!AppendEntry(w) PROVE AuditInv'
    BY <2>8, AppendEntryStep
  <2>9. ASSUME NEW w \in Writers, A!Ends(w) PROVE AuditInv'
    <3>1. /\ writer[w].at \in {"rotate", "append"} /\ A!Goes(w, "idle", 0)
          /\ UNCHANGED <<entries, written, held, legacy, taken>>
      BY <2>9 DEF A!Ends
    <3>2. ~legacy /\ writer[w].at \notin A!Rotating \cup A!TakingOver
      BY <3>1 DEF AuditInv, OneTakesOver, A!Rotating, A!TakingOver
    <3> QED BY <3>1, <3>2, Rests
  <2> QED BY <1>1, <2>1, <2>2, <2>3, <2>4, <2>5, <2>6, <2>7, <2>8, <2>9 DEF A!Next
<1>2. CASE UNCHANGED auditVars
  <2>1. UNCHANGED <<entries, writer, written, held, legacy, taken>>
    BY <1>2 DEF auditVars
  <2>2. \A n \in A!Numbers : Moved(n)' <=> Moved(n)
    BY <2>1 DEF Moved
  <2>3. Ordered' /\ NoGap' /\ KeptLong' /\ Rotated'
    BY <2>1, <2>2, StayRecorded
  <2>4. AuditTypes' /\ OneRotates' /\ OneTakesOver'
    BY <2>1 DEF AuditInv, AuditTypes, OneRotates, OneTakesOver, AtMostOne
  <2> QED BY <2>3, <2>4 DEF AuditInv
<1>3. A!Next \/ UNCHANGED auditVars
  BY DEF Next, vars
<1> QED BY <1>1, <1>2, <1>3

LEMMA AllAreKept == AuditInv => A!EntriesStay
<1> SUFFICES ASSUME AuditInv PROVE A!EntriesStay
  OBVIOUS
<1> DEFINE stored == A!Recorded
           f == MaxRotated * Full
<1>1. /\ MaxRotated \in Nat /\ Full \in Nat /\ f \in Nat /\ A!Numbers \subseteq Nat
      /\ entries \in [A!Numbers -> Seq(Int)] /\ written \in Nat
  <2>1. MaxRotated \in Nat /\ Full \in Nat /\ A!Numbers \subseteq Nat
    BY AuditBounds
  <2> QED BY <2>1, Fills DEF AuditInv, AuditTypes
<1>2. ASSUME NEW m \in A!Numbers, NEW n \in A!Numbers, NEW i \in DOMAIN entries[m],
             NEW j \in DOMAIN entries[n]
      PROVE  entries[m][i] < entries[n][j] <=> m > n \/ (m = n /\ i < j)
  <2> DEFINE x == entries[m][i]
             y == entries[n][j]
  <2>1. entries[m] \in Seq(Int) /\ entries[n] \in Seq(Int)
    BY <1>1
  <2>2. x \in Int /\ y \in Int /\ i \in Nat /\ j \in Nat /\ m \in Nat /\ n \in Nat
    BY <1>1, <1>2, <2>1
  <2>3. m > n \/ (m = n /\ i < j) => x < y
    BY <1>2 DEF AuditInv, Ordered
  <2>4. n > m \/ (n = m /\ j < i) => y < x
    BY <1>2 DEF AuditInv, Ordered
  <2>5. n = m /\ j = i => x = y
    OBVIOUS
  <2> HIDE DEF x, y
  <2>6. x < y <=> m > n \/ (m = n /\ i < j)
    BY <2>2, <2>3, <2>4, <2>5
  <2> QED BY <2>6 DEF x, y
<1>3. stored \subseteq Int
  BY <1>1, RecordedIs
<1> HIDE DEF stored
<1>4. /\ \A e \in stored : e <= written
      /\ \A e, d \in stored : \A x \in Int : e <= x /\ x <= d => x \in stored
      /\ ~legacy => stored = {} \/ written \in stored
      /\ written > 0 => stored # {}
  BY DEF AuditInv, NoGap, stored
<1>5. \A e, d \in stored : e..d \subseteq stored
  BY <1>3, <1>4
<1>6. written > 0 => ~legacy /\ written \in stored
  <2>1. legacy => written = 0
    BY DEF AuditInv, OneTakesOver
  <2> QED BY <1>4, <2>1
<1> HIDE DEF f
<1>7. ASSUME ~legacy, NEW e \in (IF taken THEN A!Older[1] ELSE 1)..written
      PROVE  e \in stored \/ written - e >= f
  <2>1. First = IF taken THEN A!Older[1] ELSE 1
    BY DEF First, A!Older
  <2>2. First \in Int
    BY DEF First
  <2>3. e \in Int /\ First <= e /\ e <= written
    BY <1>1, <1>7, <2>1, <2>2
  <2>4. e \in stored \/ e + f <= written
    BY <1>7, <2>3 DEF AuditInv, KeptLong, stored, f
  <2> QED BY <1>1, <2>3, <2>4
<1> QED BY <1>2, <1>4, <1>5, <1>6, <1>7 DEF A!EntriesStay, stored, f

---------------------------------------------------------------------------
(* Whatever is saved, logged and crashes, and whoever does it, in whatever *)
(* order: a settings file and a saved scan are whole, and a file broken by *)
(* hand is kept aside (config.rs load and save, cache.rs save_last_scan);  *)
(* an entry of the record stays, in order, until a full set of files was   *)
(* logged after it (audit.rs rotate_if_needed, append_entry and            *)
(* migrate_legacy_json_if_needed); a crash is offered, once, unless newer  *)
(* logs took its place or a saved look could not see it (crash_offer.rs):  *)
(* its event did not come, or it came while the window looked. Of settings *)
(* and record this supposes what the code does not enforce: that two       *)
(* WinMedics do not save or rotate at the same time, that no file is       *)
(* locked or unreadable and no rotation is cut off.                        *)
THEOREM NothingIsEverLost ==
  ASSUME "together" \notin Lapses, "locked" \notin Lapses, Tears = {}
  PROVE  Spec => []NothingIsLost
<1> DEFINE Inv == SavesInv /\ AuditInv /\ OffersInv
<1>1. Init => Inv
  BY SavesInit, AuditInit, OffersInit
<1>2. Inv /\ [Next]_vars => Inv'
  BY SavesStep, AuditStep, OffersStep
<1>3. Inv => NothingIsLost
  BY SavesAreWhole, AllAreKept, EachIsOffered DEF NothingIsLost
<1> QED BY <1>1, <1>2, <1>3, PTL DEF Spec
---------------------------------------------------------------------------
(* Releases. What is told as final has no pre-release in its tag, and what *)
(* is offered is a final release, from GitHub's page, newer than what runs *)
(* - still, when another release has taken its place.                      *)
Offerable(release) ==
  /\ release.kind = "final" /\ release.tag.pre = R!Final /\ R!IsSafePage(release)
  /\ R!IsUpdateAvailable(current, release.tag)

ReleasesInv ==
  /\ latest.kind = "final" => latest.tag.pre = R!Final
  /\ offer # R!NoRelease => Offerable(offer)

(* Of final releases the order of the code is SemVer's: they differ in the *)
(* text of pre-releases only.                                              *)
LEMMA FinalByEitherOrder ==
  ASSUME NEW tag, NEW version, tag.pre = R!Final
  PROVE  R!Newer(R!Parsed(tag), version) <=> R!After(R!Parsed(tag), version)
<1>1. R!Parsed(tag).pre = R!Final
  BY DEF R!Parsed
<1> QED BY <1>1 DEF R!Newer, R!After

LEMMA ReleasesInit ==
  ASSUME Init PROVE ReleasesInv
<1>1. latest = R!NoRelease /\ offer = R!NoRelease
  BY DEF Init, R!Init
<1>2. R!NoRelease.kind # "final"
  BY DEF R!NoRelease, R!Fine, R!Final
<1> QED BY <1>1, <1>2 DEF ReleasesInv

(* A new release, whatever is wrong with it, is final or not as its tag    *)
(* says.                                                                   *)
LEMMA PublishedAsMarked ==
  ASSUME R!Publish, "marked" \notin Slips
  PROVE  latest'.kind = "final" => latest'.tag.pre = R!Final
<1>1. PICK tag \in R!Tags, kind \in {"final", "draft", "pre-release"} :
        LET release == [tag |-> tag, kind |-> kind, page |-> "github.com",
                        assets |-> <<R!Program, R!Sum>>, manifest |-> R!Fine]
        IN  /\ kind = "final" /\ "marked" \notin Slips => tag.pre = R!Final
            /\ \/ latest' = release
               \/ /\ tag = R!Highest /\ kind = "final"
                  /\ \/ latest' = [release EXCEPT !.page = "elsewhere"]
                     \/ \E assets \in R!Assets : latest' = [release EXCEPT !.assets = assets]
                     \/ \E m \in R!Manifests : latest' = [release EXCEPT !.manifest = m]
  BY DEF R!Publish
<1>2. latest'.kind = kind /\ latest'.tag = tag
  BY <1>1
<1> QED BY <1>1, <1>2

LEMMA ReleasesStep ==
  ASSUME ReleasesInv, [Next]_vars, "marked" \notin Slips
  PROVE  ReleasesInv'
<1>1. CASE R!Publish
  <2>1. UNCHANGED <<current, offer>>
    BY <1>1 DEF R!Publish
  <2> QED BY <1>1, <2>1, PublishedAsMarked DEF ReleasesInv, Offerable
<1>2. CASE R!Check
  <2>1. UNCHANGED <<current, latest>>
    BY <1>2 DEF R!Check
  <2>2. \/ offer' = R!NoRelease
        \/ /\ offer' = latest /\ latest.kind = "final" /\ R!IsSafePage(latest)
           /\ R!IsUpdateAvailable(current, latest.tag)
    BY <1>2 DEF R!Check
  <2> QED BY <2>1, <2>2 DEF ReleasesInv, Offerable, R!IsSafePage, R!IsUpdateAvailable
<1>3. CASE R!Install
  BY <1>3 DEF R!Install, ReleasesInv
<1>4. CASE UNCHANGED releasesVars
  BY <1>4 DEF releasesVars, ReleasesInv, Offerable
<1> QED BY <1>1, <1>2, <1>3, <1>4 DEF Next, vars, R!Next

(* Only an installation changes what runs: to what was offered, by either  *)
(* order newer.                                                            *)
LEMMA InstalledIsAfter ==
  ASSUME ReleasesInv, [Next]_vars, current' # current
  PROVE  /\ R!After(current', current)
         /\ offer.kind = "final" /\ offer.page = "github.com"
         /\ offer.manifest.digest = "its own" /\ offer.manifest.name # "another"
<1>1. R!Install
  BY DEF Next, vars, R!Next, R!Publish, R!Check, releasesVars
<1>2. /\ offer # R!NoRelease /\ R!Verified(offer.manifest)
      /\ current' = R!Parsed(offer.tag)
  BY <1>1 DEF R!Install
<1>3. Offerable(offer)
  BY <1>2 DEF ReleasesInv
<1>4. R!Newer(R!Parsed(offer.tag), current)
  BY <1>3 DEF Offerable, R!IsUpdateAvailable
<1>5. R!After(R!Parsed(offer.tag), current)
  BY <1>3, <1>4, FinalByEitherOrder DEF Offerable
<1> QED BY <1>2, <1>3, <1>5 DEF Offerable, R!IsSafePage, R!Verified

(* An update goes to a version that is higher by SemVer, of a release that *)
(* is final, from WinMedic's own page and verified by name and digest,     *)
(* though releases appear between check and installation, and though the   *)
(* code compares pre-releases by their text; and a final release that is   *)
(* newer is never kept back (utils/updater.rs, SemVer and                  *)
(* check_for_update). This supposes that pre-releases are marked as such:  *)
(* by text, rc.10 comes before rc.9.                                       *)
THEOREM UpdatesDoGoForward ==
  ASSUME "marked" \notin Slips PROVE Spec => UpdatesGoForward
<1>1. ReleasesInv /\ [Next]_vars =>
        [/\ current' # current => /\ R!After(current', current)
                                  /\ offer.kind = "final" /\ offer.page = "github.com"
                                  /\ offer.manifest.digest = "its own"
                                  /\ offer.manifest.name # "another"
         /\ latest' # latest => R!FinalIsNewer']_(R!vars)
  <2>1. R!FinalIsNewer'
    BY FinalByEitherOrder DEF R!FinalIsNewer, R!IsUpdateAvailable
  <2> QED BY <2>1, InstalledIsAfter
<1>2. Init => ReleasesInv
  BY ReleasesInit
<1>3. ReleasesInv /\ [Next]_vars => ReleasesInv'
  BY ReleasesStep
<1> QED BY <1>1, <1>2, <1>3, PTL DEF Spec, UpdatesGoForward, R!UpdatesGoForward
===========================================================================
