-------------------------- MODULE OperationsProofs --------------------------
(***************************************************************************)
(* Theorems about Operations: the request for a restore point, for any     *)
(* number of WinMedics, points and requests; the run without a window, for *)
(* any set of problems; the installation of an update, for any number of   *)
(* installations and starts; the task of the helper, for any executables   *)
(* and frequencies; and the commands, for any number of calls and slots.   *)
(***************************************************************************)
EXTENDS Operations, FiniteSetTheorems, TLAPS

---------------------------------------------------------------------------
(* RestorePoints. The numbers of the points, of which there is a highest,  *)
(* and what a script holds on to.                                          *)
Points ==
  /\ highest \in Nat /\ points \subseteq Nat
  /\ \A n \in points : n <= highest
  /\ points # {} => \E n \in points : \A m \in points : m <= n

Places == {"idle", "lift", "checkpoint", "put back", "after"}
Scripts ==
  [at : Places, before : Nat \cup {-1}, unread : BOOLEAN, old : R!Limits, made : BOOLEAN,
   error : BOOLEAN, outcome : {"none", "failed", "created", "throttled", "unverified"}]

Requested ==
  /\ script \in [Requesters -> Scripts]
  /\ limit \in R!Limits /\ strayed \in BOOLEAN
  /\ protection \in [on : BOOLEAN, canBeOn : BOOLEAN]

(* A point that was not made since a script asked was there when it asked. *)
Before ==
  \A r \in Requesters :
    /\ script[r].at # "idle" /\ ~script[r].made /\ ~script[r].unread =>
         \A n \in points : n <= script[r].before
    /\ script[r].outcome = "created" => script[r].made \/ script[r].unread

(* Unless one strayed, the limit is lifted by one script at a time, which  *)
(* knows what it was.                                                      *)
Limited ==
  ~strayed =>
    /\ \A q, r \in Requesters : R!Lifting(q) /\ R!Lifting(r) => q = r
    /\ \A r \in Requesters : R!Lifting(r) => script[r].old = limitWas
    /\ (\A r \in Requesters : ~R!Lifting(r)) => limit = limitWas

PointsInv == Points /\ Requested /\ Before /\ Limited

LEMMA MaxSeqIs ==
  ASSUME Points
  PROVE  /\ points = {} => R!MaxSeq = -1
         /\ points # {} => R!MaxSeq \in points /\ \A m \in points : m <= R!MaxSeq
BY DEF Points, R!MaxSeq

LEMMA PointsInit == Init => PointsInv
<1> SUFFICES ASSUME Init PROVE PointsInv
  OBVIOUS
<1>1. R!Init
  BY DEF Init
<1>2. points \in SUBSET {1} /\ highest = 1
  BY <1>1 DEF R!Init
<1>3. /\ limit \in R!Limits /\ limitWas = limit /\ strayed = FALSE
      /\ protection \in [on : BOOLEAN, canBeOn : BOOLEAN]
      /\ script = [r \in Requesters |-> R!Idle]
  BY <1>1 DEF R!Init, R!Limits
<1>4. R!Idle \in Scripts /\ R!Idle.at = "idle" /\ R!Idle.outcome = "none"
  BY DEF R!Idle, Scripts, Places, R!Limits, R!Unset
<1>5. Points
  <2>1. points = {} \/ points = {1}
    BY <1>2
  <2>2. \A n \in points : n = 1
    BY <2>1
  <2>3. \A n, m \in points : m <= n
    BY <2>2
  <2>4. \A n \in points : n \in Nat /\ n <= highest
    BY <1>2, <2>2
  <2> QED BY <1>2, <2>3, <2>4 DEF Points
<1>6. \A r \in Requesters : script[r] = R!Idle
  BY <1>3
<1>7. Requested
  BY <1>3, <1>4 DEF Requested
<1>8. Before
  BY <1>4, <1>6 DEF Before
<1>9. Limited
  BY <1>3, <1>4, <1>6 DEF Limited, R!Lifting
<1> QED BY <1>5, <1>7, <1>8, <1>9 DEF PointsInv

(* A step of the script of r that makes s of it.                           *)
LEMMA ScriptSteps ==
  ASSUME PointsInv, NEW r \in Requesters, NEW s \in Scripts, R!Sets(r, s)
  PROVE  /\ script' \in [Requesters -> Scripts] /\ script'[r] = s
         /\ \A q \in Requesters \ {r} : script'[q] = script[q]
         /\ script[r] \in Scripts
<1>1. /\ script' = [script EXCEPT ![r] = s] /\ script \in [Requesters -> Scripts]
  BY DEF PointsInv, Requested, R!Sets
<1> QED BY <1>1

LEMMA GetBeforeStep ==
  ASSUME PointsInv, NEW r \in Requesters, R!GetBefore(r)
  PROVE  PointsInv'
<1>1. /\ script[r].at = "idle"
      /\ UNCHANGED <<points, highest, limit, limitWas, strayed, protection>>
  BY DEF R!GetBefore
<1>2. PICK before \in {-1, R!MaxSeq} :
        R!Sets(r, [R!Idle EXCEPT !.at = "lift", !.before = before,
                                 !.unread = before # R!MaxSeq])
  BY DEF R!GetBefore
<1> DEFINE s == [R!Idle EXCEPT !.at = "lift", !.before = before, !.unread = before # R!MaxSeq]
<1>3. R!MaxSeq \in Nat \cup {-1} /\ \A n \in points : n <= R!MaxSeq
  BY MaxSeqIs DEF PointsInv, Points
<1>4. /\ s \in Scripts /\ s.at = "lift" /\ s.outcome = "none"
      /\ ~s.unread => s.before = R!MaxSeq
  BY <1>3 DEF R!Idle, R!Limits, Scripts, Places
<1>5. R!Sets(r, s)
  BY <1>2
<1> HIDE DEF s
<1>6. /\ script' \in [Requesters -> Scripts] /\ script'[r] = s
      /\ \A q \in Requesters \ {r} : script'[q] = script[q]
  BY <1>4, <1>5, ScriptSteps
<1>7. Before'
  BY <1>1, <1>3, <1>4, <1>6 DEF Before, PointsInv
<1>8. Limited'
  <2>1. \A q \in Requesters : R!Lifting(q)' => R!Lifting(q) /\ script'[q].old = script[q].old
    BY <1>4, <1>6 DEF R!Lifting
  <2>2. \A q \in Requesters : R!Lifting(q) => R!Lifting(q)'
    BY <1>1, <1>6 DEF R!Lifting
  <2> QED BY <1>1, <2>1, <2>2 DEF Limited, PointsInv
<1> QED BY <1>1, <1>6, <1>7, <1>8 DEF PointsInv, Requested, Points

LEMMA LiftStep ==
  ASSUME PointsInv, NEW r \in Requesters, R!Lift(r) PROVE PointsInv'
<1>1. /\ script[r].at = "lift" /\ limit' \in {"lifted", limit}
      /\ protection' = [protection EXCEPT !.on = @ \/ protection.canBeOn]
      /\ strayed' = (strayed \/ \E q \in Requesters : R!Lifting(q))
      /\ UNCHANGED <<points, highest, limitWas>>
  BY DEF R!Lift
<1> DEFINE s == [script[r] EXCEPT !.at = "checkpoint", !.old = limit]
<1>2. R!Sets(r, s) /\ script[r] \in Scripts /\ limit \in R!Limits
  BY DEF R!Lift, PointsInv, Requested
<1>3. /\ s \in Scripts /\ s.at = "checkpoint" /\ s.old = limit
      /\ s.before = script[r].before /\ s.made = script[r].made
      /\ s.unread = script[r].unread /\ s.outcome = script[r].outcome
  BY <1>2 DEF Scripts, Places
<1> HIDE DEF s
<1>4. /\ script' \in [Requesters -> Scripts] /\ script'[r] = s
      /\ \A q \in Requesters \ {r} : script'[q] = script[q]
  BY <1>2, <1>3, ScriptSteps
<1>5. Before'
  BY <1>1, <1>3, <1>4 DEF Before, PointsInv
<1>6. Limited'
  <2> SUFFICES ASSUME ~strayed' PROVE Limited'
    BY DEF Limited
  <2>1. ~strayed /\ \A q \in Requesters : ~R!Lifting(q)
    BY <1>1
  <2>2. limit = limitWas
    BY <2>1 DEF Limited, PointsInv
  <2>3. \A q \in Requesters : R!Lifting(q)' <=> q = r
    BY <1>3, <1>4, <2>1 DEF R!Lifting
  <2> QED BY <1>1, <1>3, <1>4, <2>2, <2>3 DEF Limited
<1>7. limit' \in R!Limits
  BY <1>1, <1>2 DEF R!Limits
<1>8. protection' \in [on : BOOLEAN, canBeOn : BOOLEAN] /\ strayed' \in BOOLEAN
  BY <1>1 DEF PointsInv, Requested
<1> QED BY <1>1, <1>4, <1>5, <1>6, <1>7, <1>8 DEF PointsInv, Requested, Points

LEMMA PointMade ==
  ASSUME Points, highest' = highest + 1, points' = points \cup {highest'}
  PROVE  Points'
BY DEF Points

(* One more point, of which every script at work knows that it is new.     *)
LEMMA PointAdded ==
  ASSUME PointsInv, NEW before \in [Requesters -> Scripts], R!AddPoint(before),
         UNCHANGED <<limit, limitWas, strayed, protection>>,
         \A r \in Requesters :
           /\ before[r].at = "idle" <=> script[r].at = "idle"
           /\ before[r].at \in {"checkpoint", "put back"} <=> R!Lifting(r)
           /\ before[r].old = script[r].old /\ before[r].outcome = script[r].outcome
           /\ before[r].made = script[r].made /\ before[r].unread = script[r].unread
  PROVE  PointsInv'
<1>1. /\ highest' = highest + 1 /\ points' = points \cup {highest'}
      /\ script' = [r \in Requesters |-> IF script[r].at = "idle" THEN before[r]
                                         ELSE [before[r] EXCEPT !.made = TRUE]]
  BY DEF R!AddPoint
<1>2. Points'
  BY PointMade DEF R!AddPoint, PointsInv
<1>3. ASSUME NEW r \in Requesters
      PROVE  /\ script'[r] \in Scripts /\ script'[r].at = before[r].at
             /\ script'[r].old = script[r].old /\ script'[r].outcome = script[r].outcome
             /\ script'[r].unread = script[r].unread
             /\ script[r].at # "idle" => script'[r].made
             /\ script[r].made => script'[r].made
  <2>1. before[r] \in Scripts
    OBVIOUS
  <2>2. [before[r] EXCEPT !.made = TRUE] \in Scripts
    BY <2>1 DEF Scripts
  <2>3. CASE script[r].at = "idle"
    BY <1>1, <2>1, <2>3
  <2>4. CASE script[r].at # "idle"
    <3>1. script'[r] = [before[r] EXCEPT !.made = TRUE]
      BY <1>1, <2>4
    <3> QED BY <2>1, <2>2, <3>1 DEF Scripts
  <2> QED BY <2>3, <2>4
<1>4. Before'
  BY <1>3 DEF Before, PointsInv
<1>5. Limited'
  <2>1. \A r \in Requesters : R!Lifting(r)' <=> R!Lifting(r)
    BY <1>3 DEF R!Lifting
  <2> QED BY <1>3, <2>1 DEF Limited, PointsInv
<1>6. Requested'
  <2>1. DOMAIN script' = Requesters /\ script' = [r \in Requesters |-> script'[r]]
    BY <1>1
  <2>2. script' \in [Requesters -> Scripts]
    BY <1>3, <2>1
  <2> QED BY <2>2 DEF Requested, PointsInv
<1> QED BY <1>2, <1>4, <1>5, <1>6 DEF PointsInv

LEMMA CheckpointStep ==
  ASSUME PointsInv, NEW r \in Requesters, R!Checkpoint(r) PROVE PointsInv'
<1>1. script[r].at = "checkpoint" /\ UNCHANGED <<limit, limitWas, strayed, protection>>
  BY DEF R!Checkpoint
<1>2. /\ script \in [Requesters -> Scripts]
      /\ protection \in [on : BOOLEAN, canBeOn : BOOLEAN]
  BY DEF PointsInv, Requested
<1>3. CASE R!AddPoint([script EXCEPT ![r].at = "put back"])
  <2> DEFINE before == [script EXCEPT ![r].at = "put back"]
  <2>1. [script[r] EXCEPT !.at = "put back"] \in Scripts
    BY <1>2 DEF Scripts, Places
  <2>2. /\ before \in [Requesters -> Scripts] /\ before[r] = [script[r] EXCEPT !.at = "put back"]
        /\ \A q \in Requesters \ {r} : before[q] = script[q]
    BY <1>2, <2>1
  <2>3. R!AddPoint(before)
    BY <1>3
  <2> HIDE DEF before
  <2>4. script[r] \in Scripts
    BY <1>2
  <2>5. /\ before[r].at = "put back" /\ before[r].old = script[r].old
        /\ before[r].outcome = script[r].outcome /\ before[r].made = script[r].made
        /\ before[r].unread = script[r].unread
    BY <2>2, <2>4 DEF Scripts
  <2>6. \A q \in Requesters :
          /\ before[q].at = "idle" <=> script[q].at = "idle"
          /\ before[q].at \in {"checkpoint", "put back"} <=> R!Lifting(q)
          /\ before[q].old = script[q].old /\ before[q].outcome = script[q].outcome
          /\ before[q].made = script[q].made /\ before[q].unread = script[q].unread
    BY <1>1, <2>2, <2>5 DEF R!Lifting
  <2> QED BY <1>1, <2>2, <2>3, <2>6, PointAdded
<1>4. CASE /\ R!Sets(r, [script[r] EXCEPT !.at = "put back", !.error = ~protection.on])
           /\ UNCHANGED <<points, highest>>
  <2> DEFINE s == [script[r] EXCEPT !.at = "put back", !.error = ~protection.on]
  <2>1. R!Sets(r, s) /\ script[r] \in Scripts
    BY <1>2, <1>4
  <2>2. /\ s \in Scripts /\ s.at = "put back" /\ s.old = script[r].old
        /\ s.before = script[r].before /\ s.made = script[r].made
        /\ s.unread = script[r].unread /\ s.outcome = script[r].outcome
    BY <1>2, <2>1 DEF Scripts, Places
  <2> HIDE DEF s
  <2>3. /\ script' \in [Requesters -> Scripts] /\ script'[r] = s
        /\ \A q \in Requesters \ {r} : script'[q] = script[q]
    BY <2>1, <2>2, ScriptSteps
  <2>4. Before'
    BY <1>1, <1>4, <2>2, <2>3 DEF Before, PointsInv
  <2>5. \A q \in Requesters : /\ R!Lifting(q)' <=> R!Lifting(q)
                              /\ script'[q].old = script[q].old
    BY <1>1, <2>2, <2>3 DEF R!Lifting
  <2>6. Limited'
    BY <1>1, <2>5 DEF Limited, PointsInv
  <2> QED BY <1>1, <1>4, <2>3, <2>4, <2>6 DEF PointsInv, Requested, Points
<1> QED BY <1>3, <1>4 DEF R!Checkpoint

LEMMA PutBackStep ==
  ASSUME PointsInv, NEW r \in Requesters, R!PutBack(r) PROVE PointsInv'
<1>1. /\ script[r].at = "put back" /\ limit' \in {script[r].old, limit}
      /\ strayed' = (strayed \/ limit' # script[r].old)
      /\ UNCHANGED <<points, highest, limitWas, protection>>
  BY DEF R!PutBack
<1> DEFINE s == [script[r] EXCEPT !.at = "after", !.old = R!Unset]
<1>2. R!Sets(r, s) /\ script[r] \in Scripts
  BY DEF R!PutBack, PointsInv, Requested
<1>3. /\ s \in Scripts /\ s.at = "after"
      /\ s.before = script[r].before /\ s.made = script[r].made
      /\ s.unread = script[r].unread /\ s.outcome = script[r].outcome
      /\ script[r].old \in R!Limits
  BY <1>2 DEF Scripts, Places, R!Limits
<1> HIDE DEF s
<1>4. /\ script' \in [Requesters -> Scripts] /\ script'[r] = s
      /\ \A q \in Requesters \ {r} : script'[q] = script[q]
  BY <1>2, <1>3, ScriptSteps
<1>5. Before'
  BY <1>1, <1>3, <1>4 DEF Before, PointsInv
<1>6. Limited'
  <2> SUFFICES ASSUME ~strayed' PROVE Limited'
    BY DEF Limited
  <2>1. ~strayed /\ limit' = script[r].old /\ R!Lifting(r)
    BY <1>1 DEF R!Lifting
  <2>2. script[r].old = limitWas /\ \A q \in Requesters : R!Lifting(q) => q = r
    BY <2>1 DEF Limited, PointsInv
  <2>3. \A q \in Requesters : ~R!Lifting(q)'
    BY <1>3, <1>4, <2>2 DEF R!Lifting
  <2> QED BY <1>1, <2>1, <2>2, <2>3 DEF Limited
<1>7. limit' \in R!Limits /\ strayed' \in BOOLEAN
  BY <1>1, <1>3 DEF PointsInv, Requested
<1> QED BY <1>1, <1>4, <1>5, <1>6, <1>7 DEF PointsInv, Requested, Points

(* The end of a script, with an outcome that is true.                      *)
LEMMA ScriptEnds ==
  ASSUME PointsInv, NEW r \in Requesters,
         NEW outcome \in {"failed", "created", "throttled", "unverified"}, R!Ends(r, outcome),
         outcome = "created" => script[r].made \/ script[r].unread,
         UNCHANGED <<points, highest, limit, limitWas, protection>>,
         strayed' = (strayed \/ R!Lifting(r))
  PROVE  PointsInv'
<1> DEFINE s == [R!Idle EXCEPT !.made = script[r].made, !.unread = script[r].unread,
                               !.outcome = outcome]
<1>1. R!Sets(r, s) /\ script[r] \in Scripts
  BY DEF R!Ends, PointsInv, Requested
<1>2. /\ s \in Scripts /\ s.at = "idle" /\ s.outcome = outcome
      /\ s.made = script[r].made /\ s.unread = script[r].unread
  BY <1>1 DEF Scripts, Places, R!Idle, R!Limits, R!Unset
<1> HIDE DEF s
<1>3. /\ script' \in [Requesters -> Scripts] /\ script'[r] = s
      /\ \A q \in Requesters \ {r} : script'[q] = script[q]
  BY <1>1, <1>2, ScriptSteps
<1>4. Before'
  BY <1>2, <1>3 DEF Before, PointsInv
<1>5. Limited'
  <2> SUFFICES ASSUME ~strayed' PROVE Limited'
    BY DEF Limited
  <2>1. ~strayed /\ ~R!Lifting(r)
    OBVIOUS
  <2>2. \A q \in Requesters : /\ R!Lifting(q)' <=> R!Lifting(q)
                              /\ R!Lifting(q) => script'[q].old = script[q].old
    BY <1>2, <1>3, <2>1 DEF R!Lifting
  <2> QED BY <2>1, <2>2 DEF Limited, PointsInv
<1>6. strayed' \in BOOLEAN
  BY DEF PointsInv, Requested, R!Lifting
<1> QED BY <1>3, <1>4, <1>5, <1>6 DEF PointsInv, Requested, Points

LEMMA AfterStep ==
  ASSUME PointsInv, NEW r \in Requesters, R!After(r) PROVE PointsInv'
<1>1. /\ script[r].at = "after"
      /\ UNCHANGED <<points, highest, limit, limitWas, strayed, protection>>
  BY DEF R!After
<1>2. PICK outcome \in {R!Outcome(script[r])} \cup
                      (IF script[r].error THEN {"failed"}
                       ELSE {IF script[r].before >= 0 THEN "throttled" ELSE "unverified"}) :
        R!Ends(r, outcome)
  BY DEF R!After
<1>3. script[r] \in Scripts /\ Points /\ Before /\ strayed \in BOOLEAN
  BY DEF PointsInv, Requested
<1>4. outcome \in {"failed", "created", "throttled", "unverified"}
  BY <1>2 DEF R!Outcome
<1>5. ASSUME outcome = "created" PROVE script[r].made \/ script[r].unread
  <2>1. R!MaxSeq > script[r].before /\ script[r].before \in Nat \cup {-1}
    BY <1>2, <1>3, <1>5 DEF R!Outcome, Scripts
  <2>a. points # {}
    <3>1. R!MaxSeq # -1
      BY <2>1
    <3> QED BY <1>3, <3>1, MaxSeqIs
  <2>2. points # {} /\ R!MaxSeq \in points /\ R!MaxSeq \in Nat
    BY <1>3, <2>a, MaxSeqIs DEF Points
  <2>3. ~(R!MaxSeq <= script[r].before)
    BY <2>1, <2>2
  <2> QED BY <1>1, <1>3, <2>2, <2>3 DEF Before
<1>6. strayed' = (strayed \/ R!Lifting(r))
  BY <1>1, <1>3 DEF R!Lifting
<1> QED BY <1>1, <1>2, <1>4, <1>5, <1>6, ScriptEnds

LEMMA KilledStep ==
  ASSUME PointsInv, NEW r \in Requesters, R!Killed(r) PROVE PointsInv'
<1>1. /\ R!Ends(r, "failed") /\ strayed' = (strayed \/ R!Lifting(r))
      /\ UNCHANGED <<points, highest, limit, limitWas, protection>>
  BY DEF R!Killed
<1> QED BY <1>1, ScriptEnds

LEMMA OtherPointStep ==
  ASSUME PointsInv, R!OtherPoint PROVE PointsInv'
<1>1. R!AddPoint(script) /\ UNCHANGED <<limit, limitWas, strayed, protection>>
  BY DEF R!OtherPoint
<1>2. script \in [Requesters -> Scripts]
  BY DEF PointsInv, Requested
<1> QED BY <1>1, <1>2, PointAdded DEF R!Lifting

LEMMA PrunedStep ==
  ASSUME PointsInv, R!Pruned PROVE PointsInv'
<1>1. /\ points # {} /\ points' \in {{}, {R!MaxSeq}}
      /\ UNCHANGED <<highest, limit, limitWas, strayed, protection, script>>
  BY DEF R!Pruned
<1>2. points' \subseteq points
  BY <1>1, MaxSeqIs DEF PointsInv
<1>3. Points'
  <2>1. Points /\ \A n \in points : n \in Nat /\ n <= highest
    BY DEF Points, PointsInv
  <2>2. \A n, m \in points' : m = n
    BY <1>1
  <2>3. \A n, m \in points' : m <= n
    BY <1>2, <2>1, <2>2
  <2> QED BY <1>1, <1>2, <2>1, <2>3 DEF Points
<1>4. Before'
  BY <1>1, <1>2 DEF Before, PointsInv
<1> QED BY <1>1, <1>3, <1>4 DEF PointsInv, Requested, Limited, R!Lifting

LEMMA PointsStep == PointsInv /\ [Next]_vars => PointsInv'
<1> SUFFICES ASSUME PointsInv, [Next]_vars PROVE PointsInv'
  OBVIOUS
<1>1. CASE R!Next
  BY <1>1, GetBeforeStep, LiftStep, CheckpointStep, PutBackStep, AfterStep, KilledStep,
     OtherPointStep, PrunedStep DEF R!Next
<1>2. CASE UNCHANGED pointVars
  BY <1>2 DEF pointVars, PointsInv, Points, Requested, Before, Limited, R!Lifting
<1> QED BY <1>1, <1>2 DEF Next, vars

(* What counts as protection is a restore point made since it was asked    *)
(* for, unless the points could not be listed before, and the limit on     *)
(* them is what it was whenever no script runs, unless one was killed or   *)
(* refused before it had put it back or met it lifted                      *)
(* (safety/restore_point.rs): for any number of WinMedics that ask at      *)
(* once, of points and of requests, wherever a script is killed.           *)
THEOREM ProtectionIsNew == Spec => []ProtectedMeansNew
<1>1. PointsInv => ProtectedMeansNew
  BY DEF PointsInv, Before, Limited, R!Lifting, ProtectedMeansNew, R!ProtectedMeansNew
<1> QED BY <1>1, PointsInit, PointsStep, PTL DEF Spec

---------------------------------------------------------------------------
(* Headless. The findings of a run, and where it stands.                   *)
RunPlaces == {"start", "scan", "restore point", "repairs", "fix", "report", "ended"}
Runs ==
  [at : RunPlaces, token : BOOLEAN, cut : BOOLEAN, checked : SUBSET Problems,
   failed : SUBSET Problems, fixing : SUBSET Problems, failures : Nat,
   cancelled : BOOLEAN, code : Int]

RunTypes ==
  /\ args \in H!Args /\ profile \in [Problems -> H!Profiles] /\ machine \subseteq Problems
  /\ run \in Runs
  /\ run.failed \subseteq run.checked /\ IsFiniteSet(run.checked)
  /\ DOMAIN list \subseteq run.checked /\ list \in [DOMAIN list -> H!Finding]

(* Until the scan ends.                                                    *)
Scanning ==
  run.at \in {"start", "scan"} =>
    /\ ~run.cut /\ ~run.cancelled /\ run.failures = 0 /\ run.fixing = {}
    /\ touched = {} /\ printed = <<>> /\ lastScan = <<>>
    /\ \A p \in DOMAIN list : list[p] = profile[p]
    /\ \A p \in run.checked \cap machine : p \in run.failed \/ p \in DOMAIN list
    /\ run.at = "start" => run.checked = {}

(* From then on: what is wrong with the machine is in the list, unless it  *)
(* is archived or its check failed; a repair that failed is counted and    *)
(* marked; of each repair that was started the list says how it went; and  *)
(* what was printed and saved.                                             *)
Found ==
  /\ DOMAIN list \cap archived = {}
  /\ ~run.cut =>
       /\ run.checked = Problems
       /\ \A p \in machine \ archived :
            \/ p \in run.failed
            \/ p \in DOMAIN list /\ list[p].severity = profile[p].severity
               /\ ~list[p].is_fixed

Marked ==
  /\ run.failures > 0 => \E p \in DOMAIN list : list[p].fix_error
  /\ (\E p \in DOMAIN list : list[p].fix_error) => run.failures > 0 \/ run.cancelled

Touched ==
  /\ touched \subseteq DOMAIN list /\ (args.mode # "fix" => touched = {})
  /\ \A p \in touched : p \in run.fixing \/ ~H!WillRepair(list[p]) \/ list[p].fix_error

Fixing ==
  /\ run.cut \/ run.cancelled \/ args.mode = "scan" => run.at = "report"
  /\ run.at = "fix" =>
       /\ run.fixing # {}
       /\ \A p \in run.fixing : run.fixing = {p} /\ p \in DOMAIN list /\ ~list[p].fix_error
  /\ run.at \in {"restore point", "repairs"} => run.fixing = {}
  /\ run.at = "restore point" => touched = {} /\ run.failures = 0

Kept ==
  /\ args.json /\ ~args.helper => printed = IF H!DeferJson(run.cut) THEN <<>> ELSE <<list>>
  /\ lastScan # <<>> => args.helper /\ run.checked = Problems

Repairing ==
  run.at \in {"restore point", "repairs", "fix", "report"} =>
    Found /\ Marked /\ Touched /\ Fixing /\ Kept

(* A run that goes on to its report has tried every repair.                *)
Tried ==
  run.at = "report" /\ args.mode = "fix" /\ ~run.cut /\ ~run.cancelled /\ run.failures = 0 =>
    H!Waiting(list) = {}

RunInv == RunTypes /\ Scanning /\ Repairing /\ Tried /\ H!RunIsToldTruly

Settled == run.at \notin {"start", "scan"}

LEMMA Recorded ==
  ASSUME NEW f \in H!Finding, NEW result \in H!RepairResults
  PROVE  /\ H!RecordRepair(f, result) \in H!Finding
         /\ H!RecordRepair(f, result).severity = f.severity
         /\ H!RecordRepair(f, result).fix_error <=> result = "error"
         /\ result # "error" => ~H!WillRepair(H!RecordRepair(f, result))
         /\ H!RecordRepair(f, result).is_fixed => result \in {"changed", "nothing"}
<1> DEFINE g == H!RecordRepair(f, result)
<1>1. g \in H!Finding /\ g.severity = f.severity
  BY DEF H!RecordRepair, H!Finding, H!RepairResults
<1>2. g.fix_error <=> result = "error"
  BY DEF H!RecordRepair, H!Finding
<1>3. g.is_fixed => result \in {"changed", "nothing"}
  BY DEF H!RecordRepair, H!Finding, H!RepairResults
<1>4. result # "error" => g.is_fixed \/ g.is_reboot_pending
  BY DEF H!RecordRepair, H!Finding
<1>5. result # "error" => ~H!WillRepair(g)
  BY <1>4 DEF H!WillRepair, H!IsRepairable
<1> QED BY <1>1, <1>2, <1>3, <1>5

(* A problem is found with a finding of its profile, not mended yet.       *)
LEMMA ProfilesAreFindings ==
  \A f \in H!Profiles : f \in H!Finding /\ ~f.fix_error /\ ~f.is_fixed
<1> SUFFICES ASSUME NEW s \in H!Severities, NEW t \in BOOLEAN, NEW u \in BOOLEAN, NEW v \in BOOLEAN
             PROVE  LET f == H!Fresh(s, t, u, v)
                    IN  f \in H!Finding /\ ~f.fix_error /\ ~f.is_fixed
  BY DEF H!Profiles, H!Severities
<1>1. (t /\ ~v) \in BOOLEAN
  OBVIOUS
<1> QED BY <1>1 DEF H!Fresh, H!Finding

LEMMA RunInit == Init => RunInv
<1> SUFFICES ASSUME Init PROVE RunInv
  OBVIOUS
<1>1. H!Init
  BY DEF Init
<1>2. /\ args \in H!Args /\ profile \in [Problems -> H!Profiles] /\ machine \subseteq Problems
      /\ list = [p \in {} |-> {}] /\ printed = <<>> /\ lastScan = <<>> /\ touched = {}
  BY <1>1 DEF H!Init
<1>3. run = [at |-> "start", token |-> FALSE, cut |-> FALSE, checked |-> {}, failed |-> {},
            fixing |-> {}, failures |-> 0, cancelled |-> FALSE, code |-> -1]
  BY <1>1 DEF H!Init
<1>4. /\ run \in Runs /\ run.at = "start" /\ ~run.cut /\ run.checked = {} /\ run.failed = {}
      /\ run.fixing = {} /\ run.failures = 0 /\ ~run.cancelled
  BY <1>3 DEF Runs, RunPlaces
<1>5. RunTypes
  BY <1>2, <1>4, FS_EmptySet DEF RunTypes
<1>6. Scanning
  BY <1>2, <1>4 DEF Scanning
<1> QED BY <1>4, <1>5, <1>6 DEF RunInv, Repairing, Tried, H!RunIsToldTruly

(* The run ends by itself, or a step of it leads to another place.         *)
LEMMA StartRun ==
  ASSUME RunInv, H!Start PROVE RunInv'
<1>1. /\ run.at = "start" /\ run \in Runs /\ RunTypes /\ Scanning
      /\ UNCHANGED <<args, profile, archived, machine, list, printed, lastScan, touched>>
  BY DEF H!Start, RunInv, RunTypes, H!input
<1>2. /\ run.checked = {} /\ ~run.cut /\ ~run.cancelled /\ touched = {} /\ lastScan = <<>>
  BY <1>1 DEF Scanning
<1>3. CASE args.helper /\ H!Ended(H!ExitOk)
  <2>1. run' = [run EXCEPT !.at = "ended", !.code = 0]
    BY <1>3 DEF H!Ended, H!ExitOk
  <2>2. /\ run' \in Runs /\ run'.at = "ended" /\ run'.code = 0 /\ run'.cut = run.cut
        /\ run'.cancelled = run.cancelled /\ run'.checked = run.checked
        /\ run'.failed = run.failed
    <3>1. 0 \in Int /\ "ended" \in RunPlaces
      BY DEF RunPlaces
    <3> QED BY <1>1, <2>1, <3>1 DEF Runs
  <2>3. RunTypes'
    BY <1>1, <2>2 DEF RunTypes
  <2>4. DOMAIN list = {}
    BY <1>1, <1>2 DEF RunTypes
  <2>5. H!RunIsToldTruly'
    BY <1>1, <1>2, <1>3, <2>2, <2>4
       DEF H!RunIsToldTruly, H!Waiting, H!ExitOk, H!ExitWarnings, H!ExitFixFailed, H!ExitCancelled
  <2> QED BY <2>2, <2>3, <2>5 DEF RunInv, Scanning, Repairing, Tried
<1>4. CASE run' = [run EXCEPT !.at = "scan"]
  <2>1. /\ run' \in Runs /\ run'.at = "scan" /\ run'.cut = run.cut
        /\ run'.cancelled = run.cancelled /\ run'.checked = run.checked
        /\ run'.failed = run.failed /\ run'.fixing = run.fixing
        /\ run'.failures = run.failures
    BY <1>1, <1>4 DEF Runs, RunPlaces
  <2>2. RunTypes'
    BY <1>1, <2>1 DEF RunTypes
  <2>3. Scanning'
    BY <1>1, <2>1 DEF Scanning
  <2> QED BY <2>1, <2>2, <2>3 DEF RunInv, Repairing, Tried, H!RunIsToldTruly
<1> QED BY <1>3, <1>4 DEF H!Start

LEMMA CtrlCRun ==
  ASSUME RunInv, H!CtrlC PROVE RunInv'
<1>1. /\ run.at # "ended" /\ run \in Runs
      /\ UNCHANGED <<args, profile, archived, machine, list, printed, lastScan, touched>>
      /\ run' = [run EXCEPT !.token = TRUE]
  BY DEF H!CtrlC, H!Live, RunInv, RunTypes, H!input
<1>2. /\ run' \in Runs /\ run'.at = run.at /\ run'.cut = run.cut
      /\ run'.cancelled = run.cancelled /\ run'.checked = run.checked
      /\ run'.failed = run.failed /\ run'.fixing = run.fixing
      /\ run'.failures = run.failures /\ run'.code = run.code
  BY <1>1 DEF Runs
<1>3. RunTypes'
  BY <1>1, <1>2 DEF RunInv, RunTypes
<1>4. Scanning'
  BY <1>1, <1>2 DEF RunInv, Scanning
<1>5. Repairing'
  <2> SUFFICES ASSUME run.at \in {"restore point", "repairs", "fix", "report"}
               PROVE  (Found /\ Marked /\ Touched /\ Fixing /\ Kept)'
    BY <1>2 DEF Repairing
  <2>1. Found /\ Marked /\ Touched /\ Fixing /\ Kept
    BY DEF RunInv, Repairing
  <2>2. Found' /\ Marked' /\ Fixing'
    BY <1>1, <1>2, <2>1 DEF Found, Marked, Fixing
  <2>3. Touched'
    BY <1>1, <1>2, <2>1 DEF Touched
  <2>4. Kept'
    BY <1>1, <1>2, <2>1 DEF Kept, H!DeferJson, H!RunsRepairs
  <2> QED BY <2>1, <2>2, <2>3, <2>4
<1>6. Tried'
  BY <1>1, <1>2 DEF RunInv, Tried, H!Waiting
<1>7. H!RunIsToldTruly'
  BY <1>1, <1>2 DEF H!RunIsToldTruly
<1> QED BY <1>3, <1>4, <1>5, <1>6, <1>7 DEF RunInv

LEMMA CheckRun ==
  ASSUME RunInv, NEW p \in Problems, H!CheckEnds(p) PROVE RunInv'
<1>1. /\ run.at = "scan" /\ p \notin run.checked /\ run \in Runs /\ RunTypes /\ Scanning
      /\ UNCHANGED <<args, profile, archived, machine, printed, lastScan, touched>>
  BY DEF H!CheckEnds, RunInv, RunTypes, H!input
<1>2. PICK fails \in BOOLEAN :
        /\ run' = [run EXCEPT !.checked = @ \cup {p},
                              !.failed = IF fails THEN @ \cup {p} ELSE @]
        /\ list' = IF fails \/ p \notin machine THEN list
                   ELSE [q \in DOMAIN list \cup {p} |-> profile[q]]
  BY DEF H!CheckEnds
<1> DEFINE checked == run.checked \cup {p}
           failed == IF fails THEN run.failed \cup {p} ELSE run.failed
<1>3. /\ checked \subseteq Problems /\ failed \subseteq checked /\ IsFiniteSet(checked)
      /\ failed \subseteq Problems
  BY <1>1, FS_AddElement DEF RunTypes, Runs
<1>4. run' = [run EXCEPT !.checked = checked, !.failed = failed]
  BY <1>2
<1>5. /\ p \in checked /\ run.checked \subseteq checked /\ run.failed \subseteq failed
      /\ fails => p \in failed
      /\ checked \subseteq run.checked \cup {p}
  OBVIOUS
<1> HIDE DEF checked, failed
<1>6. /\ run' \in Runs /\ run'.at = "scan" /\ run'.cut = run.cut
      /\ run'.cancelled = run.cancelled /\ run'.checked = checked
      /\ run'.failed = failed /\ run'.fixing = run.fixing
      /\ run'.failures = run.failures
  BY <1>1, <1>3, <1>4 DEF Runs
<1>7. profile[p] \in H!Finding
  BY <1>1, ProfilesAreFindings DEF RunTypes
<1>8. /\ DOMAIN list' \subseteq checked /\ list' \in [DOMAIN list' -> H!Finding]
      /\ \A q \in DOMAIN list' : list'[q] = profile[q]
      /\ DOMAIN list \subseteq DOMAIN list'
      /\ ~fails /\ p \in machine => p \in DOMAIN list'
  <2>1. CASE fails \/ p \notin machine
    BY <1>1, <1>2, <1>5, <2>1 DEF RunTypes, Scanning
  <2>2. CASE ~(fails \/ p \notin machine)
    <3>1. list' = [q \in DOMAIN list \cup {p} |-> profile[q]]
      BY <1>2, <2>2
    <3>2. \A q \in DOMAIN list : profile[q] \in H!Finding
      BY <1>1 DEF RunTypes, Scanning
    <3> QED BY <1>1, <1>5, <1>7, <3>1, <3>2 DEF RunTypes
  <2> QED BY <2>1, <2>2
<1>9. RunTypes'
  BY <1>1, <1>3, <1>6, <1>8 DEF RunTypes
<1>10. Scanning'
  <2>1. \A q \in checked \cap machine : q \in failed \/ q \in DOMAIN list'
    BY <1>1, <1>5, <1>8 DEF Scanning
  <2> QED BY <1>1, <1>6, <1>8, <2>1 DEF Scanning
<1> QED BY <1>6, <1>9, <1>10 DEF RunInv, Repairing, Tried, H!RunIsToldTruly

LEMMA ScanEndsRun ==
  ASSUME RunInv, H!ScanEnds PROVE RunInv'
<1>1. /\ run.at = "scan" /\ run \in Runs /\ RunTypes /\ Scanning
      /\ UNCHANGED <<args, profile, archived, machine, touched>>
  BY DEF H!ScanEnds, RunInv, RunTypes, H!input
<1>2. PICK cut \in BOOLEAN :
        /\ IF cut THEN run.token ELSE run.checked = Problems
        /\ list' = H!Split
        /\ \/ lastScan' = IF args.helper /\ ~cut THEN <<H!Split>> ELSE lastScan
           \/ UNCHANGED lastScan
        /\ printed' = IF args.json /\ ~H!DeferJson(cut) /\ ~args.helper
                      THEN Append(printed, H!Split) ELSE printed
        /\ run' = [run EXCEPT !.cut = cut,
                              !.at = IF H!RunsRepairs /\ ~cut THEN "restore point"
                                     ELSE "report"]
  BY DEF H!ScanEnds
<1> DEFINE place == IF H!RunsRepairs /\ ~cut THEN "restore point" ELSE "report"
<1>3. run' = [run EXCEPT !.cut = cut, !.at = place]
  BY <1>2
<1>4. place \in {"restore point", "report"} /\ (cut \/ ~H!RunsRepairs => place = "report")
      /\ (place = "report" => cut \/ ~H!RunsRepairs)
  OBVIOUS
<1> HIDE DEF place
<1>5. /\ run' \in Runs /\ run'.at = place /\ run'.cut = cut
      /\ run'.cancelled = run.cancelled /\ run'.checked = run.checked
      /\ run'.failed = run.failed /\ run'.fixing = run.fixing
      /\ run'.failures = run.failures
  BY <1>1, <1>3, <1>4 DEF Runs, RunPlaces
<1>6. /\ DOMAIN list' = DOMAIN list \ archived
      /\ list' \in [DOMAIN list' -> H!Finding]
      /\ \A p \in DOMAIN list' : list'[p] = profile[p]
  BY <1>1, <1>2 DEF H!Split, RunTypes, Scanning
<1>7. \A p \in Problems : ~profile[p].fix_error /\ ~profile[p].is_fixed
  BY <1>1, ProfilesAreFindings DEF RunTypes
<1>8. DOMAIN list' \subseteq Problems
  BY <1>1, <1>6 DEF RunTypes, Runs
<1>9. \A p \in DOMAIN list' : ~list'[p].fix_error /\ ~list'[p].is_fixed
  BY <1>6, <1>7, <1>8
<1>10. RunTypes'
  BY <1>1, <1>5, <1>6 DEF RunTypes
<1>11. ~cut => run.checked = Problems
  BY <1>2
<1>12. lastScan' # <<>> => args.helper /\ run.checked = Problems
  BY <1>1, <1>2, <1>11 DEF Scanning
<1>13. args.json /\ ~args.helper => printed' = IF H!DeferJson(cut) THEN <<>> ELSE <<list'>>
  <2>1. printed = <<>>
    BY <1>1 DEF Scanning
  <2>2. Append(<<>>, H!Split) = <<H!Split>>
    OBVIOUS
  <2> QED BY <1>2, <2>1, <2>2
<1>14. Repairing'
  <2>1. ~cut => \A p \in machine \ archived :
          \/ p \in run.failed
          \/ p \in DOMAIN list' /\ list'[p].severity = profile[p].severity
             /\ ~list'[p].is_fixed
    BY <1>1, <1>6, <1>9, <1>11 DEF Scanning, RunTypes
  <2>2. /\ ~run.cancelled /\ run.failures = 0 /\ run.fixing = {} /\ touched = {}
    BY <1>1 DEF Scanning
  <2>3. args.mode = "scan" => ~H!RunsRepairs
    BY DEF H!RunsRepairs
  <2>4. H!DeferJson(run.cut)' <=> H!DeferJson(cut)
    <3>1. run'.cut = cut /\ args' = args
      BY <1>1, <1>5
    <3> QED BY <3>1, Zenon DEF H!DeferJson, H!RunsRepairs
  <2>5. /\ DOMAIN list' \cap archived' = {}
        /\ touched' \subseteq DOMAIN list' /\ touched' = {}
        /\ ~run'.cancelled /\ run'.failures = 0 /\ run'.fixing = {}
        /\ ~\E p \in DOMAIN list' : list'[p].fix_error
    BY <1>1, <1>5, <1>6, <1>9, <2>2
  <2>6. run'.cut \/ run'.cancelled \/ args'.mode = "scan" => run'.at = "report"
    BY <1>1, <1>4, <1>5, <2>2, <2>3
  <2>7. ~run'.cut =>
          /\ run'.checked = Problems
          /\ \A p \in machine' \ archived' :
               \/ p \in run'.failed
               \/ p \in DOMAIN list' /\ list'[p].severity = profile'[p].severity
                  /\ ~list'[p].is_fixed
    BY <1>1, <1>5, <1>11, <2>1
  <2>8. args'.json /\ ~args'.helper =>
          printed' = IF H!DeferJson(run.cut)' THEN <<>> ELSE <<list'>>
    BY <1>1, <1>13, <2>4
  <2>9. lastScan' # <<>> => args'.helper /\ run'.checked = Problems
    BY <1>1, <1>5, <1>12
  <2>10. run'.at # "fix"
    BY <1>4, <1>5
  <2>11. Found'
    BY <2>5, <2>7 DEF Found
  <2>12. Marked' /\ Touched'
    BY <2>5 DEF Marked, Touched
  <2>13. Fixing'
    BY <2>5, <2>6, <2>10 DEF Fixing
  <2>14. Kept'
    BY <2>8, <2>9 DEF Kept
  <2> QED BY <2>11, <2>12, <2>13, <2>14 DEF Repairing
<1>15. Tried'
  BY <1>1, <1>4, <1>5 DEF Tried, H!RunsRepairs
<1> QED BY <1>4, <1>5, <1>10, <1>14, <1>15 DEF RunInv, Scanning, H!RunIsToldTruly

(* What the places after the scan have in common.                          *)
LEMMA Late ==
  ASSUME RunInv, run.at \in {"restore point", "repairs", "fix", "report"}
  PROVE  /\ RunTypes /\ run \in Runs /\ Found /\ Marked /\ Touched /\ Fixing /\ Kept
         /\ list \in [DOMAIN list -> H!Finding] /\ DOMAIN list \subseteq Problems
         /\ run.at # "report" => ~run.cut /\ ~run.cancelled /\ args.mode # "scan"
         /\ run.at # "report" /\ args.json /\ ~args.helper => printed = <<>>
<1>1. RunTypes /\ run \in Runs /\ Found /\ Marked /\ Touched /\ Fixing /\ Kept
  BY DEF RunInv, Repairing, RunTypes
<1>2. run.at # "report" => ~run.cut /\ ~run.cancelled /\ args.mode # "scan"
  BY <1>1 DEF Fixing
<1>3. run.at # "report" /\ args.json /\ ~args.helper => printed = <<>>
  BY <1>1, <1>2 DEF Kept, H!DeferJson, H!RunsRepairs
<1> QED BY <1>1, <1>2, <1>3 DEF RunTypes, Runs

(* The marks of the repairs that were not made change nothing else.        *)
WithErrors(l, Q) == [p \in DOMAIN l |-> [l[p] EXCEPT !.fix_error = @ \/ p \in Q]]

LEMMA MarksOnly ==
  ASSUME NEW l, l \in [DOMAIN l -> H!Finding], NEW Q, NEW m, m = WithErrors(l, Q)
  PROVE  /\ DOMAIN m = DOMAIN l /\ m \in [DOMAIN m -> H!Finding]
         /\ \A p \in DOMAIN l :
              /\ m[p].severity = l[p].severity /\ m[p].is_fixed = l[p].is_fixed
              /\ H!WillRepair(m[p]) <=> H!WillRepair(l[p])
              /\ m[p].fix_error <=> l[p].fix_error \/ p \in Q
<1>1. ASSUME NEW p \in DOMAIN l
      PROVE  /\ m[p] \in H!Finding
             /\ m[p].severity = l[p].severity /\ m[p].is_fixed = l[p].is_fixed
             /\ H!WillRepair(m[p]) <=> H!WillRepair(l[p])
             /\ m[p].fix_error <=> l[p].fix_error \/ p \in Q
  <2> DEFINE e == l[p].fix_error \/ p \in Q
  <2>1. l[p] \in H!Finding /\ e \in BOOLEAN
    BY DEF H!Finding
  <2>2. m[p] = [l[p] EXCEPT !.fix_error = e]
    BY DEF WithErrors
  <2> HIDE DEF e
  <2>3. /\ m[p] \in H!Finding /\ m[p].severity = l[p].severity
        /\ m[p].is_fixed = l[p].is_fixed /\ m[p].fix_error = e
        /\ m[p].is_selected = l[p].is_selected /\ m[p].advice_only = l[p].advice_only
        /\ m[p].is_reboot_pending = l[p].is_reboot_pending
    BY <2>1, <2>2 DEF H!Finding
  <2>4. H!WillRepair(m[p]) <=> H!WillRepair(l[p])
    BY <2>3 DEF H!WillRepair, H!IsRepairable
  <2> QED BY <2>3, <2>4 DEF e
<1> QED BY <1>1 DEF WithErrors

(* Cardinality as Headless has it, through its instance, is Cardinality.   *)
LEMMA SameCardinality == \A Q : H!Cardinality(Q) = Cardinality(Q)
BY Zenon DEF H!Cardinality, Cardinality

LEMMA WaitingCounted ==
  ASSUME RunTypes
  PROVE  /\ Cardinality(H!Waiting(list)) \in Nat /\ Cardinality(run.failed) \in Nat
         /\ Cardinality(H!Waiting(list)) = 0 <=> H!Waiting(list) = {}
         /\ Cardinality(run.failed) = 0 <=> run.failed = {}
<1>1. H!Waiting(list) \subseteq run.checked /\ run.failed \subseteq run.checked
  BY DEF RunTypes, H!Waiting
<1>2. IsFiniteSet(H!Waiting(list)) /\ IsFiniteSet(run.failed)
  BY <1>1, FS_Subset DEF RunTypes
<1> QED BY <1>2, FS_CardinalityType, FS_EmptySet

LEMMA RestorePointRun ==
  ASSUME RunInv, H!RestorePoint PROVE RunInv'
<1>1. /\ run.at = "restore point"
      /\ UNCHANGED <<args, profile, archived, machine, printed, lastScan, touched>>
  BY DEF H!RestorePoint, H!input
<1>2. /\ RunTypes /\ run \in Runs /\ Found /\ Marked /\ Touched /\ Fixing /\ Kept
      /\ list \in [DOMAIN list -> H!Finding] /\ DOMAIN list \subseteq Problems
      /\ ~run.cut /\ ~run.cancelled /\ args.mode # "scan"
      /\ args.json /\ ~args.helper => printed = <<>>
  BY <1>1, Late
<1>3. touched = {} /\ run.failures = 0 /\ run.fixing = {}
  BY <1>1, <1>2 DEF Fixing
<1>4. \A p \in DOMAIN list : ~list[p].fix_error
  BY <1>2, <1>3 DEF Marked
<1>5. CASE H!Missing
  <2> DEFINE W == H!Waiting(list)
             n == Cardinality(W)
  <2>1. list' = WithErrors(list, W) /\ run' = [run EXCEPT !.at = "report", !.failures = n]
    <3>1. list' = WithErrors(list, W)
      BY <1>5, Zenon DEF H!Missing, WithErrors
    <3>2. run' = [run EXCEPT !.at = "report", !.failures = Cardinality(H!Waiting(list))]
      BY <1>5, SameCardinality, Zenon DEF H!Missing
    <3> QED BY <3>1, <3>2
  <2>2. n \in Nat /\ (n = 0 <=> W = {}) /\ W \subseteq DOMAIN list
    BY <1>2, WaitingCounted DEF H!Waiting
  <2>3. W' = W
    <3>1. /\ DOMAIN list' = DOMAIN list
          /\ \A p \in DOMAIN list : H!WillRepair(list'[p]) <=> H!WillRepair(list[p])
      BY <1>2, <2>1, MarksOnly
    <3> QED BY <2>1, <3>1 DEF H!Waiting
  <2> HIDE DEF W, n
  <2>4. /\ DOMAIN list' = DOMAIN list /\ list' \in [DOMAIN list' -> H!Finding]
        /\ \A p \in DOMAIN list :
             /\ list'[p].severity = list[p].severity /\ list'[p].is_fixed = list[p].is_fixed
             /\ list'[p].fix_error <=> list[p].fix_error \/ p \in W
    BY <1>2, <2>1, MarksOnly
  <2>5. /\ run' \in Runs /\ run'.at = "report" /\ run'.cut = run.cut
        /\ run'.cancelled = run.cancelled /\ run'.checked = run.checked
        /\ run'.failed = run.failed /\ run'.fixing = run.fixing /\ run'.failures = n
    BY <1>2, <2>1, <2>2 DEF Runs, RunPlaces
  <2>6. RunTypes'
    BY <1>1, <1>2, <2>4, <2>5 DEF RunTypes
  <2>7. Found'
    BY <1>1, <1>2, <2>4, <2>5 DEF Found
  <2>8. Marked'
    BY <1>4, <2>2, <2>4, <2>5 DEF Marked
  <2>9. Touched' /\ Fixing'
    BY <1>1, <1>2, <1>3, <2>5 DEF Touched, Fixing
  <2>10. Kept'
    BY <1>1, <1>2, <2>5 DEF Kept, H!DeferJson, H!RunsRepairs
  <2>11. Tried'
    BY <2>2, <2>3, <2>5 DEF Tried, W
  <2> QED BY <2>5, <2>6, <2>7, <2>8, <2>9, <2>10, <2>11
             DEF RunInv, Repairing, Scanning, H!RunIsToldTruly
<1>6. CASE run' = [run EXCEPT !.at = "repairs"] /\ UNCHANGED list
  <2>1. /\ run' \in Runs /\ run'.at = "repairs" /\ run'.cut = run.cut
        /\ run'.cancelled = run.cancelled /\ run'.checked = run.checked
        /\ run'.failed = run.failed /\ run'.fixing = run.fixing
        /\ run'.failures = run.failures /\ list' = list
    BY <1>2, <1>6 DEF Runs, RunPlaces
  <2>2. RunTypes'
    BY <1>1, <1>2, <2>1 DEF RunTypes
  <2>3. Found' /\ Marked'
    BY <1>1, <1>2, <2>1 DEF Found, Marked
  <2>4. Touched' /\ Fixing'
    BY <1>1, <1>2, <1>3, <2>1 DEF Touched, Fixing
  <2>5. Kept'
    BY <1>1, <1>2, <2>1 DEF Kept, H!DeferJson, H!RunsRepairs
  <2> QED BY <2>1, <2>2, <2>3, <2>4, <2>5
             DEF RunInv, Repairing, Scanning, Tried, H!RunIsToldTruly
<1> QED BY <1>5, <1>6 DEF H!RestorePoint

LEMMA StartRepairRun ==
  ASSUME RunInv, NEW p \in Problems, H!StartRepair(p) PROVE RunInv'
<1>1. /\ run.at = "repairs" /\ p \in H!Todo /\ args.mode = "fix"
      /\ touched' = touched \cup {p} /\ run' = [run EXCEPT !.at = "fix", !.fixing = {p}]
      /\ UNCHANGED <<args, profile, archived, machine, list, printed, lastScan>>
  BY DEF H!StartRepair, H!input
<1>2. /\ RunTypes /\ run \in Runs /\ Found /\ Marked /\ Touched /\ Fixing /\ Kept
      /\ ~run.cut /\ ~run.cancelled
  BY <1>1, Late
<1>3. p \in DOMAIN list /\ ~list[p].fix_error
  BY <1>1 DEF H!Todo, H!Waiting
<1>4. /\ run' \in Runs /\ run'.at = "fix" /\ run'.cut = run.cut
      /\ run'.cancelled = run.cancelled /\ run'.checked = run.checked
      /\ run'.failed = run.failed /\ run'.fixing = {p}
      /\ run'.failures = run.failures
  BY <1>1, <1>2 DEF Runs, RunPlaces
<1>5. RunTypes'
  BY <1>1, <1>2, <1>4 DEF RunTypes
<1>6. Found' /\ Marked'
  BY <1>1, <1>2, <1>4 DEF Found, Marked
<1>7. Touched'
  <2>1. run.fixing = {}
    BY <1>1, <1>2 DEF Fixing
  <2> QED BY <1>1, <1>2, <1>3, <1>4, <2>1 DEF Touched
<1>8. Fixing'
  BY <1>1, <1>2, <1>3, <1>4 DEF Fixing
<1>9. Kept'
  BY <1>1, <1>2, <1>4 DEF Kept, H!DeferJson, H!RunsRepairs
<1> QED BY <1>4, <1>5, <1>6, <1>7, <1>8, <1>9
           DEF RunInv, Repairing, Scanning, Tried, H!RunIsToldTruly

LEMMA FixEndsRun ==
  ASSUME RunInv, NEW p \in Problems, H!FixEnds(p) PROVE RunInv'
<1>1. /\ run.at = "fix" /\ p \in run.fixing
      /\ UNCHANGED <<args, profile, archived, printed, lastScan, touched>>
  BY DEF H!FixEnds, H!input
<1>2. PICK result \in H!RepairResults :
        /\ result = "nothing" => p \notin machine
        /\ machine' = IF result = "changed" THEN machine \ {p} ELSE machine
        /\ list' = [list EXCEPT ![p] = H!RecordRepair(@, result)]
        /\ run' = [run EXCEPT !.at = "repairs", !.fixing = {},
                              !.failures = IF result = "error" THEN @ + 1 ELSE @]
  BY DEF H!FixEnds
<1>3. /\ RunTypes /\ run \in Runs /\ Found /\ Marked /\ Touched /\ Fixing /\ Kept
      /\ ~run.cut /\ ~run.cancelled /\ args.mode # "scan"
      /\ list \in [DOMAIN list -> H!Finding]
  BY <1>1, Late
<1>4. run.fixing = {p} /\ p \in DOMAIN list /\ ~list[p].fix_error
  BY <1>1, <1>3 DEF Fixing
<1> DEFINE f == H!RecordRepair(list[p], result)
           failures == IF result = "error" THEN run.failures + 1 ELSE run.failures
<1>5. /\ f \in H!Finding /\ f.severity = list[p].severity
      /\ f.fix_error <=> result = "error"
      /\ result # "error" => ~H!WillRepair(f)
      /\ f.is_fixed => result \in {"changed", "nothing"}
  BY <1>3, <1>4, Recorded
<1>6. run' = [run EXCEPT !.at = "repairs", !.fixing = {}, !.failures = failures]
  BY <1>2
<1>7. list' = [list EXCEPT ![p] = f]
  BY <1>2
<1>8. /\ failures \in Nat /\ (result = "error" => failures > 0)
      /\ (result # "error" => failures = run.failures) /\ (run.failures > 0 => failures > 0)
  BY <1>3 DEF Runs
<1> HIDE DEF f, failures
<1>9. /\ run' \in Runs /\ run'.at = "repairs" /\ run'.cut = run.cut
      /\ run'.cancelled = run.cancelled /\ run'.checked = run.checked
      /\ run'.failed = run.failed /\ run'.fixing = {} /\ run'.failures = failures
  BY <1>3, <1>6, <1>8 DEF Runs, RunPlaces
<1>10. /\ DOMAIN list' = DOMAIN list /\ list' \in [DOMAIN list' -> H!Finding]
       /\ list'[p] = f /\ \A q \in DOMAIN list \ {p} : list'[q] = list[q]
  BY <1>3, <1>4, <1>5, <1>7
<1>11. machine' \subseteq machine /\ (p \in machine' => result = "error")
  BY <1>2 DEF H!RepairResults
<1>12. RunTypes'
  BY <1>1, <1>3, <1>9, <1>10, <1>11 DEF RunTypes
<1>13. Found'
  <2>1. ASSUME NEW q \in machine' \ archived
        PROVE  \/ q \in run.failed
               \/ q \in DOMAIN list' /\ list'[q].severity = profile[q].severity
                  /\ ~list'[q].is_fixed
    <3>1. \/ q \in run.failed
          \/ q \in DOMAIN list /\ list[q].severity = profile[q].severity /\ ~list[q].is_fixed
      BY <1>3, <1>11, <2>1 DEF Found
    <3>2. q = p => result = "error" /\ ~f.is_fixed
      BY <1>5, <1>11, <2>1
    <3> QED BY <1>5, <1>10, <3>1, <3>2
  <2> QED BY <1>1, <1>3, <1>9, <1>10, <2>1 DEF Found
<1>14. Marked'
  <2>1. failures > 0 => \E q \in DOMAIN list' : list'[q].fix_error
    <3>1. CASE result = "error"
      BY <1>4, <1>5, <1>10, <3>1
    <3>2. CASE result # "error"
      BY <1>3, <1>4, <1>8, <1>10, <3>2 DEF Marked
    <3> QED BY <3>1, <3>2
  <2>2. ASSUME NEW q \in DOMAIN list', list'[q].fix_error PROVE failures > 0
    <3>1. CASE q = p
      BY <1>5, <1>8, <1>10, <2>2, <3>1
    <3>2. CASE q # p
      BY <1>3, <1>8, <1>10, <2>2, <3>2 DEF Marked
    <3> QED BY <3>1, <3>2
  <2> QED BY <1>9, <2>1, <2>2 DEF Marked
<1>15. Touched'
  <2>1. ASSUME NEW q \in touched PROVE ~H!WillRepair(list'[q]) \/ list'[q].fix_error
    <3>1. q \in DOMAIN list
      BY <1>3 DEF Touched
    <3>2. CASE q = p
      BY <1>5, <1>10, <3>2
    <3>3. CASE q # p
      <4>1. list'[q] = list[q] /\ q \notin run.fixing
        BY <1>4, <1>10, <3>1, <3>3
      <4> QED BY <1>3, <4>1 DEF Touched
    <3> QED BY <3>2, <3>3
  <2>2. touched \subseteq DOMAIN list' /\ (args.mode # "fix" => touched = {})
    BY <1>3, <1>10 DEF Touched
  <2> QED BY <1>1, <2>1, <2>2 DEF Touched
<1>16. Fixing'
  BY <1>1, <1>3, <1>9 DEF Fixing
<1>17. Kept'
  <2>1. args.json /\ ~args.helper => printed = <<>>
    BY <1>1, Late
  <2> QED BY <1>1, <1>3, <1>9, <2>1 DEF Kept, H!DeferJson, H!RunsRepairs
<1> QED BY <1>9, <1>12, <1>13, <1>14, <1>15, <1>16, <1>17
           DEF RunInv, Repairing, Scanning, Tried, H!RunIsToldTruly

LEMMA MendedRun ==
  ASSUME RunInv, NEW p \in Problems, H!Mended(p) PROVE RunInv'
<1>1. /\ run.at = "fix" /\ machine' = machine \ {p}
      /\ UNCHANGED <<args, profile, archived, run, list, printed, lastScan, touched>>
  BY DEF H!Mended, H!input
<1>2. /\ RunTypes /\ run \in Runs /\ Found /\ Marked /\ Touched /\ Fixing /\ Kept
  BY <1>1, Late
<1>3. RunTypes'
  BY <1>1, <1>2 DEF RunTypes
<1>4. Found' /\ Marked' /\ Fixing'
  BY <1>1, <1>2 DEF Found, Marked, Fixing
<1>5. Touched' /\ Kept'
  BY <1>1, <1>2 DEF Touched, Kept, H!DeferJson, H!RunsRepairs
<1> QED BY <1>1, <1>3, <1>4, <1>5 DEF RunInv, Repairing, Scanning, Tried, H!RunIsToldTruly

LEMMA CancelledRun ==
  ASSUME RunInv, H!Cancelled PROVE RunInv'
<1>1. /\ run.at \in {"fix", "repairs"}
      /\ list' = WithErrors(list, run.fixing)
      /\ run' = [run EXCEPT !.at = "report", !.cancelled = TRUE]
      /\ UNCHANGED <<args, profile, archived, machine, printed, lastScan, touched>>
  BY Zenon DEF H!Cancelled, H!input, WithErrors
<1>2. /\ RunTypes /\ run \in Runs /\ Found /\ Marked /\ Touched /\ Fixing /\ Kept
      /\ list \in [DOMAIN list -> H!Finding]
      /\ ~run.cut /\ ~run.cancelled /\ args.mode # "scan"
      /\ args.json /\ ~args.helper => printed = <<>>
  BY <1>1, Late
<1>3. /\ DOMAIN list' = DOMAIN list /\ list' \in [DOMAIN list' -> H!Finding]
      /\ \A p \in DOMAIN list :
           /\ list'[p].severity = list[p].severity /\ list'[p].is_fixed = list[p].is_fixed
           /\ H!WillRepair(list'[p]) <=> H!WillRepair(list[p])
           /\ list'[p].fix_error <=> list[p].fix_error \/ p \in run.fixing
  BY <1>1, <1>2, MarksOnly
<1>4. /\ run' \in Runs /\ run'.at = "report" /\ run'.cut = run.cut
      /\ run'.cancelled /\ run'.checked = run.checked
      /\ run'.failed = run.failed /\ run'.fixing = run.fixing
      /\ run'.failures = run.failures
  BY <1>1, <1>2 DEF Runs, RunPlaces
<1>5. RunTypes'
  BY <1>1, <1>2, <1>3, <1>4 DEF RunTypes
<1>6. Found'
  BY <1>1, <1>2, <1>3, <1>4 DEF Found
<1>7. Marked' /\ Fixing'
  BY <1>2, <1>3, <1>4 DEF Marked, Fixing
<1>8. Touched'
  BY <1>1, <1>2, <1>3, <1>4 DEF Touched
<1>9. Kept'
  BY <1>1, <1>2, <1>4 DEF Kept, H!DeferJson, H!RunsRepairs
<1> QED BY <1>4, <1>5, <1>6, <1>7, <1>8, <1>9
           DEF RunInv, Repairing, Scanning, Tried, H!RunIsToldTruly

LEMMA RepairsEndRun ==
  ASSUME RunInv, H!RepairsEnd PROVE RunInv'
<1>1. /\ run.at = "repairs" /\ (H!Todo = {} \/ args.mode = "dry run")
      /\ run' = [run EXCEPT !.at = "report"]
      /\ UNCHANGED <<args, profile, archived, machine, list, printed, lastScan, touched>>
  BY DEF H!RepairsEnd, H!input
<1>2. /\ RunTypes /\ run \in Runs /\ Found /\ Marked /\ Touched /\ Fixing /\ Kept
      /\ ~run.cut /\ ~run.cancelled /\ args.mode # "scan"
  BY <1>1, Late
<1>3. /\ run' \in Runs /\ run'.at = "report" /\ run'.cut = run.cut
      /\ run'.cancelled = run.cancelled /\ run'.checked = run.checked
      /\ run'.failed = run.failed /\ run'.fixing = run.fixing
      /\ run'.failures = run.failures
  BY <1>1, <1>2 DEF Runs, RunPlaces
<1>4. RunTypes'
  BY <1>1, <1>2, <1>3 DEF RunTypes
<1>5. Found' /\ Marked' /\ Fixing'
  BY <1>1, <1>2, <1>3 DEF Found, Marked, Fixing
<1>6. Touched' /\ Kept'
  BY <1>1, <1>2, <1>3 DEF Touched, Kept, H!DeferJson, H!RunsRepairs
<1>7. Tried'
  <2>1. ASSUME args.mode = "fix", run.failures = 0, NEW p \in H!Waiting(list) PROVE FALSE
    <3>1. p \in DOMAIN list /\ H!WillRepair(list[p])
      BY <2>1 DEF H!Waiting
    <3>2. ~list[p].fix_error
      BY <1>2, <2>1, <3>1 DEF Marked
    <3>3. p \in touched
      BY <1>1, <2>1, <3>2 DEF H!Todo
    <3>4. run.fixing = {}
      BY <1>1, <1>2 DEF Fixing
    <3> QED BY <1>2, <3>1, <3>2, <3>3, <3>4 DEF Touched
  <2> QED BY <1>1, <1>3, <2>1 DEF Tried, H!Waiting
<1> QED BY <1>3, <1>4, <1>5, <1>6, <1>7 DEF RunInv, Repairing, Scanning, H!RunIsToldTruly

LEMMA ExitIs ==
  ASSUME NEW l, NEW a \in Nat, NEW b \in Nat
  PROVE  /\ H!ExitFromIssues(l, a, b) \in Int
         /\ H!ExitFromIssues(l, a, b) = 3 <=> a > 0
         /\ H!ExitFromIssues(l, a, b) # 6
         /\ H!ExitFromIssues(l, a, b) = 0 =>
              b = 0 /\ \A p \in DOMAIN l :
                         l[p].is_fixed \/ l[p].severity \notin {"critical", "warning"}
<1> DEFINE open(s) == \E p \in DOMAIN l : ~l[p].is_fixed /\ l[p].severity = s
           c == open("critical")
           w == open("warning")
<1>1. H!ExitFromIssues(l, a, b) =
        CASE a > 0 -> 3
          [] a <= 0 /\ c -> 2
          [] a <= 0 /\ ~c /\ b > 0 -> 7
          [] OTHER -> IF w THEN 1 ELSE 0
  BY Zenon DEF H!ExitFromIssues, H!ExitOk, H!ExitWarnings, H!ExitCritical, H!ExitFixFailed,
               H!ExitIncomplete
<1>2. ~c /\ ~w => \A p \in DOMAIN l :
                    l[p].is_fixed \/ l[p].severity \notin {"critical", "warning"}
  OBVIOUS
<1> HIDE DEF c, w
<1>3. CASE a > 0
  BY <1>1, <1>3
<1>4. CASE a = 0 /\ c
  BY <1>1, <1>4
<1>5. CASE a = 0 /\ ~c /\ b > 0
  BY <1>1, <1>5
<1>6. CASE a = 0 /\ ~c /\ b = 0
  <2>1. H!ExitFromIssues(l, a, b) = IF w THEN 1 ELSE 0
    BY <1>1, <1>6
  <2> QED BY <1>2, <1>6, <2>1
<1> QED BY <1>3, <1>4, <1>5, <1>6

LEMMA ReportRun ==
  ASSUME RunInv, H!Report PROVE RunInv'
<1> DEFINE x == H!ExitFromIssues(list, run.failures, Cardinality(run.failed))
           code == IF run.cut \/ run.cancelled THEN 6
                   ELSE IF args.helper /\ run.failures = 0 THEN 0 ELSE x
<1>1. /\ run.at = "report" /\ run' = [run EXCEPT !.at = "ended", !.code = code]
      /\ printed' = IF H!DeferJson(run.cut) THEN Append(printed, list) ELSE printed
      /\ UNCHANGED <<args, profile, archived, machine, list, lastScan, touched>>
  <2>1. run' = [run EXCEPT !.at = "ended", !.code = code]
    <3>1. H!Cardinality(run.failed) = Cardinality(run.failed)
      BY SameCardinality
    <3> QED BY <3>1 DEF H!Report, H!Ended, H!ExitCancelled, H!ExitOk
  <2> QED BY <2>1 DEF H!Report, H!input
<1>2. /\ RunTypes /\ run \in Runs /\ Found /\ Marked /\ Touched /\ Fixing /\ Kept
      /\ Tried
  BY <1>1, Late DEF RunInv
<1>3. /\ run.failures \in Nat /\ Cardinality(run.failed) \in Nat
      /\ Cardinality(run.failed) = 0 <=> run.failed = {}
  BY <1>2, WaitingCounted DEF Runs
<1>4. /\ x \in Int /\ (x = 3 <=> run.failures > 0) /\ x # 6
      /\ x = 0 => run.failed = {} /\ \A p \in DOMAIN list :
                    list[p].is_fixed \/ list[p].severity \notin {"critical", "warning"}
  BY <1>3, ExitIs
<1> HIDE DEF x
<1>5. /\ code \in Int
      /\ code = 0 => ~run.cut /\ ~run.cancelled /\ (args.helper \/ x = 0)
      /\ code = 1 => ~run.cut /\ ~run.cancelled
      /\ code = 3 => run.failures > 0
      /\ code \notin {3, 6} => ~run.cut /\ ~run.cancelled /\ run.failures = 0
      /\ run.failures > 0 \/ run.cancelled => code \in {3, 6}
  BY <1>3, <1>4
<1> HIDE DEF code
<1>6. /\ run' \in Runs /\ run'.at = "ended" /\ run'.cut = run.cut
      /\ run'.cancelled = run.cancelled /\ run'.checked = run.checked
      /\ run'.failed = run.failed /\ run'.fixing = run.fixing
      /\ run'.failures = run.failures /\ run'.code = code
  BY <1>1, <1>2, <1>5 DEF Runs, RunPlaces
<1>7. RunTypes'
  BY <1>1, <1>2, <1>6 DEF RunTypes
<1>8. ASSUME code = 0, ~args.helper, NEW p \in machine \ archived
      PROVE  profile[p].severity = "info"
  <2>1. /\ ~run.cut /\ run.failed = {}
        /\ \A q \in DOMAIN list :
             list[q].is_fixed \/ list[q].severity \notin {"critical", "warning"}
    BY <1>4, <1>5, <1>8
  <2>2. p \in DOMAIN list /\ list[p].severity = profile[p].severity /\ ~list[p].is_fixed
    BY <1>2, <1>8, <2>1 DEF Found
  <2>3. profile[p].severity \in {"critical", "warning", "info"}
    BY <1>2, <1>8, ProfilesAreFindings DEF RunTypes, H!Finding, H!Severities
  <2> QED BY <2>1, <2>2, <2>3
<1>9. /\ code = 3 => \E p \in DOMAIN list : list[p].fix_error
      /\ (\E p \in DOMAIN list : list[p].fix_error) => code \in {3, 6}
  BY <1>2, <1>5 DEF Marked
<1>10. args.mode = "fix" /\ code \notin {3, 6} => H!Waiting(list) = {}
  BY <1>1, <1>2, <1>5 DEF Tried
<1>11. args.json /\ ~args.helper => printed' = <<list>>
  <2>1. Append(<<>>, list) = <<list>>
    OBVIOUS
  <2> QED BY <1>1, <1>2, <2>1 DEF Kept
<1>12. /\ lastScan # <<>> => args.helper /\ run.checked = Problems
       /\ touched \cap archived = {} /\ (args.mode # "fix" => touched = {})
  BY <1>2 DEF Kept, Touched, Found
<1>13. H!Waiting(list') = H!Waiting(list)
  BY <1>1
<1>14. H!RunIsToldTruly'
  BY <1>1, <1>5, <1>6, <1>8, <1>9, <1>10, <1>11, <1>12, <1>13
     DEF H!RunIsToldTruly, H!ExitOk, H!ExitWarnings, H!ExitFixFailed, H!ExitCancelled
<1> QED BY <1>6, <1>7, <1>14 DEF RunInv, Repairing, Scanning, Tried

LEMMA RunStep == RunInv /\ [Next]_vars => RunInv'
<1> SUFFICES ASSUME RunInv, [Next]_vars PROVE RunInv'
  OBVIOUS
<1>1. CASE H!Next
  BY <1>1, StartRun, CtrlCRun, CheckRun, ScanEndsRun, RestorePointRun, StartRepairRun,
     FixEndsRun, MendedRun, CancelledRun, RepairsEndRun, ReportRun DEF H!Next
<1>2. CASE UNCHANGED headlessVars
  <2>1. UNCHANGED <<args, profile, machine, archived, run, list, printed, lastScan, touched>>
    BY <1>2 DEF headlessVars
  <2>2. RunTypes' /\ Scanning'
    BY <2>1 DEF RunInv, RunTypes, Scanning
  <2>3. Repairing'
    BY <2>1 DEF RunInv, Repairing, Found, Marked, Touched, Fixing, Kept, H!DeferJson,
                H!RunsRepairs
  <2>4. Tried' /\ H!RunIsToldTruly'
    BY <2>1 DEF RunInv, Tried, H!RunIsToldTruly, H!Waiting
  <2> QED BY <2>2, <2>3, <2>4 DEF RunInv
<1> QED BY <1>1, <1>2 DEF Next, vars

(* The exit code, the document and the saved scan of a run without a       *)
(* window tell what holds of the machine (main.rs, run_headless): for any  *)
(* set of problems, whichever checks and repairs fail, and whenever Ctrl+C *)
(* comes.                                                                  *)
THEOREM RunsAreToldTruly == Spec => []RunIsToldTruly
<1>1. RunInv => RunIsToldTruly
  BY DEF RunInv, RunIsToldTruly
<1> QED BY <1>1, RunInit, RunStep, PTL DEF Spec

---------------------------------------------------------------------------
(* SelfUpdate. Where the executable is while it is replaced; that what is  *)
(* about to be moved into its place has been verified; and who holds on to *)
(* the staging file.                                                       *)
Preparing == {"idle", "download", "checksum", "verify", "signature", "swap", "failed"}
Between == {"swap2", "undo"}

UpdateStarts ==
  [at : {"none", "sweep", "retry", "on"}, tries : Int, from : {"exe", "target", "retired"}]

UpdateTypes ==
  /\ disk \in [U!Paths -> U!Contents]
  /\ at \in [Windows -> U!Places]
  /\ image \in {"exe", "retired"}
  /\ goal \in [Windows -> {"exe", "target"}]
  /\ start \in UpdateStarts

NoUpdateYet ==
  \A w \in Windows : at[w] \in Preparing =>
    disk.exe = "old" /\ disk.target = "none" /\ image = "exe"

MovedAside ==
  \A w \in Windows : at[w] \in Between =>
    /\ disk.exe = "none" /\ disk.target = "none" /\ disk.retired = "old"
    /\ image = "retired"

Verified ==
  \A w \in Windows : at[w] \in {"signature", "swap"} \cup Between =>
    disk.staged \in {"none", "new"}

Held == holder # U!NoOne => holder \in Windows /\ at[holder] = "download"

Programs ==
  /\ \A p \in {"exe", "target"} : disk[p] \in {"none", "old", "new"}
  /\ (\A w \in Windows : at[w] \notin Between) => U!Program # {}

UpdateInv == UpdateTypes /\ NoUpdateYet /\ MovedAside /\ Verified /\ Held /\ Programs

(* What FailsCleanly says of a step.                                       *)
FailedCleanly ==
  \A w \in Windows : at[w] # "failed" /\ at'[w] = "failed" =>
    disk'.exe = "old" /\ disk'.staged = "none" /\ disk'.manifest = "none"

UpdateStep == UpdateInv' /\ FailedCleanly

LEMMA UpdateInit == Init => UpdateInv
<1> SUFFICES ASSUME Init PROVE UpdateInv
  OBVIOUS
<1>1. /\ disk = [p \in U!Paths |-> IF p = "exe" THEN "old" ELSE "none"]
      /\ at = [w \in Windows |-> "idle"] /\ image = "exe" /\ holder = U!NoOne
      /\ goal = [w \in Windows |-> "exe"] /\ start = U!NoStart
  BY DEF Init, U!Init
<1>2. /\ disk.exe = "old" /\ disk.target = "none"
      /\ disk \in [U!Paths -> U!Contents]
  BY <1>1 DEF U!Paths, U!Contents
<1>3. UpdateTypes
  BY <1>1, <1>2 DEF UpdateTypes, UpdateStarts, U!Places, U!NoStart
<1>4. NoUpdateYet /\ MovedAside /\ Verified /\ Held
  BY <1>1, <1>2 DEF NoUpdateYet, MovedAside, Verified, Held, Preparing, Between
<1>5. Programs
  BY <1>2 DEF Programs, U!Program
<1> QED BY <1>3, <1>4, <1>5 DEF UpdateInv

(* What the removal of files leaves.                                       *)
LEMMA RemovedIs ==
  ASSUME UpdateTypes, NEW d \in [U!Paths -> U!Contents],
         NEW ps \in SUBSET {"staged", "manifest", "retired"}
  PROVE  /\ U!Removed(d, ps) \in [U!Paths -> U!Contents]
         /\ \A p \in U!Paths : U!Removed(d, ps)[p] \in {"none", d[p]}
         /\ \A p \in U!Paths \ ps : U!Removed(d, ps)[p] = d[p]
         /\ U!Removed(d, ps).exe = d.exe /\ U!Removed(d, ps).target = d.target
         /\ holder = U!NoOne /\ "staged" \in ps => U!Removed(d, ps).staged = "none"
         /\ "manifest" \in ps => U!Removed(d, ps).manifest = "none"
         /\ image = "retired" /\ U!Running # {} => U!Removed(d, ps).retired = d.retired
<1>1. /\ holder = U!NoOne => ~U!InUse("staged")
      /\ ~U!InUse("manifest")
      /\ image = "retired" /\ U!Running # {} => U!InUse("retired")
  BY DEF UpdateTypes, UpdateStarts, U!InUse
<1> QED BY <1>1 DEF U!Removed, U!Paths, U!Contents

(* With one window, nobody else holds the staging file.                    *)
LEMMA NobodyElse ==
  ASSUME UpdateInv, \A v, w \in Windows : v = w, NEW w \in Windows, at[w] # "download"
  PROVE  holder = U!NoOne
BY DEF UpdateInv, Held

(* What a step of the only window makes of the invariant, from where the   *)
(* window is afterwards.                                                   *)
Fits(w) ==
  /\ at'[w] \in Preparing =>
       disk'.exe = "old" /\ disk'.target = "none" /\ image' = "exe"
  /\ at'[w] \in Between =>
       /\ disk'.exe = "none" /\ disk'.target = "none" /\ disk'.retired = "old"
       /\ image' = "retired"
  /\ at'[w] \in {"signature", "swap"} \cup Between => disk'.staged \in {"none", "new"}
  /\ holder' # U!NoOne => holder' \in Windows /\ at'[holder'] = "download"
  /\ \A p \in {"exe", "target"} : disk'[p] \in {"none", "old", "new"}
  /\ at'[w] \notin Between => \E p \in {"exe", "target"} : disk'[p] # "none"
  /\ at[w] # "failed" /\ at'[w] = "failed" =>
       disk'.exe = "old" /\ disk'.staged = "none" /\ disk'.manifest = "none"

LEMMA FitsAll ==
  ASSUME UpdateTypes', \A v, w \in Windows : v = w, NEW w \in Windows, Fits(w)
  PROVE  UpdateStep
<1>1. \A v \in Windows : v = w
  OBVIOUS
<1>2. NoUpdateYet' /\ MovedAside'
  BY <1>1 DEF Fits, NoUpdateYet, MovedAside
<1>3. Verified' /\ Held'
  BY <1>1 DEF Fits, Verified, Held
<1>4. Programs'
  <2>1. \A p \in {"exe", "target"} : disk'[p] # "none" => disk'[p] \in {"old", "new"}
    BY DEF Fits
  <2>2. (\A v \in Windows : at'[v] \notin Between) => \E p \in {"exe", "target"} : disk'[p] # "none"
    BY <1>1 DEF Fits
  <2> QED BY <2>1, <2>2 DEF Programs, U!Program, Fits
<1>5. FailedCleanly
  BY <1>1 DEF Fits, FailedCleanly
<1> QED BY <1>2, <1>3, <1>4, <1>5 DEF UpdateStep, UpdateInv

(* A window that goes on without a change to the disk, or fails.           *)
LEMMA FailsFits ==
  ASSUME UpdateInv, \A v, w \in Windows : v = w, NEW w \in Windows,
         at[w] \in Preparing \ {"download"}, U!Fails(w)
  PROVE  UpdateStep
<1>1. /\ at' = [at EXCEPT ![w] = "failed"]
      /\ disk' = U!Removed(disk, {"staged", "manifest"})
      /\ image' = image /\ holder' = holder /\ goal' = goal /\ start' = start
  BY DEF U!Fails, U!Goes
<1>2. holder = U!NoOne
  BY NobodyElse DEF Preparing
<1>3. UpdateTypes /\ disk.exe = "old" /\ disk.target = "none" /\ image = "exe"
  BY DEF UpdateInv, NoUpdateYet
<1>4. /\ disk' \in [U!Paths -> U!Contents] /\ disk'.exe = "old" /\ disk'.target = "none"
      /\ disk'.staged = "none" /\ disk'.manifest = "none"
  BY <1>1, <1>2, <1>3, RemovedIs DEF UpdateTypes
<1>5. at'[w] = "failed" /\ at' \in [Windows -> U!Places]
  BY <1>1, <1>3 DEF UpdateTypes, U!Places
<1>6. UpdateTypes'
  BY <1>1, <1>3, <1>4, <1>5 DEF UpdateTypes
<1>7. Fits(w)
  BY <1>1, <1>2, <1>3, <1>4, <1>5 DEF Fits, Preparing, Between
<1> QED BY <1>6, <1>7, FitsAll

(* A window goes on to another place, or leaves the disk as it is.         *)
LEMMA BeginStep ==
  ASSUME UpdateInv, \A v, w \in Windows : v = w, NEW w \in Windows, U!Begin(w)
  PROVE  UpdateStep
<1>1. /\ at[w] \in {"idle", "failed"} /\ at' = [at EXCEPT ![w] = "download"]
      /\ UNCHANGED <<disk, image, holder, goal, start>>
  BY DEF U!Begin, U!Goes
<1>2. UpdateTypes /\ holder = U!NoOne /\ Programs
  BY <1>1, NobodyElse DEF UpdateInv
<1>3. at'[w] = "download" /\ at' \in [Windows -> U!Places]
  BY <1>1, <1>2 DEF UpdateTypes, U!Places
<1>4. UpdateTypes'
  BY <1>1, <1>2, <1>3 DEF UpdateTypes
<1>5. disk.exe = "old" /\ disk.target = "none" /\ image = "exe"
  BY <1>1 DEF UpdateInv, NoUpdateYet, Preparing
<1>6. Fits(w)
  BY <1>1, <1>2, <1>3, <1>5 DEF Fits, Preparing, Between, Programs
<1> QED BY <1>4, <1>6, FitsAll

LEMMA DownloadStep ==
  ASSUME UpdateInv, \A v, w \in Windows : v = w, NEW w \in Windows, U!Download(w)
  PROVE  UpdateStep
<1>1. /\ at[w] = "download" /\ disk' = [disk EXCEPT !["staged"] = "part"] /\ holder' = w
      /\ UNCHANGED <<at, image, goal, start>>
  BY DEF U!Download, U!Write
<1>2. UpdateTypes /\ disk.exe = "old" /\ disk.target = "none" /\ image = "exe"
  BY <1>1 DEF UpdateInv, NoUpdateYet, Preparing
<1>3. /\ disk' \in [U!Paths -> U!Contents] /\ disk'.exe = "old" /\ disk'.target = "none"
  BY <1>1, <1>2 DEF UpdateTypes, U!Paths, U!Contents
<1>4. UpdateTypes'
  BY <1>1, <1>2, <1>3 DEF UpdateTypes
<1>5. Fits(w)
  BY <1>1, <1>2, <1>3 DEF Fits, Between
<1> QED BY <1>4, <1>5, FitsAll

LEMMA DownloadedStep ==
  ASSUME UpdateInv, \A v, w \in Windows : v = w, NEW w \in Windows, U!Downloaded(w)
  PROVE  UpdateStep
<1>1. /\ at[w] = "download" /\ holder' = U!NoOne /\ UNCHANGED <<image, goal, start>>
  BY DEF U!Downloaded
<1>2. UpdateTypes /\ disk.exe = "old" /\ disk.target = "none" /\ image = "exe"
  BY <1>1 DEF UpdateInv, NoUpdateYet, Preparing
<1>3. CASE \E bytes \in {"new", "bad"} :
             disk' = [disk EXCEPT !["staged"] = bytes] /\ at' = [at EXCEPT ![w] = "checksum"]
  <2>1. /\ disk' \in [U!Paths -> U!Contents] /\ disk'.exe = "old" /\ disk'.target = "none"
        /\ at' \in [Windows -> U!Places] /\ at'[w] = "checksum"
    BY <1>2, <1>3 DEF UpdateTypes, U!Paths, U!Contents, U!Places
  <2>2. UpdateTypes'
    BY <1>1, <1>2, <2>1 DEF UpdateTypes
  <2>3. Fits(w)
    BY <1>1, <1>2, <2>1 DEF Fits, Between
  <2> QED BY <2>2, <2>3, FitsAll
<1>4. CASE /\ at' = [at EXCEPT ![w] = "failed"]
           /\ disk' = [disk EXCEPT !.staged = "none", !.manifest = "none"]
  <2>1. /\ disk' \in [U!Paths -> U!Contents] /\ disk'.exe = "old" /\ disk'.target = "none"
        /\ disk'.staged = "none" /\ disk'.manifest = "none"
        /\ at' \in [Windows -> U!Places] /\ at'[w] = "failed"
    BY <1>2, <1>4 DEF UpdateTypes, U!Paths, U!Contents, U!Places
  <2>2. UpdateTypes'
    BY <1>1, <1>2, <2>1 DEF UpdateTypes
  <2>3. Fits(w)
    BY <1>1, <1>2, <2>1 DEF Fits, Between
  <2> QED BY <2>2, <2>3, FitsAll
<1> QED BY <1>3, <1>4 DEF U!Downloaded, U!Write, U!Goes

LEMMA FetchChecksumStep ==
  ASSUME UpdateInv, \A v, w \in Windows : v = w, NEW w \in Windows, U!FetchChecksum(w)
  PROVE  UpdateStep
<1>1. at[w] = "checksum"
  BY DEF U!FetchChecksum
<1>2. CASE U!Fails(w)
  BY <1>1, <1>2, FailsFits DEF Preparing
<1>3. CASE /\ disk' = [disk EXCEPT !["manifest"] = "sums"] /\ at' = [at EXCEPT ![w] = "verify"]
           /\ UNCHANGED <<image, holder, goal, start>>
  <2>1. UpdateTypes /\ disk.exe = "old" /\ disk.target = "none" /\ image = "exe"
        /\ holder = U!NoOne
    BY <1>1, NobodyElse DEF UpdateInv, NoUpdateYet, Preparing
  <2>2. /\ disk' \in [U!Paths -> U!Contents] /\ disk'.exe = "old" /\ disk'.target = "none"
        /\ at' \in [Windows -> U!Places] /\ at'[w] = "verify"
    BY <1>3, <2>1 DEF UpdateTypes, U!Paths, U!Contents, U!Places
  <2>3. UpdateTypes'
    BY <1>3, <2>1, <2>2 DEF UpdateTypes
  <2>4. Fits(w)
    BY <1>3, <2>1, <2>2 DEF Fits, Between
  <2> QED BY <2>3, <2>4, FitsAll
<1> QED BY <1>2, <1>3 DEF U!FetchChecksum, U!Write, U!Goes

(* Only what matches its checksum goes on to be moved into place.          *)
LEMMA VerifyStep ==
  ASSUME UpdateInv, \A v, w \in Windows : v = w, NEW w \in Windows, U!Verify(w)
  PROVE  UpdateStep
<1>1. at[w] = "verify"
  BY DEF U!Verify
<1>2. CASE U!Fails(w)
  BY <1>1, <1>2, FailsFits DEF Preparing
<1>3. CASE /\ disk.staged = "new" /\ at' = [at EXCEPT ![w] = "signature"]
           /\ UNCHANGED <<disk, image, holder, goal, start>>
  <2>1. UpdateTypes /\ disk.exe = "old" /\ disk.target = "none" /\ image = "exe"
        /\ holder = U!NoOne
    BY <1>1, NobodyElse DEF UpdateInv, NoUpdateYet, Preparing
  <2>2. at' \in [Windows -> U!Places] /\ at'[w] = "signature"
    BY <1>3, <2>1 DEF UpdateTypes, U!Places
  <2>3. UpdateTypes'
    BY <1>3, <2>1, <2>2 DEF UpdateTypes
  <2>4. Fits(w)
    BY <1>3, <2>1, <2>2 DEF Fits, Between
  <2> QED BY <2>3, <2>4, FitsAll
<1> QED BY <1>2, <1>3 DEF U!Verify, U!Goes

LEMMA CheckSignatureStep ==
  ASSUME UpdateInv, \A v, w \in Windows : v = w, NEW w \in Windows, U!CheckSignature(w)
  PROVE  UpdateStep
<1>1. at[w] = "signature"
  BY DEF U!CheckSignature
<1>2. CASE U!Fails(w)
  BY <1>1, <1>2, FailsFits DEF Preparing
<1>3. CASE /\ goal' = [goal EXCEPT ![w] = U!InstallTarget] /\ at' = [at EXCEPT ![w] = "swap"]
           /\ UNCHANGED <<disk, image, holder, start>>
  <2>1. UpdateTypes /\ disk.exe = "old" /\ disk.target = "none" /\ image = "exe"
        /\ holder = U!NoOne /\ disk.staged \in {"none", "new"}
    BY <1>1, NobodyElse DEF UpdateInv, NoUpdateYet, Preparing, Verified
  <2>2. at' \in [Windows -> U!Places] /\ at'[w] = "swap"
    BY <1>3, <2>1 DEF UpdateTypes, U!Places
  <2>3. goal' \in [Windows -> {"exe", "target"}]
    BY <1>3, <2>1 DEF UpdateTypes, U!InstallTarget
  <2>4. UpdateTypes'
    BY <1>3, <2>1, <2>2, <2>3 DEF UpdateTypes
  <2>5. Fits(w)
    BY <1>3, <2>1, <2>2 DEF Fits, Between
  <2> QED BY <2>4, <2>5, FitsAll
<1> QED BY <1>2, <1>3 DEF U!CheckSignature, U!Goes

(* The programs that run from a file move with it.                         *)
LEMMA MovesTo ==
  ASSUME UpdateTypes, NEW from, NEW to \in {"exe", "retired"}, U!Moves(from, to)
  PROVE  /\ image' \in {"exe", "retired"} /\ (image = from => image' = to)
         /\ start' \in UpdateStarts
<1>1. image' = IF image = from THEN to ELSE image
  BY DEF U!Moves
<1>2. start' = [start EXCEPT !.from = to] \/ start' = start
  BY DEF U!Moves
<1> QED BY <1>1, <1>2 DEF UpdateTypes, UpdateStarts

(* The executable is moved aside while nothing else has that name.         *)
LEMMA MoveAsideStep ==
  ASSUME UpdateInv, \A v, w \in Windows : v = w, NEW w \in Windows, U!MoveAside(w)
  PROVE  UpdateStep
<1> DEFINE d == U!Removed(disk, {"retired"})
<1>1. /\ at[w] = "swap" /\ UpdateTypes /\ holder = U!NoOne /\ disk.staged \in {"none", "new"}
      /\ disk.exe = "old" /\ disk.target = "none" /\ image = "exe"
  BY NobodyElse DEF UpdateInv, NoUpdateYet, Preparing, Verified, U!MoveAside
<1>2. /\ d \in [U!Paths -> U!Contents] /\ d.exe = "old" /\ d.target = "none"
      /\ d.staged = disk.staged
  BY <1>1, RemovedIs DEF UpdateTypes, U!Paths
<1> HIDE DEF d
<1>3. CASE /\ disk' = [d EXCEPT !.retired = d.exe, !.exe = "none"]
           /\ U!Moves("exe", "retired") /\ at' = [at EXCEPT ![w] = "swap2"]
           /\ UNCHANGED <<holder, goal>>
  <2>1. /\ disk' \in [U!Paths -> U!Contents] /\ disk'.exe = "none" /\ disk'.target = "none"
        /\ disk'.retired = "old" /\ disk'.staged \in {"none", "new"}
    BY <1>1, <1>2, <1>3 DEF U!Paths, U!Contents
  <2>2. image' = "retired" /\ start' \in UpdateStarts
    BY <1>1, <1>3, MovesTo
  <2>3. at' \in [Windows -> U!Places] /\ at'[w] = "swap2"
    BY <1>1, <1>3 DEF UpdateTypes, U!Places
  <2>4. UpdateTypes'
    BY <1>1, <1>3, <2>1, <2>2, <2>3 DEF UpdateTypes
  <2>5. Fits(w)
    BY <1>1, <1>3, <2>1, <2>2, <2>3 DEF Fits, Between, Preparing
  <2> QED BY <2>4, <2>5, FitsAll
<1>4. CASE /\ disk' = [p \in U!Paths |-> IF p \in {"staged", "manifest"} /\ ~U!InUse(p)
                                          THEN "none" ELSE d[p]]
           /\ at' = [at EXCEPT ![w] = "failed"]
           /\ UNCHANGED <<image, holder, goal, start>>
  <2>1. ~U!InUse("staged") /\ ~U!InUse("manifest")
    BY <1>1 DEF UpdateTypes, UpdateStarts, U!InUse
  <2>2. /\ disk' \in [U!Paths -> U!Contents] /\ disk'.exe = "old" /\ disk'.target = "none"
        /\ disk'.staged = "none" /\ disk'.manifest = "none"
    BY <1>2, <1>4, <2>1 DEF U!Paths, U!Contents
  <2>3. at' \in [Windows -> U!Places] /\ at'[w] = "failed"
    BY <1>1, <1>4 DEF UpdateTypes, U!Places
  <2>4. UpdateTypes'
    BY <1>1, <1>4, <2>2, <2>3 DEF UpdateTypes
  <2>5. Fits(w)
    BY <1>1, <1>4, <2>2, <2>3 DEF Fits, Between, Preparing
  <2> QED BY <2>4, <2>5, FitsAll
<1> QED BY <1>3, <1>4 DEF U!MoveAside, U!Goes, d

LEMMA MoveIntoPlaceStep ==
  ASSUME UpdateInv, \A v, w \in Windows : v = w, NEW w \in Windows, U!MoveIntoPlace(w)
  PROVE  UpdateStep
<1>1. /\ at[w] = "swap2" /\ UpdateTypes /\ holder = U!NoOne /\ disk.staged \in {"none", "new"}
      /\ disk.exe = "none" /\ disk.target = "none" /\ disk.retired = "old" /\ image = "retired"
      /\ UNCHANGED <<image, holder, goal, start>>
  BY NobodyElse DEF UpdateInv, MovedAside, Between, Verified, U!MoveIntoPlace
<1>2. CASE /\ disk.staged # "none"
           /\ disk' = [disk EXCEPT ![goal[w]] = disk.staged, !.staged = "none",
                                   !.manifest = "none"]
           /\ at' = [at EXCEPT ![w] = "installed"]
  <2>1. goal[w] \in {"exe", "target"} /\ disk.staged = "new"
    BY <1>1, <1>2 DEF UpdateTypes
  <2>2. /\ disk' \in [U!Paths -> U!Contents]
        /\ \A p \in {"exe", "target"} : disk'[p] = IF p = goal[w] THEN "new" ELSE "none"
    BY <1>1, <1>2, <2>1 DEF UpdateTypes, U!Paths, U!Contents
  <2>3. at' \in [Windows -> U!Places] /\ at'[w] = "installed"
    BY <1>1, <1>2 DEF UpdateTypes, U!Places
  <2>4. UpdateTypes'
    BY <1>1, <2>2, <2>3 DEF UpdateTypes
  <2>5. Fits(w)
    BY <1>1, <2>1, <2>2, <2>3 DEF Fits, Between, Preparing
  <2> QED BY <2>4, <2>5, FitsAll
<1>3. CASE at' = [at EXCEPT ![w] = "undo"] /\ UNCHANGED disk
  <2>1. at' \in [Windows -> U!Places] /\ at'[w] = "undo"
    BY <1>1, <1>3 DEF UpdateTypes, U!Places
  <2>2. UpdateTypes'
    BY <1>1, <1>3, <2>1 DEF UpdateTypes
  <2>3. Fits(w)
    BY <1>1, <1>3, <2>1 DEF Fits, Between, Preparing
  <2> QED BY <2>2, <2>3, FitsAll
<1> QED BY <1>2, <1>3 DEF U!MoveIntoPlace, U!Goes

(* What was moved aside comes back, if it can be put back.                 *)
LEMMA PutBackStepOfUpdate ==
  ASSUME UpdateInv, \A v, w \in Windows : v = w, "stuck" \notin Lapses,
         NEW w \in Windows, U!PutBack(w)
  PROVE  UpdateStep
<1>1. /\ at[w] = "undo" /\ UpdateTypes /\ holder = U!NoOne
      /\ disk.target = "none" /\ disk.retired = "old" /\ image = "retired"
  BY NobodyElse DEF UpdateInv, MovedAside, Between, U!PutBack
<1> DEFINE d == [disk EXCEPT !.exe = disk.retired, !.retired = "none"]
<1>2. /\ disk' = U!Removed(d, {"staged", "manifest"}) /\ U!Moves("retired", "exe")
      /\ at' = [at EXCEPT ![w] = "failed"] /\ UNCHANGED <<holder, goal>>
  BY DEF U!PutBack, U!Goes
<1>3. d \in [U!Paths -> U!Contents] /\ d.exe = "old" /\ d.target = "none"
  BY <1>1 DEF UpdateTypes, U!Paths, U!Contents
<1> HIDE DEF d
<1>4. /\ disk' \in [U!Paths -> U!Contents] /\ disk'.exe = "old" /\ disk'.target = "none"
      /\ disk'.staged = "none" /\ disk'.manifest = "none"
  BY <1>1, <1>2, <1>3, RemovedIs
<1>5. image' = "exe" /\ start' \in UpdateStarts
  BY <1>1, <1>2, MovesTo
<1>6. at' \in [Windows -> U!Places] /\ at'[w] = "failed"
  BY <1>1, <1>2 DEF UpdateTypes, U!Places
<1>7. UpdateTypes'
  BY <1>1, <1>2, <1>4, <1>5, <1>6 DEF UpdateTypes
<1>8. Fits(w)
  BY <1>1, <1>2, <1>4, <1>5, <1>6 DEF Fits, Between, Preparing
<1> QED BY <1>7, <1>8, FitsAll

LEMMA CloseStep ==
  ASSUME UpdateInv, \A v, w \in Windows : v = w, "cut" \notin Lapses,
         NEW w \in Windows, U!Close(w)
  PROVE  UpdateStep
<1>1. /\ at[w] \notin Between /\ at' = [at EXCEPT ![w] = "closed"]
      /\ holder' = IF holder = w THEN U!NoOne ELSE holder
      /\ UNCHANGED <<disk, image, goal, start>>
  BY DEF U!Close, U!Goes, Between
<1>2. UpdateTypes /\ Held /\ Programs
  BY DEF UpdateInv
<1>3. at' \in [Windows -> U!Places] /\ at'[w] = "closed"
  BY <1>1, <1>2 DEF UpdateTypes, U!Places
<1>4. holder' = U!NoOne
  BY <1>1, <1>2 DEF Held
<1>5. \E p \in {"exe", "target"} : disk[p] # "none"
  BY <1>1, <1>2 DEF Programs, U!Program
<1>6. UpdateTypes'
  BY <1>1, <1>2, <1>3 DEF UpdateTypes
<1>7. Fits(w)
  BY <1>1, <1>2, <1>3, <1>4, <1>5 DEF Fits, Between, Preparing, Programs
<1> QED BY <1>6, <1>7, FitsAll

(* Another start of WinMedic sweeps neither a program nor what an update   *)
(* moved aside while the program it came from runs.                        *)
LEMMA SweptStep ==
  ASSUME UpdateInv, NEW ps \in SUBSET {"staged", "manifest", "retired"},
         disk' = U!Removed(disk, ps), start' \in UpdateStarts,
         UNCHANGED <<at, image, holder, goal>>
  PROVE  UpdateStep
<1>1. UpdateTypes /\ NoUpdateYet /\ MovedAside /\ Verified /\ Held /\ Programs
  BY DEF UpdateInv
<1>2. /\ disk' \in [U!Paths -> U!Contents] /\ \A p \in U!Paths : disk'[p] \in {"none", disk[p]}
      /\ disk'.exe = disk.exe /\ disk'.target = disk.target
      /\ image = "retired" /\ U!Running # {} => disk'.retired = disk.retired
  BY <1>1, RemovedIs DEF UpdateTypes
<1>3. UpdateTypes' /\ NoUpdateYet' /\ Held'
  BY <1>1, <1>2 DEF UpdateTypes, NoUpdateYet, Held
<1>4. \A w \in Windows : at[w] \in Between => w \in U!Running
  BY DEF Between, U!Running
<1>5. MovedAside'
  BY <1>1, <1>2, <1>4 DEF MovedAside
<1>6. Verified'
  BY <1>1, <1>2 DEF Verified, U!Paths
<1>7. Programs'
  BY <1>1, <1>2 DEF Programs, U!Program
<1>8. FailedCleanly
  BY DEF FailedCleanly
<1> QED BY <1>3, <1>5, <1>6, <1>7, <1>8 DEF UpdateStep, UpdateInv

LEMMA OtherStartStep ==
  ASSUME UpdateInv, U!StartAnother \/ U!EndOther
  PROVE  UpdateStep
<1>1. UNCHANGED <<disk, at, image, holder, goal>> /\ UpdateTypes
  BY DEF U!StartAnother, U!EndOther, UpdateInv
<1>2. start' \in UpdateStarts
  BY OperationsAssumption
     DEF U!StartAnother, U!EndOther, UpdateStarts, U!NoStart, U!Program, U!SelfUpdateAssumption
<1>3. UpdateTypes'
  BY <1>1, <1>2 DEF UpdateTypes
<1>4. (NoUpdateYet /\ MovedAside /\ Verified /\ Held /\ Programs)'
  BY <1>1 DEF UpdateInv, NoUpdateYet, MovedAside, Verified, Held, Programs, U!Program
<1>5. FailedCleanly
  BY <1>1 DEF FailedCleanly
<1> QED BY <1>3, <1>4, <1>5 DEF UpdateStep, UpdateInv

LEMMA SweepStep ==
  ASSUME UpdateInv, U!Sweep \/ U!DeleteRetired
  PROVE  UpdateStep
<1>1. /\ UNCHANGED <<at, image, holder, goal>> /\ start \in UpdateStarts
  BY DEF UpdateInv, UpdateTypes, U!Sweep, U!DeleteRetired
<1>2. CASE U!Sweep
  <2>1. /\ disk' = U!Removed(disk, {"staged", "manifest", "retired"})
        /\ start' = [start EXCEPT !.at = IF disk'.retired = "none" THEN "on" ELSE "retry"]
    BY <1>2 DEF U!Sweep
  <2>2. start' \in UpdateStarts
    BY <1>1, <2>1 DEF UpdateStarts
  <2> QED BY <1>1, <2>1, <2>2, SweptStep
<1>3. CASE U!DeleteRetired
  <2>1. /\ disk' = U!Removed(disk, {"retired"})
        /\ start' = [start EXCEPT !.at = "on"] \/ start' = [start EXCEPT !.tries = @ - 1]
    BY <1>3 DEF U!DeleteRetired
  <2>2. start' \in UpdateStarts
    BY <1>1, <2>1 DEF UpdateStarts
  <2> QED BY <1>1, <2>1, <2>2, SweptStep
<1> QED BY <1>2, <1>3

LEMMA UpdateSteps ==
  ASSUME UpdateInv, \A v, w \in Windows : v = w, {"cut", "stuck"} \cap Lapses = {}, [Next]_vars
  PROVE  UpdateStep
<1>1. CASE U!Next
  <2>1. ASSUME NEW w \in Windows, U!WindowNext(w) PROVE UpdateStep
    BY <2>1, BeginStep, DownloadStep, DownloadedStep, FetchChecksumStep, VerifyStep,
       CheckSignatureStep, MoveAsideStep, MoveIntoPlaceStep, PutBackStepOfUpdate, CloseStep
       DEF U!WindowNext
  <2> QED BY <1>1, <2>1, OtherStartStep, SweepStep DEF U!Next
<1>2. CASE UNCHANGED updateVars
  BY <1>2 DEF updateVars, UpdateInv, UpdateStep, UpdateTypes, NoUpdateYet, MovedAside, Verified,
              Held, Programs, U!Program, FailedCleanly
<1> QED BY <1>1, <1>2 DEF Next, vars

(* A window that updates WinMedic never leaves the machine without one:    *)
(* but for the moment between its two renames there is a program, and it   *)
(* is the one that was there or has been verified; and an installation     *)
(* that fails leaves the installed program and nothing of its own. Of one  *)
(* window that is not killed between the renames and can put back what it  *)
(* moved, whatever other starts of WinMedic sweep meanwhile.               *)
THEOREM UpdatesAreSafe ==
  ASSUME \A v, w \in Windows : v = w, {"cut", "stuck"} \cap Lapses = {}
  PROVE  Spec => UpdateIsSafe
<1>1. UpdateInv => U!NeverWithoutWinMedic
  BY DEF UpdateInv, Programs, Between, U!NeverWithoutWinMedic
<1>2. UpdateInv /\ [Next]_vars => UpdateInv' /\ FailedCleanly
  BY UpdateSteps DEF UpdateStep
<1>3. UpdateInv' => U!NeverWithoutWinMedic'
  BY <1>1, PTL
<1> QED BY <1>1, <1>2, UpdateInit, PTL DEF Spec, UpdateIsSafe, U!FailsCleanly, FailedCleanly

---------------------------------------------------------------------------
(* HelperTask. What the window shows is what the file says and what the    *)
(* task does, unless the user was told otherwise; the file alone must say  *)
(* enough for the next window; and what was turned off is off in both.     *)
Choices == [on : BOOLEAN, frequency : Frequencies \cup {T!Defaults.frequency}]

TaskTypes ==
  /\ task \in [exe : Exes \cup {"nowhere"}, highest : BOOLEAN,
               frequency : Frequencies \cup {0, T!Defaults.frequency}]
  /\ config \in [settings : Choices, readable : BOOLEAN]
  /\ pane \in [open : BOOLEAN, settings : Choices, exe : Exes]
  /\ exe \in Exes /\ warned \in BOOLEAN /\ off \in BOOLEAN
  /\ tally \in [scans : Nat, changes : Nat]

Shown ==
  pane.open /\ pane.settings.on /\ pane.exe = exe /\ ~warned =>
    task = T!Task(exe, pane.settings.frequency) /\ exe \in adminOnly

SavedAsShown ==
  pane.open /\ pane.settings.on /\ ~warned => config = T!File(pane.settings)

Filed ==
  config.readable /\ config.settings.on /\ task.highest /\ ~warned =>
    task.frequency = config.settings.frequency

TurnedOff ==
  off => /\ config.readable => ~config.settings.on
         /\ pane.open => ~pane.settings.on

TaskInv == TaskTypes /\ Shown /\ SavedAsShown /\ Filed /\ TurnedOff

ScansAsAsked == tally'.scans # tally.scans => ~off /\ exe \in adminOnly

TaskStep == TaskInv' /\ ScansAsAsked

LEMMA SettingsAre ==
  ASSUME TaskTypes
  PROVE  /\ T!Defaults \in Choices /\ ~T!Defaults.on
         /\ T!Loaded \in Choices
         /\ config.readable => T!Loaded = config.settings
         /\ ~config.readable => ~T!Loaded.on
         /\ T!Closed \in [open : BOOLEAN, settings : Choices, exe : Exes] /\ ~T!Closed.open
         /\ T!NoTask \in [exe : Exes \cup {"nowhere"}, highest : BOOLEAN,
                          frequency : Frequencies \cup {0, T!Defaults.frequency}]
         /\ ~T!NoTask.highest
<1>1. T!Defaults \in Choices /\ ~T!Defaults.on
  BY DEF T!Defaults, Choices
<1>2. (CHOOSE e \in Exes : TRUE) \in Exes
  BY DEF TaskTypes
<1>3. T!Closed \in [open : BOOLEAN, settings : Choices, exe : Exes] /\ ~T!Closed.open
  BY <1>1, <1>2 DEF T!Closed
<1>4. /\ T!NoTask \in [exe : Exes \cup {"nowhere"}, highest : BOOLEAN,
                       frequency : Frequencies \cup {0, T!Defaults.frequency}]
      /\ ~T!NoTask.highest
  BY DEF T!NoTask
<1>5. /\ T!Loaded \in Choices
      /\ config.readable => T!Loaded = config.settings
      /\ ~config.readable => ~T!Loaded.on
  BY <1>1 DEF T!Loaded, TaskTypes
<1> QED BY <1>1, <1>3, <1>4, <1>5

LEMMA FileIs ==
  ASSUME NEW s \in Choices
  PROVE  /\ T!File(s) \in [settings : Choices, readable : BOOLEAN]
         /\ T!File(s).settings = s /\ T!File(s).readable
BY DEF T!File

LEMMA TaskIs ==
  ASSUME NEW e \in Exes, NEW f \in Frequencies \cup {T!Defaults.frequency}
  PROVE  /\ T!Task(e, f) \in [exe : Exes \cup {"nowhere"}, highest : BOOLEAN,
                              frequency : Frequencies \cup {0, T!Defaults.frequency}]
         /\ T!Task(e, f).exe = e /\ T!Task(e, f).frequency = f /\ T!Task(e, f).highest
BY DEF T!Task

LEMMA TaskInit == Init => TaskInv
<1> SUFFICES ASSUME Init PROVE TaskInv
  OBVIOUS
<1>1. T!Init
  BY DEF Init
<1>2. PICK s \in T!Settings :
        /\ config = T!File(s)
        /\ task \in {T!NoTask, T!Task(exe, s.frequency),
                     [exe |-> exe, frequency |-> s.frequency, highest |-> FALSE]}
  BY <1>1 DEF T!Init
<1>3. /\ exe \in Exes /\ pane = T!Closed /\ warned = FALSE /\ off = FALSE
      /\ tally = [scans |-> 0, changes |-> 0]
  BY <1>1 DEF T!Init
<1>4. s \in Choices
  BY DEF T!Settings, Choices
<1>5. /\ task \in [exe : Exes \cup {"nowhere"}, highest : BOOLEAN,
                   frequency : Frequencies \cup {0, T!Defaults.frequency}]
      /\ task.highest => task.frequency = s.frequency
  <2>1. s.frequency \in Frequencies
    BY DEF T!Settings
  <2>2. CASE task = T!NoTask
    BY <2>2 DEF T!NoTask
  <2>3. CASE task = T!Task(exe, s.frequency)
    BY <1>3, <2>1, <2>3, TaskIs
  <2>4. CASE task = [exe |-> exe, frequency |-> s.frequency, highest |-> FALSE]
    BY <1>3, <2>1, <2>4
  <2> QED BY <1>2, <2>2, <2>3, <2>4
<1>6. /\ pane \in [open : BOOLEAN, settings : Choices, exe : Exes] /\ ~pane.open
  <2>1. (CHOOSE e \in Exes : TRUE) \in Exes
    BY <1>3
  <2>2. T!Defaults \in Choices
    BY DEF T!Defaults, Choices
  <2> QED BY <1>3, <2>1, <2>2 DEF T!Closed
<1>7. TaskTypes
  BY <1>2, <1>3, <1>4, <1>5, <1>6, FileIs DEF TaskTypes
<1>8. Shown /\ SavedAsShown /\ TurnedOff
  BY <1>3, <1>6 DEF Shown, SavedAsShown, TurnedOff
<1>9. Filed
  BY <1>2, <1>4, <1>5, FileIs DEF Filed
<1> QED BY <1>7, <1>8, <1>9 DEF TaskInv

(* What schtasks may leave.                                                *)
LEMMA Registered ==
  ASSUME TaskTypes, NEW e \in Exes, NEW f \in Frequencies \cup {T!Defaults.frequency},
         NEW r \in T!RegisterThere(e, f) \cup T!Register(e, f)
  PROVE  /\ r.task \in [exe : Exes \cup {"nowhere"}, highest : BOOLEAN,
                        frequency : Frequencies \cup {0, T!Defaults.frequency}]
         /\ r.error \in BOOLEAN
         /\ ~r.error => r.task = T!Task(e, f) /\ e \in adminOnly
<1>1. r \in {[task |-> task, error |-> TRUE]} \cup T!RegisterThere(e, f)
  BY DEF T!Register
<1>2. r = [task |-> task, error |-> TRUE]
        \/ (e \in adminOnly /\ r = [task |-> T!Task(e, f), error |-> FALSE])
  <2> DEFINE bad == [task |-> task, error |-> TRUE]
             good == [task |-> T!Task(e, f), error |-> FALSE]
  <2>1. T!RegisterThere(e, f) = {bad} \cup (IF e \in adminOnly THEN {good} ELSE {})
    BY DEF T!RegisterThere
  <2>2. r \in {bad} \/ r \in T!RegisterThere(e, f)
    BY <1>1
  <2> HIDE DEF bad, good
  <2>3. r = bad \/ (e \in adminOnly /\ r = good)
    BY <2>1, <2>2
  <2> QED BY <2>3 DEF bad, good
<1>3. CASE r = [task |-> task, error |-> TRUE]
  BY <1>3 DEF TaskTypes
<1>4. CASE e \in adminOnly /\ r = [task |-> T!Task(e, f), error |-> FALSE]
  BY <1>4, TaskIs
<1> QED BY <1>2, <1>3, <1>4

LEMMA DeletedTask ==
  ASSUME TaskTypes, NEW r \in T!Delete
  PROVE  /\ r.task \in [exe : Exes \cup {"nowhere"}, highest : BOOLEAN,
                        frequency : Frequencies \cup {0, T!Defaults.frequency}]
         /\ r.error \in BOOLEAN
         /\ r.task.highest => r.task = task
<1>1. r.task \in {task, T!NoTask} /\ r.error \in BOOLEAN
  <2>1. \/ r = [task |-> T!NoTask, error |-> FALSE]
        \/ r = [task |-> task, error |-> FALSE]
        \/ r = [task |-> task, error |-> TRUE]
    <3>1. CASE task = T!NoTask
      BY <3>1, Zenon DEF T!Delete
    <3>2. CASE task # T!NoTask
      BY <3>2, Zenon DEF T!Delete
    <3> QED BY <3>1, <3>2
  <2>2. CASE r = [task |-> T!NoTask, error |-> FALSE]
    BY <2>2
  <2>3. CASE r = [task |-> task, error |-> FALSE]
    BY <2>3
  <2>4. CASE r = [task |-> task, error |-> TRUE]
    BY <2>4
  <2> QED BY <2>1, <2>2, <2>3, <2>4
<1> QED BY <1>1, SettingsAre DEF TaskTypes

LEMMA ReconciledTask ==
  ASSUME TaskTypes, NEW s \in Choices, NEW e \in Exes, "name" \notin Slips, T!Reconciled(s, e)
  PROVE  /\ task' \in [exe : Exes \cup {"nowhere"}, highest : BOOLEAN,
                       frequency : Frequencies \cup {0, T!Defaults.frequency}]
         /\ warned' \in BOOLEAN
         /\ ~warned' =>
              \/ /\ task' = T!Task(e, s.frequency) /\ e \in adminOnly
                 /\ ~warned \/ config = T!File(s)
              \/ /\ ~warned /\ task' = task
                 /\ s.on => task.highest /\ task.exe = e /\ e \in adminOnly
<1>1. PICK r \in T!Reconcile(s, e) :
        /\ ~r.done => ~s.on \/ T!Current(e)
        /\ task' = r.task
        /\ warned' = (r.error \/ (warned /\ ~(r.done /\ config = T!File(s))))
  BY DEF T!Reconciled
<1>2. CASE ~s.on
  <2>1. r = [task |-> task, error |-> FALSE, done |-> FALSE]
    BY <1>2 DEF T!Reconcile
  <2> QED BY <1>1, <1>2, <2>1 DEF TaskTypes
<1>3. CASE s.on /\ e \notin adminOnly
  <2>1. PICK d \in T!Delete : r = [task |-> d.task, error |-> TRUE, done |-> TRUE]
    BY <1>3 DEF T!Reconcile
  <2> QED BY <1>1, <2>1, DeletedTask
<1>4. CASE s.on /\ e \in adminOnly
  <2>1. CASE r = [task |-> task, error |-> FALSE, done |-> FALSE]
    <3>1. task.highest /\ task.exe = e
      BY <1>1, <1>4, <2>1 DEF T!Current
    <3>2. task' = task /\ warned' = warned
      BY <1>1, <2>1 DEF TaskTypes
    <3> QED BY <1>4, <3>1, <3>2 DEF TaskTypes
  <2>2. ASSUME NEW q \in T!RegisterThere(e, s.frequency),
               r = [task |-> q.task, error |-> q.error, done |-> TRUE]
        PROVE  /\ task' \in [exe : Exes \cup {"nowhere"}, highest : BOOLEAN,
                             frequency : Frequencies \cup {0, T!Defaults.frequency}]
               /\ warned' \in BOOLEAN
               /\ ~warned' => /\ task' = T!Task(e, s.frequency) /\ e \in adminOnly
                              /\ ~warned \/ config = T!File(s)
    <3>1. s.frequency \in Frequencies \cup {T!Defaults.frequency}
      BY DEF Choices
    <3>2. /\ task' = q.task /\ q.error \in BOOLEAN
          /\ warned' = (q.error \/ (warned /\ ~(config = T!File(s))))
      BY <1>1, <2>2, <3>1, Registered
    <3>3. /\ q.task \in [exe : Exes \cup {"nowhere"}, highest : BOOLEAN,
                          frequency : Frequencies \cup {0, T!Defaults.frequency}]
          /\ ~q.error => q.task = T!Task(e, s.frequency) /\ e \in adminOnly
      BY <3>1, Registered
    <3>4. warned' \in BOOLEAN
      BY <3>2 DEF TaskTypes
    <3> QED BY <3>2, <3>3, <3>4
  <2>3. r = [task |-> task, error |-> FALSE, done |-> FALSE]
          \/ \E q \in T!RegisterThere(e, s.frequency) :
               r = [task |-> q.task, error |-> q.error, done |-> TRUE]
    BY <1>1, <1>4, Zenon DEF T!Reconcile
  <2>4. CASE \E q \in T!RegisterThere(e, s.frequency) :
               r = [task |-> q.task, error |-> q.error, done |-> TRUE]
    <3>1. PICK q \in T!RegisterThere(e, s.frequency) :
            r = [task |-> q.task, error |-> q.error, done |-> TRUE]
      BY <2>4
    <3> QED BY <3>1, <2>2
  <2> QED BY <2>1, <2>3, <2>4
<1> QED BY <1>2, <1>3, <1>4

LEMMA OpenWindowStep ==
  ASSUME TaskInv, "name" \notin Slips, T!OpenWindow
  PROVE  TaskStep
<1>1. TaskTypes /\ Filed /\ TurnedOff /\ ~pane.open
  BY DEF TaskInv, T!OpenWindow
<1> DEFINE s == T!Loaded
<1>2. /\ pane' = [open |-> TRUE, settings |-> s, exe |-> exe]
      /\ config' = IF config.readable THEN config ELSE T!File(T!Defaults)
      /\ T!Reconciled(s, exe) /\ UNCHANGED <<exe, adminOnly, off, tally>>
  BY DEF T!OpenWindow
<1>3. /\ s \in Choices /\ T!Defaults \in Choices /\ ~T!Defaults.on
      /\ config.readable => s = config.settings
      /\ ~config.readable => s = T!Defaults
  BY <1>1, SettingsAre DEF T!Loaded
<1> HIDE DEF s
<1>4. config' = T!File(s)
  <2>1. CASE config.readable
    BY <1>1, <1>2, <1>3, <2>1 DEF TaskTypes, T!File
  <2>2. CASE ~config.readable
    BY <1>2, <1>3, <2>2
  <2> QED BY <2>1, <2>2
<1>5. /\ task' \in [exe : Exes \cup {"nowhere"}, highest : BOOLEAN,
                    frequency : Frequencies \cup {0, T!Defaults.frequency}]
      /\ warned' \in BOOLEAN
      /\ ~warned' =>
           \/ /\ task' = T!Task(exe, s.frequency) /\ exe \in adminOnly
              /\ ~warned \/ config = T!File(s)
           \/ /\ ~warned /\ task' = task
              /\ s.on => task.highest /\ task.exe = exe /\ exe \in adminOnly
  BY <1>1, <1>2, <1>3, ReconciledTask DEF TaskTypes
<1>6. TaskTypes'
  BY <1>1, <1>2, <1>3, <1>4, <1>5, FileIs DEF TaskTypes
<1>7. T!File(s).settings = s /\ pane'.settings = s /\ s.frequency \in Frequencies \cup {T!Defaults.frequency}
  BY <1>2, <1>3, FileIs DEF Choices
<1>8. ~warned' /\ s.on => task' = T!Task(exe, s.frequency) /\ exe \in adminOnly
  <2>1. SUFFICES ASSUME ~warned /\ task' = task, s.on,
                        task.highest /\ task.exe = exe /\ exe \in adminOnly
                 PROVE  task' = T!Task(exe, s.frequency)
    BY <1>5
  <2>2. config.readable /\ s = config.settings
    BY <1>3, <2>1
  <2>3. task.frequency = s.frequency
    BY <1>1, <2>1, <2>2 DEF Filed
  <2>4. task = [exe |-> exe, frequency |-> s.frequency, highest |-> TRUE]
    BY <1>1, <2>1, <2>3 DEF TaskTypes
  <2> QED BY <2>1, <2>4 DEF T!Task
<1>9. Shown' /\ SavedAsShown'
  BY <1>2, <1>4, <1>7, <1>8 DEF Shown, SavedAsShown
<1>10. Filed'
  BY <1>1, <1>4, <1>7, <1>8, TaskIs DEF Filed, TaskTypes
<1>11. TurnedOff'
  BY <1>1, <1>2, <1>3, <1>4, <1>7 DEF TurnedOff
<1>12. ScansAsAsked
  BY <1>2 DEF ScansAsAsked
<1> QED BY <1>6, <1>9, <1>10, <1>11, <1>12 DEF TaskStep, TaskInv

(* A change the user makes: the tally of scans stays.                      *)
LEMMA ChangeIs ==
  ASSUME TaskTypes, T!Changes
  PROVE  tally' \in [scans : Nat, changes : Nat] /\ ScansAsAsked
BY DEF TaskTypes, T!Changes, ScansAsAsked

(* A window that was told, or that has the scan off.                       *)
LEMMA ToldOrOff ==
  ASSUME TaskTypes', warned' \/ (~pane'.settings.on /\ (config'.readable => ~config'.settings.on)),
         off' => /\ config'.readable => ~config'.settings.on
                 /\ pane'.open => ~pane'.settings.on
  PROVE  TaskInv'
BY DEF TaskInv, Shown, SavedAsShown, Filed, TurnedOff, TaskTypes

(* A window that shows what is saved and registered.                       *)
LEMMA AsShown ==
  ASSUME TaskTypes', NEW s \in Choices, pane'.settings = s, config' = T!File(s), s.on,
         pane'.exe \in Exes, task' = T!Task(pane'.exe, s.frequency), pane'.exe \in adminOnly',
         ~off'
  PROVE  TaskInv'
<1>1. T!File(s).settings = s /\ s.frequency \in Frequencies \cup {T!Defaults.frequency}
  BY FileIs DEF Choices
<1>2. task'.frequency = s.frequency
  BY <1>1, TaskIs
<1> QED BY <1>1, <1>2 DEF TaskInv, Shown, SavedAsShown, Filed, TurnedOff

LEMMA ToggleStep ==
  ASSUME TaskInv, T!Toggle
  PROVE  TaskStep
<1>1. TaskTypes /\ pane.open /\ T!Changes
  BY DEF TaskInv, T!Toggle
<1> DEFINE s == [pane.settings EXCEPT !.on = ~@]
<1>2. PICK saved \in BOOLEAN, r \in T!Sync(s.on, s.frequency, pane.exe) :
        /\ task' = r.task
        /\ IF s.on /\ r.error
           THEN /\ pane' = [pane EXCEPT !.settings.on = FALSE]
                /\ \E again \in BOOLEAN :
                     /\ config' = IF again THEN T!File(pane'.settings)
                                  ELSE IF saved THEN T!File(s) ELSE config
                     /\ off' = again
                /\ warned' = TRUE
           ELSE /\ pane' = [pane EXCEPT !.settings = s]
                /\ T!Save(s, saved)
                /\ off' = (~s.on /\ saved)
                /\ warned' = (r.error \/ ~saved)
  BY DEF T!Toggle
<1>3. UNCHANGED <<exe, adminOnly>>
  BY DEF T!Toggle
<1>4. s \in Choices /\ s.on = ~pane.settings.on /\ s.frequency \in Frequencies \cup {T!Defaults.frequency}
  BY <1>1 DEF TaskTypes, Choices
<1>5. pane.exe \in Exes
  BY <1>1 DEF TaskTypes
<1> HIDE DEF s
<1>6. /\ r.task \in [exe : Exes \cup {"nowhere"}, highest : BOOLEAN,
                     frequency : Frequencies \cup {0, T!Defaults.frequency}]
      /\ r.error \in BOOLEAN
      /\ s.on /\ ~r.error => r.task = T!Task(pane.exe, s.frequency) /\ pane.exe \in adminOnly
  <2>1. CASE s.on
    <3>1. r \in T!Register(pane.exe, s.frequency)
      BY <2>1 DEF T!Sync
    <3> QED BY <1>1, <1>4, <1>5, <3>1, Registered
  <2>2. CASE ~s.on
    <3>1. r \in T!Delete
      BY <2>2 DEF T!Sync
    <3> QED BY <1>1, <2>2, <3>1, DeletedTask
  <2> QED BY <2>1, <2>2
<1>7. tally' \in [scans : Nat, changes : Nat] /\ ScansAsAsked
  BY <1>1, ChangeIs
<1>8. CASE s.on /\ r.error
  <2>1. PICK again \in BOOLEAN :
          /\ config' = IF again THEN T!File(pane'.settings) ELSE IF saved THEN T!File(s) ELSE config
          /\ off' = again
    BY <1>2, <1>8
  <2>2. /\ pane' = [pane EXCEPT !.settings.on = FALSE] /\ warned' = TRUE
    BY <1>2, <1>8
  <2>3. /\ pane' \in [open : BOOLEAN, settings : Choices, exe : Exes]
        /\ pane'.settings \in Choices /\ ~pane'.settings.on
    BY <1>1, <2>2 DEF TaskTypes, Choices
  <2>4. config' \in [settings : Choices, readable : BOOLEAN]
    BY <1>1, <1>4, <2>1, <2>3, FileIs DEF TaskTypes
  <2>5. TaskTypes'
    BY <1>1, <1>2, <1>3, <1>6, <1>7, <2>1, <2>2, <2>3, <2>4 DEF TaskTypes
  <2>6. off' => (config'.readable => ~config'.settings.on)
    BY <2>1, <2>3, FileIs
  <2> QED BY <1>7, <2>2, <2>3, <2>5, <2>6, ToldOrOff DEF TaskStep
<1>9. CASE ~(s.on /\ r.error)
  <2>1. /\ pane' = [pane EXCEPT !.settings = s]
        /\ config' = IF saved THEN T!File(s) ELSE config
        /\ off' = (~s.on /\ saved)
        /\ warned' = (r.error \/ ~saved)
    BY <1>2, <1>9 DEF T!Save
  <2>2. /\ pane' \in [open : BOOLEAN, settings : Choices, exe : Exes]
        /\ pane'.settings = s /\ pane'.exe = pane.exe
    BY <1>1, <1>4, <2>1 DEF TaskTypes
  <2>3. config' \in [settings : Choices, readable : BOOLEAN] /\ T!File(s).settings = s
    BY <1>1, <1>4, <2>1, FileIs DEF TaskTypes
  <2>4. TaskTypes'
    BY <1>1, <1>2, <1>3, <1>4, <1>6, <1>7, <2>1, <2>2, <2>3 DEF TaskTypes
  <2>5. CASE s.on /\ saved
    BY <1>3, <1>4, <1>5, <1>2, <1>6, <1>7, <1>9, <2>1, <2>2, <2>4, <2>5, AsShown DEF TaskStep
  <2>6. CASE ~s.on /\ saved
    BY <1>7, <2>1, <2>2, <2>3, <2>4, <2>6, ToldOrOff DEF TaskStep
  <2>7. CASE ~saved
    BY <1>2, <1>7, <2>1, <2>4, <2>7, ToldOrOff DEF TaskStep
  <2> QED BY <2>5, <2>6, <2>7
<1> QED BY <1>8, <1>9

LEMMA SetFrequencyStep ==
  ASSUME TaskInv, NEW f \in Frequencies, T!SetFrequency(f)
  PROVE  TaskStep
<1>1. TaskTypes /\ TurnedOff /\ pane.open /\ T!Changes
  BY DEF TaskInv, T!SetFrequency
<1> DEFINE s == [pane.settings EXCEPT !.frequency = f]
<1>2. PICK saved \in BOOLEAN :
        /\ config' = IF saved THEN T!File(s) ELSE config
        /\ pane' = [pane EXCEPT !.settings = s]
        /\ IF s.on THEN \E r \in T!Register(pane.exe, f) :
                          task' = r.task /\ warned' = (r.error \/ ~saved)
           ELSE task' = task /\ warned' = (warned \/ ~saved)
  BY DEF T!SetFrequency, T!Save
<1>3. UNCHANGED <<exe, adminOnly, off>>
  BY DEF T!SetFrequency
<1>4. s \in Choices /\ s.on = pane.settings.on /\ s.frequency = f
  BY <1>1 DEF TaskTypes, Choices
<1> HIDE DEF s
<1>5. /\ pane' \in [open : BOOLEAN, settings : Choices, exe : Exes]
      /\ pane'.settings = s /\ pane'.exe = pane.exe /\ pane.exe \in Exes
  BY <1>1, <1>2, <1>4 DEF TaskTypes
<1>6. config' \in [settings : Choices, readable : BOOLEAN] /\ T!File(s).settings = s
  BY <1>1, <1>2, <1>4, FileIs DEF TaskTypes
<1>7. tally' \in [scans : Nat, changes : Nat] /\ ScansAsAsked
  BY <1>1, ChangeIs
<1>8. CASE s.on
  <2>1. PICK r \in T!Register(pane.exe, f) : task' = r.task /\ warned' = (r.error \/ ~saved)
    BY <1>2, <1>8
  <2>2. /\ task' \in [exe : Exes \cup {"nowhere"}, highest : BOOLEAN,
                      frequency : Frequencies \cup {0, T!Defaults.frequency}]
        /\ r.error \in BOOLEAN
        /\ ~r.error => task' = T!Task(pane.exe, f) /\ pane.exe \in adminOnly
    BY <1>1, <1>5, <2>1, Registered
  <2>3. TaskTypes'
    BY <1>1, <1>3, <1>5, <1>6, <1>7, <2>1, <2>2 DEF TaskTypes
  <2>4. ~off
    BY <1>1, <1>4, <1>8 DEF TurnedOff
  <2>5. CASE warned'
    BY <1>3, <1>7, <2>3, <2>4, <2>5, ToldOrOff DEF TaskStep
  <2>6. CASE ~warned'
    BY <1>2, <1>3, <1>4, <1>5, <1>7, <1>8, <2>1, <2>2, <2>3, <2>4, <2>6, AsShown DEF TaskStep
  <2> QED BY <2>5, <2>6
<1>9. CASE ~s.on
  <2>1. task' = task /\ warned' = (warned \/ ~saved)
    BY <1>2, <1>9
  <2>2. TaskTypes'
    BY <1>1, <1>3, <1>5, <1>6, <1>7, <2>1 DEF TaskTypes
  <2>3. off' => (config'.readable => ~config'.settings.on)
    BY <1>1, <1>2, <1>3, <1>6, <1>9 DEF TurnedOff
  <2>4. warned' \/ (config'.readable => ~config'.settings.on)
    BY <1>2, <1>6, <1>9, <2>1
  <2> QED BY <1>5, <1>7, <1>9, <2>2, <2>3, <2>4, ToldOrOff DEF TaskStep
<1> QED BY <1>8, <1>9

LEMMA OtherSettingStep ==
  ASSUME TaskInv, T!OtherSetting
  PROVE  TaskStep
<1>1. TaskTypes /\ Shown /\ SavedAsShown /\ Filed /\ TurnedOff /\ pane.open /\ T!Changes
  BY DEF TaskInv, T!OtherSetting
<1>2. /\ config' = T!File(pane.settings) \/ config' = config
      /\ UNCHANGED <<task, pane, exe, adminOnly, warned, off>>
  BY DEF T!OtherSetting, T!Save
<1>3. pane.settings \in Choices
  BY <1>1 DEF TaskTypes
<1>4. tally' \in [scans : Nat, changes : Nat] /\ ScansAsAsked
  BY <1>1, ChangeIs
<1>5. /\ T!File(pane.settings) \in [settings : Choices, readable : BOOLEAN]
      /\ T!File(pane.settings).settings = pane.settings
  BY <1>3, FileIs
<1>6. TaskTypes'
  BY <1>1, <1>2, <1>4, <1>5 DEF TaskTypes
<1>7. (Shown /\ SavedAsShown /\ TurnedOff)'
  BY <1>1, <1>2, <1>5 DEF Shown, SavedAsShown, TurnedOff
<1>8. Filed'
  BY <1>1, <1>2, <1>5 DEF Filed, SavedAsShown
<1> QED BY <1>4, <1>6, <1>7, <1>8 DEF TaskStep, TaskInv

LEMMA UnregisterStep ==
  ASSUME TaskInv, T!Unregister
  PROVE  TaskStep
<1>1. TaskTypes /\ Filed /\ TurnedOff /\ pane.open /\ T!Changes
  BY DEF TaskInv, T!Unregister
<1>2. /\ pane' = [pane EXCEPT !.settings.on = FALSE]
      /\ UNCHANGED <<exe, adminOnly, warned>>
  BY DEF T!Unregister
<1>3. PICK r \in T!Delete : task' = r.task
  BY DEF T!Unregister
<1>4. PICK saved \in BOOLEAN : config' = (IF saved THEN T!File(pane'.settings) ELSE config) /\ off' = saved
  BY DEF T!Unregister, T!Save
<1>5. /\ task' \in [exe : Exes \cup {"nowhere"}, highest : BOOLEAN,
                    frequency : Frequencies \cup {0, T!Defaults.frequency}]
      /\ task'.highest => task' = task
  BY <1>1, <1>3, DeletedTask
<1>6. /\ pane' \in [open : BOOLEAN, settings : Choices, exe : Exes]
      /\ pane'.settings \in Choices /\ ~pane'.settings.on
  BY <1>1, <1>2 DEF TaskTypes, Choices
<1>7. tally' \in [scans : Nat, changes : Nat] /\ ScansAsAsked
  BY <1>1, ChangeIs
<1>8. TaskTypes'
  BY <1>1, <1>2, <1>4, <1>5, <1>6, <1>7, FileIs DEF TaskTypes
<1>9. (Shown /\ SavedAsShown)'
  BY <1>6 DEF Shown, SavedAsShown
<1>10. Filed' /\ TurnedOff'
  BY <1>1, <1>2, <1>4, <1>5, <1>6, FileIs DEF Filed, TurnedOff
<1> QED BY <1>7, <1>8, <1>9, <1>10 DEF TaskStep, TaskInv

(* An update renames what the window will not start any more; what it      *)
(* makes of the task has to fit the file, for the window after it.         *)
LEMMA RenamedStep ==
  ASSUME TaskInv, "name" \notin Slips, NEW e \in Exes, T!Renamed(e)
  PROVE  TaskStep
<1>1. /\ TaskTypes /\ SavedAsShown /\ Filed /\ TurnedOff
      /\ pane.open /\ pane.exe = exe /\ e # exe /\ T!Changes
  BY DEF TaskInv, T!Renamed
<1> DEFINE s == pane.settings
<1>2. /\ exe' = e /\ T!Reconciled(s, e)
      /\ UNCHANGED <<config, pane, adminOnly, off>>
  BY DEF T!Renamed
<1>3. s \in Choices /\ s.frequency \in Frequencies \cup {T!Defaults.frequency}
  BY <1>1 DEF TaskTypes, Choices
<1>4. /\ task' \in [exe : Exes \cup {"nowhere"}, highest : BOOLEAN,
                    frequency : Frequencies \cup {0, T!Defaults.frequency}]
      /\ warned' \in BOOLEAN
      /\ ~warned' =>
           \/ /\ task' = T!Task(e, s.frequency) /\ e \in adminOnly
              /\ ~warned \/ config = T!File(s)
           \/ /\ ~warned /\ task' = task
              /\ s.on => task.highest /\ task.exe = e /\ e \in adminOnly
  BY <1>1, <1>2, <1>3, ReconciledTask
<1>5. tally' \in [scans : Nat, changes : Nat] /\ ScansAsAsked
  BY <1>1, ChangeIs
<1>6. TaskTypes'
  BY <1>1, <1>2, <1>4, <1>5 DEF TaskTypes
<1>7. Shown'
  BY <1>1, <1>2 DEF Shown
<1>8. SavedAsShown'
  BY <1>1, <1>2, <1>4 DEF SavedAsShown
<1>9. T!File(s).settings = s /\ T!Task(e, s.frequency).frequency = s.frequency
  BY <1>3, FileIs, TaskIs
<1>10. CASE s.on
  <2>1. ~warned' => config = T!File(s)
    BY <1>1, <1>4, <1>10 DEF SavedAsShown
  <2> QED BY <1>1, <1>2, <1>4, <1>5, <1>6, <1>7, <1>8, <1>9, <2>1
          DEF TaskStep, TaskInv, Filed, TurnedOff
<1>11. CASE ~s.on
  <2> DEFINE r == [task |-> task, error |-> FALSE, done |-> FALSE]
  <2>3. r.task = task /\ r.error = FALSE /\ r.done = FALSE
    OBVIOUS
  <2>4. T!Reconcile(s, e) = {r}
    BY <1>11, Zenon DEF T!Reconcile
  <2> HIDE DEF r
  <2>1. task' = task
    BY <1>2, <2>3, <2>4 DEF T!Reconciled
  <2>2. ~warned' => ~warned
    BY <1>2, <2>3, <2>4, Zenon DEF T!Reconciled
  <2> QED BY <1>1, <1>2, <1>5, <1>6, <1>7, <1>8, <2>1, <2>2
          DEF TaskStep, TaskInv, Filed, TurnedOff
<1> QED BY <1>10, <1>11

(* --uninstall, while no window is open.                                   *)
LEMMA UninstallStep ==
  ASSUME TaskInv, "beside" \notin Slips, T!Uninstall
  PROVE  TaskStep
<1>1. TaskTypes /\ Filed /\ TurnedOff /\ ~pane.open /\ T!Changes
  BY DEF TaskInv, T!Uninstall
<1>2. UNCHANGED <<pane, exe, adminOnly, warned>>
  BY DEF T!Uninstall
<1>3. PICK r \in T!Delete : task' = r.task
  BY DEF T!Uninstall
<1>4. PICK saved \in BOOLEAN, s \in {T!Defaults, [T!Loaded EXCEPT !.on = FALSE]} :
        /\ config' = IF saved THEN T!File(s)
                     ELSE IF config.readable THEN config ELSE T!File(T!Defaults)
        /\ off' = saved
  BY DEF T!Uninstall
<1>5. /\ task' \in [exe : Exes \cup {"nowhere"}, highest : BOOLEAN,
                    frequency : Frequencies \cup {0, T!Defaults.frequency}]
      /\ task'.highest => task' = task
  BY <1>1, <1>3, DeletedTask
<1>6. s \in Choices /\ ~s.on /\ T!Defaults \in Choices /\ ~T!Defaults.on
  BY <1>1, <1>4, SettingsAre DEF Choices
<1>7. tally' \in [scans : Nat, changes : Nat] /\ ScansAsAsked
  BY <1>1, ChangeIs
<1>8. TaskTypes'
  BY <1>1, <1>2, <1>4, <1>5, <1>6, <1>7, FileIs DEF TaskTypes
<1>9. (Shown /\ SavedAsShown)'
  BY <1>1, <1>2 DEF Shown, SavedAsShown
<1>10. Filed' /\ TurnedOff'
  BY <1>1, <1>2, <1>4, <1>5, <1>6, FileIs DEF Filed, TurnedOff
<1> QED BY <1>7, <1>8, <1>9, <1>10 DEF TaskStep, TaskInv

(* The window closes, or what there is changes while none is open.         *)
LEMMA WithoutWindowStep ==
  ASSUME TaskInv, T!CloseWindow \/ (\E e \in Exes : T!Moved(e)) \/ T!EditByHand
  PROVE  TaskStep
<1>1. /\ TaskTypes /\ Filed /\ TurnedOff
      /\ UNCHANGED <<task, adminOnly, warned, off>>
  BY DEF TaskInv, T!CloseWindow, T!Moved, T!EditByHand
<1>2. pane' \in [open : BOOLEAN, settings : Choices, exe : Exes] /\ ~pane'.open
  BY <1>1, SettingsAre DEF TaskTypes, T!CloseWindow, T!Moved, T!EditByHand
<1>3. /\ config' \in [settings : Choices, readable : BOOLEAN] /\ exe' \in Exes
      /\ config'.readable => config' = config
  BY <1>1 DEF TaskTypes, T!CloseWindow, T!Moved, T!EditByHand
<1>4. tally' \in [scans : Nat, changes : Nat] /\ ScansAsAsked
  BY <1>1, ChangeIs DEF T!CloseWindow, T!Moved, T!EditByHand, TaskTypes, ScansAsAsked
<1>5. TaskTypes'
  BY <1>1, <1>2, <1>3, <1>4 DEF TaskTypes
<1> QED BY <1>1, <1>2, <1>3, <1>4, <1>5
        DEF TaskStep, TaskInv, Shown, SavedAsShown, Filed, TurnedOff

(* A helper takes the task out only where no window shows it as set up.    *)
LEMMA TaskFiresStep ==
  ASSUME TaskInv, T!TaskFires
  PROVE  TaskStep
<1>1. TaskTypes /\ Shown /\ SavedAsShown /\ Filed /\ TurnedOff
  BY DEF TaskInv
<1>2. /\ config' = IF config.readable THEN config ELSE T!File(T!Defaults)
      /\ UNCHANGED <<pane, exe, adminOnly, warned, off>>
  BY DEF T!TaskFires
<1>3. /\ config' \in [settings : Choices, readable : BOOLEAN]
      /\ config.readable => config' = config
      /\ ~config.readable => ~config'.settings.on
  BY <1>1, <1>2, SettingsAre, FileIs DEF TaskTypes
<1>4. CASE T!HelperScans(exe) /\ tally' = [tally EXCEPT !.scans = @ + 1] /\ UNCHANGED task
  <2>1. TaskTypes'
    BY <1>1, <1>2, <1>3, <1>4 DEF TaskTypes
  <2>2. (Shown /\ SavedAsShown)'
    BY <1>1, <1>2, <1>3, <1>4, FileIs DEF Shown, SavedAsShown, TaskTypes, T!File
  <2>3. Filed' /\ TurnedOff'
    BY <1>1, <1>2, <1>3, <1>4 DEF Filed, TurnedOff
  <2>4. ScansAsAsked
    <3>1. T!Loaded.on /\ exe \in adminOnly
      BY <1>4 DEF T!HelperScans
    <3>2. config.readable /\ config.settings.on
      BY <1>1, <3>1, SettingsAre
    <3> QED BY <1>1, <3>1, <3>2 DEF TurnedOff, ScansAsAsked
  <2> QED BY <2>1, <2>2, <2>3, <2>4 DEF TaskStep, TaskInv
<1>5. CASE /\ ~T!HelperScans(exe)
           /\ IF T!Loaded.on THEN \E r \in T!Delete : task' = r.task ELSE task' = task
           /\ UNCHANGED tally
  <2>1. /\ task' \in [exe : Exes \cup {"nowhere"}, highest : BOOLEAN,
                      frequency : Frequencies \cup {0, T!Defaults.frequency}]
        /\ task'.highest => task' = task
    <3>1. CASE T!Loaded.on
      BY <1>1, <1>5, <3>1, DeletedTask
    <3>2. CASE ~T!Loaded.on
      BY <1>1, <1>5, <3>2 DEF TaskTypes
    <3> QED BY <3>1, <3>2
  <2>2. TaskTypes'
    BY <1>1, <1>2, <1>3, <1>5, <2>1 DEF TaskTypes
  <2>3. SavedAsShown'
    BY <1>1, <1>2, <1>3, FileIs DEF SavedAsShown, TaskTypes
  <2>4. Shown'
    <3>1. SUFFICES ASSUME pane.open, pane.settings.on, pane.exe = exe, ~warned
                   PROVE  task' = task
      BY <1>1, <1>2 DEF Shown
    <3>2. config = T!File(pane.settings) /\ exe \in adminOnly
      BY <1>1, <3>1 DEF SavedAsShown, Shown
    <3>3. config.readable /\ config.settings = pane.settings
      BY <3>2 DEF T!File
    <3>4. T!Loaded.on
      BY <1>1, <3>1, <3>3, SettingsAre
    <3> QED BY <1>5, <3>2, <3>4 DEF T!HelperScans
  <2>5. Filed' /\ TurnedOff'
    BY <1>1, <1>2, <1>3, <2>1 DEF Filed, TurnedOff
  <2>6. ScansAsAsked
    BY <1>5 DEF ScansAsAsked
  <2> QED BY <2>2, <2>3, <2>4, <2>5, <2>6 DEF TaskStep, TaskInv
<1> QED BY <1>4, <1>5 DEF T!TaskFires

LEMMA TaskSteps ==
  ASSUME TaskInv, {"beside", "name"} \cap Slips = {}, [Next]_vars
  PROVE  TaskStep
<1>1. CASE T!Next
  BY <1>1, OpenWindowStep, ToggleStep, SetFrequencyStep, OtherSettingStep, UnregisterStep,
     RenamedStep, UninstallStep, WithoutWindowStep, TaskFiresStep DEF T!Next
<1>2. CASE UNCHANGED taskVars
  BY <1>2 DEF taskVars, TaskInv, TaskStep, TaskTypes, Shown, SavedAsShown, Filed, TurnedOff,
              ScansAsAsked
<1> QED BY <1>1, <1>2 DEF Next, vars

(* The scheduled task follows its setting: while a window shows the        *)
(* background scan as on and nothing was reported, the task starts the     *)
(* executable there is, as often as the window says; and once the scan is  *)
(* off and that was saved, no helper scans, whatever tasks are left.       *)
(* Unless WinMedic is uninstalled beside an open window or its name cannot *)
(* be compared with the task's.                                            *)
THEOREM TaskDoesFollow ==
  ASSUME {"beside", "name"} \cap Slips = {}
  PROVE  Spec => TaskFollowsSetting
<1>1. TaskInv => (pane.open /\ pane.settings.on /\ pane.exe = exe /\ ~warned =>
                    task = T!Task(exe, pane.settings.frequency))
  BY DEF TaskInv, Shown
<1>2. TaskInv /\ [Next]_vars => TaskInv' /\ ScansAsAsked
  BY TaskSteps DEF TaskStep
<1> QED BY <1>1, <1>2, TaskInit, PTL
        DEF Spec, TaskFollowsSetting, T!TaskFollowsSetting, ScansAsAsked

---------------------------------------------------------------------------
(* Commands. What has become of a command at each place of its call; who   *)
(* waits and holds; and that no heavy call gets ahead of one before it.    *)
CallPlaces ==
  {"idle", "queued", "start", "adopt", "wait", "drain", "done", "timed out", "dropped", "gone"}
Processes ==
  [process : {"none", "suspended", "runs", "ended", "killed"},
   started : {"none", "runs", "ended", "killed"}, outside : BOOLEAN,
   job : {"none", "ends all", "closed", "let go"}]

Fitting(place, k) ==
  /\ place \in {"idle", "queued", "start"} =>
       k.process \in {"none", "killed"} /\ k.started # "runs" /\ k.job # "ends all"
  /\ place = "adopt" =>
       k.process = "suspended" /\ k.started = "none" /\ k.job = "none" /\ ~k.outside
  /\ place = "wait" =>
       /\ k.process \in {"runs", "ended"} /\ k.started # "killed"
       /\ k.job = "ends all" /\ ~k.outside
  /\ place = "drain" => k.process = "ended" /\ k.started # "killed" /\ k.job = "let go"
  /\ place = "done" =>
       k.process \in {"none", "ended"} /\ k.started # "killed" /\ k.job # "ends all"
  /\ place \in {"timed out", "dropped", "gone"} =>
       /\ k.process \notin {"runs", "suspended"}
       /\ k.started = "runs" => k.job = "let go"

CallTypes ==
  /\ call \in [C!Calls -> [at : CallPlaces, try : {0, 1, 2}]]
  /\ command \in [C!Calls -> Processes]
  /\ alive \in BOOLEAN
  /\ ~alive => \A c \in C!Calls : call[c].at \in C!Over \cup {"idle"}

CommandsFit == \A c \in C!Calls : Fitting(call[c].at, command[c])

QueueTypes ==
  /\ queue \in Seq(C!Calls) /\ holds \subseteq C!Calls
  /\ earlier \in [C!Calls -> SUBSET (Queries \X {0, 1, 2})]

Queued ==
  /\ \A i, j \in 1..Len(queue) : queue[i] = queue[j] => i = j
  /\ \A i \in 1..Len(queue) : call[queue[i]].at = "queued"
  /\ \A c \in C!Calls : call[c].at = "queued" => \E i \in 1..Len(queue) : queue[i] = c
  /\ \A c \in holds : call[c].at \in {"start", "adopt", "wait", "drain"}

AskedBefore(c, q) == <<q, call[q].try>> \in earlier[c]

Ordered ==
  /\ \A i, j \in 1..Len(queue) : queue[i] \in Heavy /\ i < j => ~AskedBefore(queue[i], queue[j])
  /\ \A c \in Heavy : call[c].at \in {"start", "adopt", "wait"} =>
       /\ \A i \in 1..Len(queue) : ~AskedBefore(c, queue[i])
       /\ \A q \in holds : ~AskedBefore(c, q)
  /\ \A c \in Heavy : \A q \in Queries : \A n \in {0, 1, 2} :
       <<q, n>> \in earlier[c] => call[q].at # "idle" /\ n <= call[q].try

CallInv == CallTypes /\ CommandsFit
QueueInv == QueueTypes /\ (alive => Queued /\ Ordered)
CommandInv == CallInv /\ QueueInv

LEMMA CommandInit == Init => CommandInv
<1> SUFFICES ASSUME Init PROVE CommandInv
  OBVIOUS
<1>1. /\ call = [c \in C!Calls |-> [at |-> "idle", try |-> 0]]
      /\ command = [c \in C!Calls |-> C!NotRun] /\ queue = <<>> /\ holds = {}
      /\ earlier = [c \in C!Calls |-> {}] /\ alive = TRUE
  BY DEF Init, C!Init
<1>2. /\ C!NotRun \in Processes /\ C!NotRun.process = "none" /\ C!NotRun.started = "none"
      /\ C!NotRun.job = "none"
  BY DEF C!NotRun, Processes
<1>3. \A c \in C!Calls : call[c].at = "idle" /\ command[c] = C!NotRun
  BY <1>1
<1>4. CallTypes
  BY <1>1, <1>2 DEF CallTypes, CallPlaces
<1>5. CommandsFit
  BY <1>2, <1>3 DEF CommandsFit, Fitting
<1>6. QueueTypes
  BY <1>1 DEF QueueTypes
<1>7. Queued
  BY <1>1, <1>3 DEF Queued
<1>8. Heavy \subseteq C!Calls
  BY DEF C!Calls
<1>9. Ordered
  BY <1>1, <1>8 DEF Ordered, AskedBefore
<1> QED BY <1>4, <1>5, <1>6, <1>7, <1>9 DEF CommandInv, CallInv, QueueInv

---------------------------------------------------------------------------
(* Commands. The processes.                                                *)
LEMMA NotRunIs ==
  /\ C!NotRun \in Processes /\ C!NotRun.process = "none" /\ C!NotRun.started = "none"
  /\ C!NotRun.job = "none" /\ C!NotRun.outside = FALSE
BY DEF C!NotRun, Processes

LEMMA JobClosedIs ==
  ASSUME NEW k \in Processes
  PROVE  /\ C!JobClosed(k) \in Processes
         /\ k.job # "ends all" => C!JobClosed(k) = k
         /\ k.job = "ends all" =>
              /\ C!JobClosed(k).job = "closed" /\ C!JobClosed(k).process # "runs"
              /\ k.process # "suspended" => C!JobClosed(k).process # "suspended"
              /\ k.process = "killed" => C!JobClosed(k).process = "killed"
              /\ ~k.outside => C!JobClosed(k).started # "runs"
<1>1. CASE k.job # "ends all"
  BY <1>1 DEF C!JobClosed
<1>2. CASE k.job = "ends all"
  <2>1. C!JobClosed(k) =
          [k EXCEPT !.job = "closed",
                    !.process = IF k.process = "runs" THEN "killed" ELSE k.process,
                    !.started = IF k.started = "runs" /\ ~k.outside THEN "killed" ELSE k.started]
    BY <1>2 DEF C!JobClosed, Processes
  <2> QED BY <1>2, <2>1 DEF Processes
<1> QED BY <1>1, <1>2

LEMMA DroppedIs ==
  ASSUME NEW k \in Processes
  PROVE  /\ C!Dropped(k) \in Processes
         /\ C!Dropped(k).process \notin {"runs", "suspended"}
         /\ k.process \in {"none", "killed", "runs", "suspended"} =>
              C!Dropped(k).process \in {"none", "killed"}
         /\ k.job = "ends all" =>
              C!Dropped(k).job = "closed" /\ (~k.outside => C!Dropped(k).started # "runs")
         /\ k.job # "ends all" => C!Dropped(k).job = k.job /\ C!Dropped(k).started = k.started
<1> DEFINE d == [k EXCEPT !.process = IF @ \in {"runs", "suspended"} THEN "killed" ELSE @]
<1>1. /\ d \in Processes /\ d.process \notin {"runs", "suspended"}
      /\ d.job = k.job /\ d.started = k.started /\ d.outside = k.outside
      /\ k.process \in {"none", "killed", "runs", "suspended"} => d.process \in {"none", "killed"}
  BY DEF Processes
<1>2. C!Dropped(k) = C!JobClosed(d)
  BY DEF C!Dropped
<1>3. CASE k.job # "ends all"
  <2>1. C!Dropped(k) = d
    BY <1>1, <1>2, <1>3 DEF C!JobClosed
  <2> HIDE DEF d
  <2> QED BY <1>1, <1>3, <2>1
<1>4. CASE k.job = "ends all"
  <2>1. C!Dropped(k) =
          [d EXCEPT !.job = "closed",
                    !.process = IF d.process = "runs" THEN "killed" ELSE d.process,
                    !.started = IF d.started = "runs" /\ ~d.outside THEN "killed" ELSE d.started]
    BY <1>1, <1>2, <1>4 DEF C!JobClosed, Processes
  <2> HIDE DEF d
  <2>2. /\ C!Dropped(k) \in Processes /\ C!Dropped(k).job = "closed"
        /\ C!Dropped(k).process = d.process
        /\ ~d.outside => C!Dropped(k).started # "runs"
    BY <1>1, <2>1 DEF Processes
  <2> QED BY <1>1, <1>4, <2>2
<1> QED BY <1>3, <1>4

CallRecords == [at : CallPlaces, try : {0, 1, 2}]

LEMMA CallIs ==
  ASSUME CallInv, NEW c \in C!Calls
  PROVE  call[c] \in CallRecords /\ command[c] \in Processes /\ Fitting(call[c].at, command[c])
BY DEF CallInv, CallTypes, CommandsFit, CallRecords

(* One call moves, with its command.                                       *)
LEMMA OneCall ==
  ASSUME CallInv, NEW c \in C!Calls, NEW a \in CallRecords, NEW k \in Processes,
         call' = [call EXCEPT ![c] = a], command' = [command EXCEPT ![c] = k],
         Fitting(a.at, k), alive' = alive, alive
  PROVE  CallInv'
<1>1. /\ call' \in [C!Calls -> CallRecords] /\ command' \in [C!Calls -> Processes]
      /\ \A d \in C!Calls : call'[d] = (IF d = c THEN a ELSE call[d])
                            /\ command'[d] = (IF d = c THEN k ELSE command[d])
  BY DEF CallInv, CallTypes, CallRecords
<1>2. CallTypes'
  BY <1>1 DEF CallInv, CallTypes, CallRecords
<1>3. CommandsFit'
  BY <1>1 DEF CallInv, CommandsFit
<1> QED BY <1>2, <1>3 DEF CallInv

LEMMA GoesIs ==
  ASSUME CallInv, NEW c \in C!Calls, NEW place \in CallPlaces, C!Goes(c, place)
  PROVE  LET a == [call[c] EXCEPT !.at = place]
         IN  /\ a \in CallRecords /\ a.at = place /\ a.try = call[c].try
             /\ call' = [call EXCEPT ![c] = a]
BY CallIs DEF C!Goes, CallRecords

LEMMA SameCommand ==
  ASSUME CallInv, NEW c \in C!Calls
  PROVE  command = [command EXCEPT ![c] = command[c]]
BY DEF CallInv, CallTypes

(* Where the process of a command runs its call waits for it.              *)
LEMMA RunsAwaited ==
  ASSUME CallInv, NEW c \in C!Calls, command[c].process = "runs"
  PROVE  call[c].at = "wait" /\ alive
<1>1. call[c] \in CallRecords /\ Fitting(call[c].at, command[c])
  BY CallIs
<1>2. call[c].at = "wait"
  BY <1>1 DEF Fitting, CallRecords, CallPlaces
<1> QED BY <1>2 DEF CallInv, CallTypes, C!Over

LEMMA AskCall ==
  ASSUME CallInv, NEW c \in C!Calls, C!Ask(c)
  PROVE  CallInv'
<1> DEFINE a == [at |-> IF c \in Plain THEN "start" ELSE "queued", try |-> 1]
<1>1. /\ alive /\ alive' = alive /\ call[c].at = "idle"
      /\ call' = [call EXCEPT ![c] = a] /\ command' = command
  BY DEF C!Ask, C!At
<1>2. a \in CallRecords /\ a.at \in {"start", "queued"}
  BY DEF CallRecords, CallPlaces
<1> HIDE DEF a
<1>3. Fitting(a.at, command[c])
  BY <1>1, <1>2, CallIs DEF Fitting
<1> QED BY <1>1, <1>2, <1>3, CallIs, SameCommand, OneCall

LEMMA GrantedCall ==
  ASSUME CallInv, NEW c \in C!Calls, C!Granted(c)
  PROVE  CallInv'
<1> DEFINE a == [call[c] EXCEPT !.at = "start"]
<1>1. alive /\ alive' = alive /\ call[c].at = "queued" /\ C!Goes(c, "start") /\ command' = command
  BY DEF C!Granted, C!At
<1>2. a \in CallRecords /\ a.at = "start" /\ call' = [call EXCEPT ![c] = a]
  BY <1>1, GoesIs DEF CallPlaces
<1> HIDE DEF a
<1>3. Fitting(a.at, command[c])
  BY <1>1, <1>2, CallIs DEF Fitting
<1> QED BY <1>1, <1>2, <1>3, CallIs, SameCommand, OneCall

LEMMA StartCall ==
  ASSUME CallInv, NEW c \in C!Calls, C!Start(c)
  PROVE  CallInv'
<1>1. alive /\ alive' = alive /\ call[c].at = "start"
  BY DEF C!Start, C!At
<1>2. CASE /\ command' = [command EXCEPT ![c] = [C!NotRun EXCEPT !.process = "suspended"]]
           /\ C!Goes(c, "adopt")
  <2> DEFINE k == [C!NotRun EXCEPT !.process = "suspended"]
             a == [call[c] EXCEPT !.at = "adopt"]
  <2>1. k \in Processes /\ k.process = "suspended" /\ k.started = "none" /\ k.job = "none"
        /\ ~k.outside
    BY NotRunIs DEF Processes
  <2>2. a \in CallRecords /\ a.at = "adopt" /\ call' = [call EXCEPT ![c] = a]
    BY <1>2, GoesIs DEF CallPlaces
  <2> HIDE DEF k, a
  <2>3. Fitting(a.at, k)
    BY <2>1, <2>2 DEF Fitting
  <2>4. command' = [command EXCEPT ![c] = k]
    BY <1>2 DEF k
  <2> QED BY <1>1, <2>1, <2>2, <2>3, <2>4, OneCall
<1>3. CASE command' = [command EXCEPT ![c] = C!NotRun] /\ C!Goes(c, "done")
  <2> DEFINE a == [call[c] EXCEPT !.at = "done"]
  <2>1. a \in CallRecords /\ a.at = "done" /\ call' = [call EXCEPT ![c] = a]
    BY <1>3, GoesIs DEF CallPlaces
  <2> HIDE DEF a
  <2>2. Fitting(a.at, C!NotRun)
    BY <2>1, NotRunIs DEF Fitting
  <2> QED BY <1>1, <1>3, <2>1, <2>2, NotRunIs, OneCall
<1> QED BY <1>2, <1>3 DEF C!Start

LEMMA AdoptCall ==
  ASSUME CallInv, "no job" \notin Gaps, NEW c \in C!Calls, C!Adopt(c)
  PROVE  CallInv'
<1> DEFINE k == [command[c] EXCEPT !.process = "runs", !.job = "ends all"]
           a == [call[c] EXCEPT !.at = "wait"]
<1>1. /\ alive /\ alive' = alive /\ call[c].at = "adopt" /\ C!Goes(c, "wait")
      /\ command' = [command EXCEPT ![c].process = "runs", ![c].job = "ends all"]
  BY DEF C!Adopt, C!At
<1>2. a \in CallRecords /\ a.at = "wait" /\ call' = [call EXCEPT ![c] = a]
  BY <1>1, GoesIs DEF CallPlaces
<1>3. command[c] \in Processes /\ command[c].started = "none" /\ ~command[c].outside
  BY <1>1, CallIs DEF Fitting
<1>4. /\ k \in Processes /\ k.process = "runs" /\ k.started = "none" /\ k.job = "ends all"
      /\ ~k.outside
  BY <1>3 DEF Processes
<1>5. command' = [command EXCEPT ![c] = k]
  BY <1>1, <1>3 DEF CallInv, CallTypes, Processes
<1> HIDE DEF k, a
<1>6. Fitting(a.at, k)
  BY <1>2, <1>4 DEF Fitting
<1> QED BY <1>1, <1>2, <1>4, <1>5, <1>6, OneCall

(* What a command does by itself: its call stays where it is.              *)
LEMMA CommandMoves ==
  ASSUME CallInv, NEW c \in C!Calls, NEW k \in Processes, command' = [command EXCEPT ![c] = k],
         Fitting(call[c].at, k), UNCHANGED <<call, alive>>
  PROVE  CallInv'
<1>1. /\ command' \in [C!Calls -> Processes]
      /\ \A d \in C!Calls : command'[d] = (IF d = c THEN k ELSE command[d])
  BY DEF CallInv, CallTypes
<1>2. CallTypes'
  BY <1>1 DEF CallInv, CallTypes, C!Over
<1>3. CommandsFit'
  BY <1>1 DEF CallInv, CommandsFit
<1> QED BY <1>2, <1>3 DEF CallInv

LEMMA CommandsMove ==
  ASSUME CallInv, NEW c \in C!Calls, C!StartsOther(c) \/ C!Ends(c) \/ C!OtherEnds(c)
  PROVE  CallInv'
<1>1. /\ UNCHANGED <<call, alive>> /\ command[c] \in Processes
      /\ Fitting(call[c].at, command[c]) /\ call[c] \in CallRecords
  BY CallIs DEF C!StartsOther, C!Ends, C!OtherEnds
<1>2. CASE C!StartsOther(c)
  <2> DEFINE k == [command[c] EXCEPT !.started = "runs", !.outside = command[c].job = "none"]
  <2>1. /\ command[c].process = "runs" /\ call[c].at = "wait"
        /\ command' = [command EXCEPT ![c].started = "runs",
                                      ![c].outside = command[c].job = "none"]
    BY <1>2, RunsAwaited DEF C!StartsOther
  <2>2. command[c].job = "ends all"
    BY <1>1, <2>1 DEF Fitting
  <2>3. /\ k \in Processes /\ k.process = "runs" /\ k.started = "runs" /\ k.job = "ends all"
        /\ ~k.outside
    BY <1>1, <2>1, <2>2 DEF Processes
  <2>4. command' = [command EXCEPT ![c] = k]
    BY <1>1, <2>1 DEF CallInv, CallTypes, Processes
  <2> HIDE DEF k
  <2>5. Fitting(call[c].at, k)
    BY <2>1, <2>3 DEF Fitting
  <2> QED BY <1>1, <2>3, <2>4, <2>5, CommandMoves
<1>3. CASE C!Ends(c)
  <2> DEFINE k == [command[c] EXCEPT !.process = "ended"]
  <2>1. /\ call[c].at = "wait" /\ command' = [command EXCEPT ![c].process = "ended"]
    BY <1>3, RunsAwaited DEF C!Ends
  <2>2. /\ k \in Processes /\ k.process = "ended" /\ k.started = command[c].started
        /\ k.job = command[c].job /\ k.outside = command[c].outside
    BY <1>1 DEF Processes
  <2>3. command' = [command EXCEPT ![c] = k]
    BY <1>1, <2>1 DEF CallInv, CallTypes, Processes
  <2> HIDE DEF k
  <2>4. Fitting(call[c].at, k)
    BY <1>1, <2>1, <2>2 DEF Fitting
  <2> QED BY <1>1, <2>2, <2>3, <2>4, CommandMoves
<1>4. CASE C!OtherEnds(c)
  <2> DEFINE k == [command[c] EXCEPT !.started = "ended"]
  <2>1. command[c].started = "runs" /\ command' = [command EXCEPT ![c].started = "ended"]
    BY <1>4 DEF C!OtherEnds
  <2>2. /\ k \in Processes /\ k.process = command[c].process /\ k.started = "ended"
        /\ k.job = command[c].job /\ k.outside = command[c].outside
    BY <1>1 DEF Processes
  <2>3. command' = [command EXCEPT ![c] = k]
    BY <1>1, <2>1 DEF CallInv, CallTypes, Processes
  <2> HIDE DEF k
  <2>4. Fitting(call[c].at, k)
    BY <1>1, <2>1, <2>2 DEF Fitting
  <2> QED BY <1>1, <2>2, <2>3, <2>4, CommandMoves
<1> QED BY <1>2, <1>3, <1>4

LEMMA WaitedCall ==
  ASSUME CallInv, "kept" \notin Gaps, NEW c \in C!Calls, C!Waited(c)
  PROVE  CallInv'
<1> DEFINE k == [command[c] EXCEPT !.job = "let go"]
           a == [call[c] EXCEPT !.at = "drain"]
<1>1. /\ alive /\ alive' = alive /\ call[c].at = "wait" /\ command[c].process = "ended"
      /\ C!Goes(c, "drain") /\ command' = [command EXCEPT ![c] = C!LetGo(command[c])]
  BY DEF C!Waited, C!At
<1>2. a \in CallRecords /\ a.at = "drain" /\ call' = [call EXCEPT ![c] = a]
  BY <1>1, GoesIs DEF CallPlaces
<1>3. /\ command[c] \in Processes /\ command[c].started # "killed"
      /\ command[c].job = "ends all"
  BY <1>1, CallIs DEF Fitting
<1>4. C!LetGo(command[c]) = k
  BY <1>3 DEF C!LetGo
<1>5. k \in Processes /\ k.process = "ended" /\ k.started # "killed" /\ k.job = "let go"
  BY <1>1, <1>3 DEF Processes
<1> HIDE DEF k, a
<1>6. Fitting(a.at, k)
  BY <1>2, <1>5 DEF Fitting
<1> QED BY <1>1, <1>2, <1>4, <1>5, <1>6, OneCall

LEMMA DrainedCall ==
  ASSUME CallInv, NEW c \in C!Calls, C!Drained(c)
  PROVE  CallInv'
<1> DEFINE a == [call[c] EXCEPT !.at = "done"]
<1>1. /\ alive /\ alive' = alive /\ call[c].at = "drain" /\ C!Goes(c, "done")
      /\ command' = [command EXCEPT ![c] = C!JobClosed(command[c])]
  BY DEF C!Drained, C!At
<1>2. a \in CallRecords /\ a.at = "done" /\ call' = [call EXCEPT ![c] = a]
  BY <1>1, GoesIs DEF CallPlaces
<1>3. /\ command[c] \in Processes /\ command[c].started # "killed"
      /\ command[c].job = "let go" /\ command[c].process = "ended"
  BY <1>1, CallIs DEF Fitting
<1>4. C!JobClosed(command[c]) = command[c]
  BY <1>3, JobClosedIs
<1> HIDE DEF a
<1>5. Fitting(a.at, command[c])
  BY <1>2, <1>3 DEF Fitting
<1> QED BY <1>1, <1>2, <1>3, <1>4, <1>5, OneCall

LEMMA TimesOutCall ==
  ASSUME CallInv, NEW c \in C!Calls, C!TimesOut(c)
  PROVE  CallInv'
<1> DEFINE k == C!Dropped(command[c])
<1>1. /\ alive /\ alive' = alive /\ call[c].at = "wait" /\ command[c].process = "runs"
      /\ command' = [command EXCEPT ![c] = k]
  BY DEF C!TimesOut, C!At
<1>2. command[c] \in Processes /\ command[c].job = "ends all" /\ ~command[c].outside
  BY <1>1, CallIs DEF Fitting
<1>3. /\ k \in Processes /\ k.process \in {"none", "killed"} /\ k.started # "runs"
      /\ k.job = "closed"
  BY <1>1, <1>2, DroppedIs
<1> HIDE DEF k
<1>4. CASE call' = [call EXCEPT ![c] = [at |-> "queued", try |-> 2]]
  <2> DEFINE a == [at |-> "queued", try |-> 2]
  <2>1. a \in CallRecords /\ a.at = "queued"
    BY DEF CallRecords, CallPlaces
  <2>2. Fitting(a.at, k)
    BY <1>3, <2>1 DEF Fitting
  <2> HIDE DEF a
  <2>3. call' = [call EXCEPT ![c] = a]
    BY <1>4 DEF a
  <2> QED BY <1>1, <1>3, <2>1, <2>2, <2>3, OneCall
<1>5. CASE C!Goes(c, "timed out")
  <2> DEFINE a == [call[c] EXCEPT !.at = "timed out"]
  <2>1. a \in CallRecords /\ a.at = "timed out" /\ call' = [call EXCEPT ![c] = a]
    BY <1>5, GoesIs DEF CallPlaces
  <2> HIDE DEF a
  <2>2. Fitting(a.at, k)
    BY <1>3, <2>1 DEF Fitting
  <2> QED BY <1>1, <1>3, <2>1, <2>2, OneCall
<1> QED BY <1>4, <1>5 DEF C!TimesOut

(* Whatever a call was doing, what its command runs ends when it is        *)
(* dropped, but for what a command that had ended left behind.             *)
LEMMA DropCall ==
  ASSUME CallInv, NEW c \in C!Calls, C!Drop(c)
  PROVE  CallInv'
<1> DEFINE k == C!Dropped(command[c])
           a == [call[c] EXCEPT !.at = "dropped"]
<1>1. /\ alive /\ alive' = alive /\ call[c].at \notin C!Over \cup {"idle"}
      /\ C!Goes(c, "dropped") /\ command' = [command EXCEPT ![c] = k]
  BY DEF C!Drop
<1>2. a \in CallRecords /\ a.at = "dropped" /\ call' = [call EXCEPT ![c] = a]
  BY <1>1, GoesIs DEF CallPlaces
<1>3. /\ command[c] \in Processes /\ Fitting(call[c].at, command[c])
      /\ call[c].at \in {"queued", "start", "adopt", "wait", "drain"}
  BY <1>1, CallIs DEF CallRecords, CallPlaces, C!Over
<1>4. /\ command[c].job = "ends all" => ~command[c].outside
      /\ command[c].job # "ends all" /\ command[c].started = "runs" => command[c].job = "let go"
  BY <1>3 DEF Fitting
<1>5. k \in Processes /\ k.process \notin {"runs", "suspended"}
  BY <1>3, DroppedIs
<1>6. k.started = "runs" => k.job = "let go"
  BY <1>3, <1>4, DroppedIs
<1> HIDE DEF k, a
<1>7. Fitting(a.at, k)
  BY <1>2, <1>5, <1>6 DEF Fitting
<1> QED BY <1>1, <1>2, <1>5, <1>7, OneCall

(* ... and when WinMedic ends.                                             *)
LEMMA EndsCall ==
  ASSUME CallInv, "suspended" \notin Gaps, C!WinMedicEnds
  PROVE  CallInv'
<1>1. /\ \A c \in C!Calls : call[c].at # "adopt"
      /\ alive' = FALSE /\ command' = [c \in C!Calls |-> C!JobClosed(command[c])]
      /\ call' = [c \in C!Calls |-> IF call[c].at \in C!Over \cup {"idle"} THEN call[c]
                                    ELSE [call[c] EXCEPT !.at = "gone"]]
  BY DEF C!WinMedicEnds
<1>2. ASSUME NEW c \in C!Calls
      PROVE  /\ call'[c] \in CallRecords /\ command'[c] \in Processes
             /\ call'[c].at \in C!Over \cup {"idle"} /\ Fitting(call'[c].at, command'[c])
  <2>1. /\ call[c] \in CallRecords /\ command[c] \in Processes
        /\ Fitting(call[c].at, command[c])
    BY CallIs
  <2>2. command'[c] = C!JobClosed(command[c]) /\ command'[c] \in Processes
    BY <1>1, <2>1, JobClosedIs
  <2>3. CASE call[c].at \in C!Over \cup {"idle"}
    <3>1. call'[c] = call[c]
      BY <1>1, <2>3
    <3>2. command'[c] = command[c] \/
            (command[c].job = "ends all" /\ call[c].at \in {"timed out", "dropped", "gone"})
      BY <2>1, <2>2, <2>3, JobClosedIs DEF Fitting, C!Over
    <3>3. CASE command'[c] = command[c]
      BY <2>1, <2>2, <2>3, <3>1, <3>3
    <3>4. CASE command[c].job = "ends all" /\ call[c].at \in {"timed out", "dropped", "gone"}
      <4>1. command[c].started # "runs" /\ command[c].process \notin {"runs", "suspended"}
        BY <2>1, <3>4 DEF Fitting
      <4>2. /\ command'[c].process \notin {"runs", "suspended"}
            /\ command'[c].started # "runs"
        BY <2>1, <2>2, <3>4, <4>1 DEF C!JobClosed, Processes
      <4> QED BY <2>1, <2>2, <2>3, <3>1, <3>4, <4>2 DEF Fitting
    <3> QED BY <3>2, <3>3, <3>4
  <2>4. CASE call[c].at \notin C!Over \cup {"idle"}
    <3>1. /\ call'[c] = [call[c] EXCEPT !.at = "gone"]
          /\ call[c].at \in {"queued", "start", "wait", "drain"}
      BY <1>1, <2>1, <2>4 DEF CallRecords, CallPlaces, C!Over
    <3>2. call'[c] \in CallRecords /\ call'[c].at = "gone"
      BY <2>1, <3>1 DEF CallRecords, CallPlaces
    <3> DEFINE Ended == /\ command'[c].process \notin {"runs", "suspended"}
                        /\ command'[c].started = "runs" => command'[c].job = "let go"
    <3>3. ASSUME call[c].at \in {"queued", "start"} PROVE Ended
      <4>1. /\ command[c].process \in {"none", "killed"} /\ command[c].started # "runs"
            /\ command[c].job # "ends all"
        BY <2>1, <3>3 DEF Fitting
      <4> QED BY <2>1, <2>2, <4>1, JobClosedIs
    <3>4. ASSUME call[c].at = "wait" PROVE Ended
      <4>1. /\ command[c].process \in {"runs", "ended"} /\ command[c].job = "ends all"
            /\ ~command[c].outside
        BY <2>1, <3>4 DEF Fitting
      <4>2. /\ C!JobClosed(command[c]).process \notin {"runs", "suspended"}
            /\ C!JobClosed(command[c]).started # "runs"
        BY <2>1, <4>1, JobClosedIs
      <4> QED BY <2>2, <4>2
    <3>5. ASSUME call[c].at = "drain" PROVE Ended
      <4>1. command[c].process = "ended" /\ command[c].job = "let go"
        BY <2>1, <3>5 DEF Fitting
      <4> QED BY <2>1, <2>2, <4>1, JobClosedIs
    <3>6. Ended
      BY <3>1, <3>3, <3>4, <3>5
    <3> QED BY <2>2, <3>2, <3>6 DEF Fitting, C!Over
  <2> QED BY <2>3, <2>4
<1>3. CallTypes'
  BY <1>1, <1>2 DEF CallTypes, CallRecords
<1>4. CommandsFit'
  BY <1>2 DEF CommandsFit
<1> QED BY <1>3, <1>4 DEF CallInv

---------------------------------------------------------------------------
(* Commands. The queue: q is what is left of it in its order, without c.   *)
Leaves(c, q) ==
  /\ q \in Seq(C!Calls)
  /\ \E m \in [1..Len(q) -> 1..Len(queue)] :
       \A i, j \in 1..Len(q) : (i < j => m[i] < m[j]) /\ q[i] = queue[m[i]]
  /\ \A i \in 1..Len(q) : q[i] # c
  /\ \A i \in 1..Len(queue) : queue[i] # c => \E j \in 1..Len(q) : q[j] = queue[i]

LEMMA StaysAway ==
  ASSUME QueueTypes, NEW c, \A i \in 1..Len(queue) : queue[i] # c
  PROVE  Leaves(c, queue)
<1> DEFINE m == [i \in 1..Len(queue) |-> i]
<1>1. m \in [1..Len(queue) -> 1..Len(queue)]
  OBVIOUS
<1>2. \A i, j \in 1..Len(queue) : (i < j => m[i] < m[j]) /\ queue[i] = queue[m[i]]
  OBVIOUS
<1> HIDE DEF m
<1> QED BY <1>1, <1>2 DEF Leaves, QueueTypes

LEMMA HeadLeaves ==
  ASSUME QueueTypes, Queued, queue # <<>>
  PROVE  Leaves(Head(queue), Tail(queue))
<1>1. /\ Len(queue) \in Nat \ {0} /\ Tail(queue) \in Seq(C!Calls) /\ Head(queue) = queue[1]
      /\ Len(Tail(queue)) = Len(queue) - 1
      /\ \A i \in 1..Len(Tail(queue)) : Tail(queue)[i] = queue[i + 1]
  BY DEF QueueTypes
<1> DEFINE t == Tail(queue)
           m == [i \in 1..Len(t) |-> i + 1]
<1> HIDE DEF t
<1>2. m \in [1..Len(t) -> 1..Len(queue)]
  BY <1>1 DEF t
<1>3. \A i, j \in 1..Len(t) : (i < j => m[i] < m[j]) /\ t[i] = queue[m[i]]
  BY <1>1 DEF t
<1> HIDE DEF m
<1>4. \A i \in 1..Len(t) : t[i] # queue[1]
  BY <1>1 DEF t, Queued
<1>5. \A i \in 1..Len(queue) : queue[i] # queue[1] => \E j \in 1..Len(t) : t[j] = queue[i]
  <2> SUFFICES ASSUME NEW i \in 1..Len(queue), queue[i] # queue[1]
               PROVE  \E j \in 1..Len(t) : t[j] = queue[i]
    OBVIOUS
  <2>1. i - 1 \in 1..Len(t) /\ t[i - 1] = queue[i]
    BY <1>1 DEF t
  <2> QED BY <2>1
<1>6. t \in Seq(C!Calls)
  BY <1>1 DEF t
<1> QED BY <1>1, <1>2, <1>3, <1>4, <1>5, <1>6 DEF Leaves, t

LEMMA Joined ==
  ASSUME NEW E, NEW a \in Seq(E), NEW b \in Seq(E)
  PROVE  /\ a \o b \in Seq(E) /\ Len(a \o b) = Len(a) + Len(b)
         /\ \A i \in 1..Len(a) + Len(b) :
              (a \o b)[i] = IF i <= Len(a) THEN a[i] ELSE b[i - Len(a)]
OBVIOUS

LEMMA RemovedAt ==
  ASSUME NEW E, NEW s \in Seq(E), NEW n \in 1..Len(s)
  PROVE  /\ C!RemoveAt(s, n) \in Seq(E) /\ Len(C!RemoveAt(s, n)) = Len(s) - 1
         /\ \A i \in 1..Len(s) - 1 : C!RemoveAt(s, n)[i] = IF i < n THEN s[i] ELSE s[i + 1]
<1> DEFINE a == SubSeq(s, 1, n - 1)
           b == SubSeq(s, n + 1, Len(s))
<1>1. a \in Seq(E) /\ Len(a) = n - 1 /\ \A i \in 1..n - 1 : a[i] = s[i]
  OBVIOUS
<1>2. b \in Seq(E) /\ Len(b) = Len(s) - n /\ \A i \in 1..Len(s) - n : b[i] = s[n + i]
  OBVIOUS
<1>3. C!RemoveAt(s, n) = a \o b
  BY DEF C!RemoveAt
<1> HIDE DEF a, b
<1>6. Len(s) \in Nat /\ n \in Nat /\ (n - 1) + (Len(s) - n) = Len(s) - 1
  OBVIOUS
<1>7. a \o b \in Seq(E) /\ Len(a \o b) = Len(a) + Len(b)
  BY <1>1, <1>2, Joined
<1>8. \A i \in 1..Len(a) + Len(b) : (a \o b)[i] = IF i <= Len(a) THEN a[i] ELSE b[i - Len(a)]
  BY <1>1, <1>2, Joined
<1>4. /\ a \o b \in Seq(E) /\ Len(a \o b) = Len(s) - 1
      /\ \A i \in 1..Len(s) - 1 : (a \o b)[i] = IF i <= n - 1 THEN a[i] ELSE b[i - (n - 1)]
  BY <1>1, <1>2, <1>6, <1>7, <1>8
<1>5. ASSUME NEW i \in 1..Len(s) - 1
      PROVE  (a \o b)[i] = IF i < n THEN s[i] ELSE s[i + 1]
  <2>1. CASE i < n
    BY <1>1, <1>4, <2>1
  <2>2. CASE ~(i < n)
    <3>1. i - (n - 1) \in 1..Len(s) - n /\ n + (i - (n - 1)) = i + 1
      BY <2>2
    <3>2. b[i - (n - 1)] = s[i + 1]
      BY <1>2, <3>1
    <3> QED BY <1>4, <2>2, <3>2
  <2> QED BY <2>1, <2>2
<1> QED BY <1>3, <1>4, <1>5

LEMMA UnqueuedLeaves ==
  ASSUME QueueTypes, Queued, NEW c \in C!Calls
  PROVE  Leaves(c, C!Unqueued(c))
<1>1. CASE \A i \in 1..Len(queue) : queue[i] # c
  <2>1. c \notin C!ToSet(queue)
    BY <1>1 DEF C!ToSet, QueueTypes
  <2>2. C!Unqueued(c) = queue
    BY <2>1 DEF C!Unqueued
  <2> QED BY <1>1, <2>2, StaysAway
<1>2. CASE \E i \in 1..Len(queue) : queue[i] = c
  <2> DEFINE n == CHOOSE i \in DOMAIN queue : queue[i] = c
             q == C!RemoveAt(queue, n)
  <2>1. n \in 1..Len(queue) /\ queue[n] = c /\ Len(queue) \in Nat
    BY <1>2 DEF QueueTypes
  <2>2. C!Unqueued(c) = q
    BY <1>2 DEF C!Unqueued, C!ToSet, QueueTypes
  <2> HIDE DEF n
  <2>3. /\ q \in Seq(C!Calls) /\ Len(q) = Len(queue) - 1
        /\ \A i \in 1..Len(queue) - 1 : q[i] = IF i < n THEN queue[i] ELSE queue[i + 1]
    BY <2>1, RemovedAt DEF QueueTypes
  <2> HIDE DEF q
  <2> DEFINE m == [i \in 1..Len(q) |-> IF i < n THEN i ELSE i + 1]
  <2>4. m \in [1..Len(q) -> 1..Len(queue)]
    BY <2>1, <2>3
  <2>5. \A i, j \in 1..Len(q) : (i < j => m[i] < m[j]) /\ q[i] = queue[m[i]]
    BY <2>1, <2>3
  <2>6. \A i \in 1..Len(q) : q[i] # c
    <3> SUFFICES ASSUME NEW i \in 1..Len(q), q[i] = c PROVE FALSE
      OBVIOUS
    <3>1. m[i] \in 1..Len(queue) /\ queue[m[i]] = c /\ m[i] # n
      BY <2>1, <2>3, <2>5
    <3> QED BY <2>1, <3>1 DEF Queued
  <2> HIDE DEF m
  <2>7. \A i \in 1..Len(queue) : queue[i] # c => \E j \in 1..Len(q) : q[j] = queue[i]
    <3> SUFFICES ASSUME NEW i \in 1..Len(queue), queue[i] # c
                 PROVE  \E j \in 1..Len(q) : q[j] = queue[i]
      OBVIOUS
    <3>1. CASE i < n
      BY <2>1, <2>3, <3>1
    <3>2. CASE ~(i < n)
      <4>1. i - 1 \in 1..Len(q) /\ ~(i - 1 < n) /\ q[i - 1] = queue[(i - 1) + 1]
        BY <2>1, <2>3, <3>2
      <4> QED BY <4>1
    <3> QED BY <3>1, <3>2
  <2> QED BY <2>2, <2>3, <2>4, <2>5, <2>6, <2>7 DEF Leaves
<1> QED BY <1>1, <1>2

LEMMA Kinds ==
  /\ Queries \cap Heavy = {} /\ (Queries \cup Heavy) \cap Plain = {}
  /\ C!Calls = Queries \cup Heavy \cup Plain
BY OperationsAssumption DEF C!CommandsAssumption, C!Calls

(* A call goes on, from the queue or behind it.                            *)
LEMMA GoesOn ==
  ASSUME CallInv, QueueTypes, Queued, Ordered, NEW c \in C!Calls, NEW a \in CallRecords,
         call' = [call EXCEPT ![c] = a], Leaves(c, queue'), earlier' = earlier,
         a.at \notin {"queued", "idle"}, a.try = call[c].try \/ c \notin Queries,
         \A h \in holds' : h \in holds \/ (h = c /\ \E i \in 1..Len(queue) : queue[i] = c),
         c \in holds' => a.at \in {"start", "adopt", "wait", "drain"},
         c \in Heavy /\ a.at \in {"start", "adopt", "wait"} =>
           \/ call[c].at \in {"start", "adopt", "wait"}
           \/ holds' = {} /\ Len(queue) > 0 /\ queue[1] = c
  PROVE  (QueueTypes /\ Queued /\ Ordered)'
<1>1. /\ \A d \in C!Calls : call'[d] = IF d = c THEN a ELSE call[d]
      /\ \A d \in C!Calls : call[d] \in CallRecords
      /\ queue \in Seq(C!Calls) /\ holds \subseteq C!Calls
      /\ earlier \in [C!Calls -> SUBSET (Queries \X {0, 1, 2})]
      /\ Len(queue) \in Nat
  BY CallIs DEF CallInv, CallTypes, CallRecords, QueueTypes
<1>2. PICK m \in [1..Len(queue') -> 1..Len(queue)] :
        \A i, j \in 1..Len(queue') : (i < j => m[i] < m[j]) /\ queue'[i] = queue[m[i]]
  BY DEF Leaves
<1>3. /\ queue' \in Seq(C!Calls) /\ \A i \in 1..Len(queue') : queue'[i] # c
      /\ \A i \in 1..Len(queue) : queue[i] # c => \E j \in 1..Len(queue') : queue'[j] = queue[i]
      /\ Len(queue') \in Nat /\ holds' \subseteq C!Calls
  BY <1>1 DEF Leaves
<1>4. QueueTypes'
  BY <1>1, <1>3 DEF QueueTypes
<1>5. \A i \in 1..Len(queue') : m[i] \in 1..Len(queue) /\ queue'[i] = queue[m[i]]
                                 /\ queue'[i] \in C!Calls
  BY <1>1, <1>2
<1>6. \A i, j \in 1..Len(queue') : queue'[i] = queue'[j] => i = j
  <2> SUFFICES ASSUME NEW i \in 1..Len(queue'), NEW j \in 1..Len(queue'),
                      queue'[i] = queue'[j], i < j
               PROVE  FALSE
    BY <1>3
  <2>1. m[i] < m[j] /\ queue[m[i]] = queue[m[j]]
    BY <1>2
  <2> QED BY <1>5, <2>1 DEF Queued
<1>7. \A i \in 1..Len(queue') : call'[queue'[i]].at = "queued"
  BY <1>1, <1>3, <1>5 DEF Queued
<1>8. \A d \in C!Calls : call'[d].at = "queued" => \E i \in 1..Len(queue') : queue'[i] = d
  <2> SUFFICES ASSUME NEW d \in C!Calls, call'[d].at = "queued"
               PROVE  \E i \in 1..Len(queue') : queue'[i] = d
    OBVIOUS
  <2>1. d # c /\ call[d].at = "queued"
    BY <1>1
  <2> QED BY <1>3, <2>1 DEF Queued
<1>9. \A d \in holds' : call'[d].at \in {"start", "adopt", "wait", "drain"}
  BY <1>1, <1>3 DEF Queued
<1>10. Queued'
  BY <1>6, <1>7, <1>8, <1>9 DEF Queued
<1> DEFINE StillBefore(d, q) == <<q, call'[q].try>> \in earlier'[d]
<1>11. ASSUME NEW d \in C!Calls, NEW q \in C!Calls, StillBefore(d, q) PROVE AskedBefore(d, q)
  <2>1. <<q, call'[q].try>> \in earlier[d] /\ q \in Queries
    BY <1>1, <1>11 DEF AskedBefore
  <2> QED BY <1>1, <2>1 DEF AskedBefore
<1>12. \A i, j \in 1..Len(queue') : queue'[i] \in Heavy /\ i < j =>
         ~StillBefore(queue'[i], queue'[j])
  <2> SUFFICES ASSUME NEW i \in 1..Len(queue'), NEW j \in 1..Len(queue'),
                      queue'[i] \in Heavy, i < j
               PROVE  ~StillBefore(queue'[i], queue'[j])
    OBVIOUS
  <2>1. m[i] < m[j] /\ ~AskedBefore(queue[m[i]], queue[m[j]])
    BY <1>2, <1>5 DEF Ordered
  <2>2. ~AskedBefore(queue'[i], queue'[j])
    BY <1>5, <2>1
  <2>3. queue'[i] \in C!Calls /\ queue'[j] \in C!Calls
    BY <1>5
  <2> QED BY <1>11, <2>2, <2>3
<1>13. ASSUME NEW d \in Heavy, call'[d].at \in {"start", "adopt", "wait"}
       PROVE  /\ \A i \in 1..Len(queue') : ~AskedBefore(d, queue'[i])
              /\ \A q \in holds' : ~AskedBefore(d, q)
  <2>1. d \in C!Calls
    BY Kinds
  <2>2. CASE call[d].at \in {"start", "adopt", "wait"}
    BY <1>5, <2>2 DEF Ordered
  <2>3. CASE call[d].at \notin {"start", "adopt", "wait"}
    <3>1. d = c /\ holds' = {} /\ Len(queue) > 0 /\ queue[1] = c
      BY <1>1, <1>13, <2>1, <2>3
    <3>2. ASSUME NEW i \in 1..Len(queue') PROVE ~AskedBefore(d, queue'[i])
      <4>1. m[i] # 1 /\ m[i] \in 1..Len(queue)
        BY <1>3, <1>5, <3>1
      <4>2. 1 \in 1..Len(queue) /\ 1 < m[i]
        BY <1>1, <3>1, <4>1
      <4>3. ~AskedBefore(queue[1], queue[m[i]])
        BY <3>1, <4>1, <4>2 DEF Ordered
      <4> QED BY <1>5, <3>1, <4>3
    <3> QED BY <3>1, <3>2
  <2> QED BY <2>2, <2>3
<1>14. \A d \in Heavy : call'[d].at \in {"start", "adopt", "wait"} =>
         /\ \A i \in 1..Len(queue') : ~StillBefore(d, queue'[i])
         /\ \A q \in holds' : ~StillBefore(d, q)
  <2> SUFFICES ASSUME NEW d \in Heavy, call'[d].at \in {"start", "adopt", "wait"}
               PROVE  /\ \A i \in 1..Len(queue') : ~StillBefore(d, queue'[i])
                      /\ \A q \in holds' : ~StillBefore(d, q)
    OBVIOUS
  <2>1. d \in C!Calls
    BY Kinds
  <2>2. /\ \A i \in 1..Len(queue') : ~AskedBefore(d, queue'[i])
        /\ \A q \in holds' : ~AskedBefore(d, q)
    BY <1>13
  <2>3. \A i \in 1..Len(queue') : ~StillBefore(d, queue'[i])
    BY <1>5, <1>11, <2>1, <2>2
  <2>4. \A q \in holds' : ~StillBefore(d, q)
    BY <1>3, <1>11, <2>1, <2>2
  <2> QED BY <2>3, <2>4
<1>15. \A d \in Heavy : \A q \in Queries : \A n \in {0, 1, 2} :
         <<q, n>> \in earlier'[d] => call'[q].at # "idle" /\ n <= call'[q].try
  <2> SUFFICES ASSUME NEW d \in Heavy, NEW q \in Queries, NEW n \in {0, 1, 2},
                      <<q, n>> \in earlier[d]
               PROVE  call'[q].at # "idle" /\ n <= call'[q].try
    OBVIOUS
  <2>1. q \in C!Calls /\ call[q].at # "idle" /\ n <= call[q].try
    BY Kinds DEF Ordered
  <2> QED BY <1>1, <2>1
<1>16. Ordered'
  BY <1>12, <1>14, <1>15 DEF Ordered, AskedBefore
<1> QED BY <1>4, <1>10, <1>16

(* A call joins the queue, for the first time or once more.                *)
LEMMA Joins ==
  ASSUME CallInv, QueueTypes, Queued, Ordered, NEW c \in C!Calls, NEW a \in CallRecords,
         call' = [call EXCEPT ![c] = a], queue' = Append(queue, c), a.at = "queued",
         call[c].at # "queued", holds' = holds \ {c},
         earlier' \in [C!Calls -> SUBSET (Queries \X {0, 1, 2})],
         \A d \in Heavy : earlier'[d] = earlier[d] \/ (d = c /\ earlier'[d] = C!Asked),
         \A d \in Heavy : \A k \in {0, 1, 2} : <<c, k>> \in earlier[d] => k < a.try
  PROVE  (QueueTypes /\ Queued /\ Ordered)'
<1> DEFINE n == Len(queue)
           StillBefore(d, q) == <<q, call'[q].try>> \in earlier'[d]
<1>1. /\ \A d \in C!Calls : call'[d] = IF d = c THEN a ELSE call[d]
      /\ \A d \in C!Calls : call[d] \in CallRecords
      /\ queue \in Seq(C!Calls) /\ holds \subseteq C!Calls /\ n \in Nat
      /\ \A i \in 1..n : queue[i] \in C!Calls
  BY CallIs DEF CallInv, CallTypes, CallRecords, QueueTypes
<1>2. /\ queue' \in Seq(C!Calls) /\ Len(queue') = n + 1 /\ queue'[n + 1] = c
      /\ \A i \in 1..n : queue'[i] = queue[i]
  BY <1>1
<1>3. \A i \in 1..n : queue[i] # c
  BY DEF Queued
<1> HIDE DEF n
<1>4. QueueTypes'
  BY <1>1, <1>2 DEF QueueTypes
<1>5. \A i \in 1..Len(queue') : i \in 1..n \/ i = n + 1
  BY <1>1, <1>2
<1>6. Queued'
  <2>1. \A i, j \in 1..Len(queue') : queue'[i] = queue'[j] => i = j
    <3>1. \A i, j \in 1..n : queue[i] = queue[j] => i = j
      BY DEF Queued, n
    <3> QED BY <1>2, <1>3, <1>5, <3>1
  <2>2. \A i \in 1..Len(queue') : call'[queue'[i]].at = "queued"
    <3>1. \A i \in 1..n : call[queue[i]].at = "queued"
      BY DEF Queued, n
    <3> QED BY <1>1, <1>2, <1>3, <1>5, <3>1
  <2>3. \A d \in C!Calls : call'[d].at = "queued" => \E i \in 1..Len(queue') : queue'[i] = d
    <3> SUFFICES ASSUME NEW d \in C!Calls, call'[d].at = "queued"
                 PROVE  \E i \in 1..Len(queue') : queue'[i] = d
      OBVIOUS
    <3>1. CASE d = c
      BY <1>1, <1>2, <3>1
    <3>2. CASE d # c
      <4>1. PICK i \in 1..n : queue[i] = d
        BY <1>1, <3>2 DEF Queued, n
      <4>2. i \in 1..Len(queue') /\ queue'[i] = d
        BY <1>1, <1>2, <4>1
      <4> QED BY <4>2
    <3> QED BY <3>1, <3>2
  <2>4. \A d \in holds' : call'[d].at \in {"start", "adopt", "wait", "drain"}
    BY <1>1 DEF Queued
  <2> QED BY <2>1, <2>2, <2>3, <2>4 DEF Queued
<1>7. ASSUME NEW d \in Heavy, NEW q \in C!Calls, q # c, d # c, ~AskedBefore(d, q)
      PROVE  ~StillBefore(d, q)
  BY <1>1, <1>7 DEF AskedBefore
<1>8. ASSUME NEW d \in Heavy, d # c PROVE ~StillBefore(d, c)
  <2>1. earlier'[d] = earlier[d] /\ a.try \in {0, 1, 2}
    BY <1>8 DEF CallRecords
  <2>2. <<c, a.try>> \in earlier[d] => a.try < a.try
    BY <1>8, <2>1
  <2>3. ~(a.try < a.try)
    BY <2>1
  <2>4. call'[c].try = a.try
    BY <1>1
  <2>5. <<c, a.try>> \notin earlier'[d]
    BY <2>1, <2>2, <2>3
  <2> QED BY <2>4, <2>5
<1>9. \A i, j \in 1..Len(queue') : queue'[i] \in Heavy /\ i < j => ~StillBefore(queue'[i], queue'[j])
  <2> SUFFICES ASSUME NEW i \in 1..Len(queue'), NEW j \in 1..Len(queue'),
                      queue'[i] \in Heavy, i < j
               PROVE  ~StillBefore(queue'[i], queue'[j])
    OBVIOUS
  <2>1. i \in 1..n /\ queue'[i] = queue[i] /\ queue[i] # c /\ queue[i] \in Heavy
    BY <1>1, <1>2, <1>3, <1>5
  <2>2. CASE j = n + 1
    BY <1>2, <1>8, <2>1, <2>2
  <2>3. CASE j \in 1..n
    <3>1. ~AskedBefore(queue[i], queue[j]) /\ queue[j] # c /\ queue[j] \in C!Calls
      BY <1>1, <1>3, <2>1, <2>3 DEF Ordered, n
    <3> QED BY <1>2, <1>7, <2>1, <2>3, <3>1
  <2> QED BY <1>5, <2>2, <2>3
<1>10. \A d \in Heavy : call'[d].at \in {"start", "adopt", "wait"} =>
         /\ \A i \in 1..Len(queue') : ~StillBefore(d, queue'[i])
         /\ \A q \in holds' : ~StillBefore(d, q)
  <2> SUFFICES ASSUME NEW d \in Heavy, call'[d].at \in {"start", "adopt", "wait"}
               PROVE  /\ \A i \in 1..Len(queue') : ~StillBefore(d, queue'[i])
                      /\ \A q \in holds' : ~StillBefore(d, q)
    OBVIOUS
  <2>1. d \in C!Calls /\ d # c /\ call[d].at \in {"start", "adopt", "wait"}
    BY <1>1, Kinds
  <2>2. /\ \A i \in 1..n : ~AskedBefore(d, queue[i])
        /\ \A q \in holds : ~AskedBefore(d, q)
    BY <2>1 DEF Ordered, n
  <2>3. \A i \in 1..Len(queue') : ~StillBefore(d, queue'[i])
    BY <1>1, <1>2, <1>3, <1>5, <1>7, <1>8, <2>1, <2>2
  <2>4. \A q \in holds' : ~StillBefore(d, q)
    BY <1>1, <1>7, <2>1, <2>2
  <2> QED BY <2>3, <2>4
<1>11. \A d \in Heavy : \A q \in Queries : \A k \in {0, 1, 2} :
         <<q, k>> \in earlier'[d] => call'[q].at # "idle" /\ k <= call'[q].try
  <2> SUFFICES ASSUME NEW d \in Heavy, NEW q \in Queries, NEW k \in {0, 1, 2},
                      <<q, k>> \in earlier'[d]
               PROVE  call'[q].at # "idle" /\ k <= call'[q].try
    OBVIOUS
  <2>1. q \in C!Calls /\ call[q].try \in {0, 1, 2} /\ a.try \in {0, 1, 2}
    BY <1>1, Kinds DEF CallRecords
  <2>2. CASE earlier'[d] = earlier[d]
    <3>1. call[q].at # "idle" /\ k <= call[q].try
      BY <2>2 DEF Ordered
    <3>2. q = c => k < a.try
      BY <2>2
    <3> QED BY <1>1, <2>1, <3>1, <3>2
  <2>3. CASE d = c /\ earlier'[d] = C!Asked
    <3>1. k = call[q].try /\ q \in C!ToSet(queue) \cup holds
      BY <2>3 DEF C!Asked
    <3>2. call[q].at # "idle"
      <4>1. CASE q \in holds
        BY <4>1 DEF Queued
      <4>2. CASE q \in C!ToSet(queue)
        <5>1. \E i \in 1..Len(queue) : queue[i] = q
          BY <1>1, <4>2 DEF C!ToSet
        <5> QED BY <5>1 DEF Queued
      <4> QED BY <3>1, <4>1, <4>2
    <3>3. q # c
      BY <2>3, Kinds
    <3> QED BY <1>1, <2>1, <3>1, <3>2, <3>3
  <2> QED BY <2>2, <2>3
<1>12. Ordered'
  BY <1>9, <1>10, <1>11 DEF Ordered, AskedBefore
<1> QED BY <1>4, <1>6, <1>12

---------------------------------------------------------------------------
(* Commands. What the operations make of the queue.                        *)
LEMMA NotQueued ==
  ASSUME QueueTypes, Queued, NEW c \in C!Calls, call[c].at # "queued"
  PROVE  Leaves(c, queue)
BY StaysAway DEF Queued

LEMMA AskQueue ==
  ASSUME CallInv, QueueTypes, Queued, Ordered, NEW c \in C!Calls, C!Ask(c)
  PROVE  (QueueTypes /\ Queued /\ Ordered)'
<1> DEFINE a == [at |-> IF c \in Plain THEN "start" ELSE "queued", try |-> 1]
<1>1. /\ call[c].at = "idle" /\ call' = [call EXCEPT ![c] = a] /\ holds' = holds
      /\ queue' = (IF c \in Plain THEN queue ELSE Append(queue, c))
      /\ earlier' = IF c \in Heavy THEN [earlier EXCEPT ![c] = C!Asked] ELSE earlier
  BY DEF C!Ask, C!At
<1>2. /\ a \in CallRecords /\ a.at = (IF c \in Plain THEN "start" ELSE "queued") /\ a.try = 1
  BY DEF CallRecords, CallPlaces
<1> HIDE DEF a
<1>3. c \notin holds
  BY <1>1 DEF Queued
<1>4. CASE c \in Plain
  <2>1. c \notin Heavy /\ c \notin Queries
    BY <1>4, Kinds
  <2>2. Leaves(c, queue)
    BY <1>1, NotQueued
  <2>3. a.at = "start"
    BY <1>2, <1>4
  <2> QED BY <1>1, <1>2, <1>3, <1>4, <2>1, <2>2, <2>3, GoesOn
<1>5. CASE c \notin Plain
  <2>1. C!Asked \subseteq Queries \X {0, 1, 2}
    BY CallIs, Kinds DEF C!Asked, CallRecords
  <2>2. earlier' \in [C!Calls -> SUBSET (Queries \X {0, 1, 2})]
    BY <1>1, <2>1 DEF QueueTypes
  <2>3. \A d \in Heavy : earlier'[d] = earlier[d] \/ (d = c /\ earlier'[d] = C!Asked)
    BY <1>1, Kinds DEF QueueTypes
  <2>4. \A d \in Heavy : \A k \in {0, 1, 2} : <<c, k>> \in earlier[d] => k < a.try
    <3> SUFFICES ASSUME NEW d \in Heavy, NEW k \in {0, 1, 2}, <<c, k>> \in earlier[d]
                 PROVE  FALSE
      OBVIOUS
    <3>1. c \in Queries
      BY Kinds DEF QueueTypes
    <3> QED BY <1>1, <3>1 DEF Ordered
  <2>5. a.at = "queued" /\ holds' = holds \ {c} /\ queue' = Append(queue, c)
    BY <1>1, <1>2, <1>3, <1>5
  <2>6. call[c].at # "queued"
    BY <1>1
  <2> QED BY <1>1, <1>2, <2>2, <2>3, <2>4, <2>5, <2>6, Joins
<1> QED BY <1>4, <1>5

LEMMA GrantedQueue ==
  ASSUME CallInv, QueueTypes, Queued, Ordered, NEW c \in C!Calls, C!Granted(c)
  PROVE  (QueueTypes /\ Queued /\ Ordered)'
<1> DEFINE a == [call[c] EXCEPT !.at = "start"]
<1>1. /\ call[c].at = "queued" /\ Head(queue) = c /\ C!Room(c) /\ queue' = Tail(queue)
      /\ holds' = (IF c \in Heavy THEN holds ELSE holds \cup {c})
      /\ C!Goes(c, "start") /\ earlier' = earlier
  BY DEF C!Granted, C!At
<1>2. /\ a \in CallRecords /\ a.at = "start" /\ call' = [call EXCEPT ![c] = a]
      /\ a.try = call[c].try
  <2>1. "start" \in CallPlaces
    BY DEF CallPlaces
  <2> QED BY <1>1, <2>1, GoesIs
<1> HIDE DEF a
<1>3. PICK i \in 1..Len(queue) : queue[i] = c
  BY <1>1 DEF Queued
<1>4. queue # <<>> /\ Len(queue) > 0 /\ queue[1] = c
  BY <1>1, <1>3 DEF QueueTypes
<1>5. Leaves(c, queue')
  BY <1>1, <1>4, HeadLeaves
<1>6. c \in Heavy => holds' = {}
  BY <1>1 DEF C!Room
<1>7. \A h \in holds' : h \in holds \/ (h = c /\ \E k \in 1..Len(queue) : queue[k] = c)
  BY <1>1, <1>3
<1> QED BY <1>1, <1>2, <1>4, <1>5, <1>6, <1>7, GoesOn

(* A call that is not queued goes on, and may let go of its slot.          *)
LEMMA BehindQueue ==
  ASSUME CallInv, QueueTypes, Queued, Ordered, NEW c \in C!Calls, NEW place \in CallPlaces,
         C!Goes(c, place), call[c].at \notin {"queued", "idle"}, place \notin {"queued", "idle"},
         queue' = queue, earlier' = earlier,
         holds' = holds \ {c} \/ (holds' = holds /\ place \in {"start", "adopt", "wait", "drain"}),
         place \in {"start", "adopt", "wait"} => call[c].at \in {"start", "adopt", "wait"}
  PROVE  (QueueTypes /\ Queued /\ Ordered)'
<1> DEFINE a == [call[c] EXCEPT !.at = place]
<1>1. /\ a \in CallRecords /\ a.at = place /\ call' = [call EXCEPT ![c] = a]
      /\ a.try = call[c].try
  BY GoesIs
<1> HIDE DEF a
<1>2. Leaves(c, queue)
  BY NotQueued
<1> QED BY <1>1, <1>2, GoesOn

LEMMA TimesOutQueue ==
  ASSUME CallInv, QueueTypes, Queued, Ordered, NEW c \in C!Calls, C!TimesOut(c)
  PROVE  (QueueTypes /\ Queued /\ Ordered)'
<1>1. call[c].at = "wait" /\ holds' = holds \ {c} /\ earlier' = earlier
  BY DEF C!TimesOut, C!At
<1>2. CASE /\ call[c].try = 1 /\ call' = [call EXCEPT ![c] = [at |-> "queued", try |-> 2]]
           /\ queue' = Append(queue, c) /\ c \in Queries
  <2> DEFINE a == [at |-> "queued", try |-> 2]
  <2>1. a \in CallRecords /\ a.at = "queued" /\ a.try = 2
    BY DEF CallRecords, CallPlaces
  <2>2. call' = [call EXCEPT ![c] = a]
    BY <1>2
  <2> HIDE DEF a
  <2>3. \A d \in Heavy : \A k \in {0, 1, 2} : <<c, k>> \in earlier[d] => k < a.try
    <3> SUFFICES ASSUME NEW d \in Heavy, NEW k \in {0, 1, 2}, <<c, k>> \in earlier[d]
                 PROVE  k < a.try
      OBVIOUS
    <3>1. k <= call[c].try
      BY <1>2 DEF Ordered
    <3> QED BY <1>2, <2>1, <3>1
  <2>4. earlier' \in [C!Calls -> SUBSET (Queries \X {0, 1, 2})]
    BY <1>1 DEF QueueTypes
  <2>5. \A d \in Heavy : earlier'[d] = earlier[d]
    BY <1>1
  <2> QED BY <1>1, <1>2, <2>1, <2>2, <2>3, <2>4, <2>5, Joins
<1>3. CASE C!Goes(c, "timed out") /\ queue' = queue
  BY <1>1, <1>3, BehindQueue DEF CallPlaces
<1> QED BY <1>2, <1>3 DEF C!TimesOut

LEMMA DropQueue ==
  ASSUME CallInv, QueueTypes, Queued, Ordered, NEW c \in C!Calls, C!Drop(c)
  PROVE  (QueueTypes /\ Queued /\ Ordered)'
<1> DEFINE a == [call[c] EXCEPT !.at = "dropped"]
<1>1. /\ C!Goes(c, "dropped") /\ queue' = C!Unqueued(c) /\ holds' = holds \ {c}
      /\ earlier' = earlier
  BY DEF C!Drop
<1>2. /\ a \in CallRecords /\ a.at = "dropped" /\ call' = [call EXCEPT ![c] = a]
      /\ a.try = call[c].try
  <2>1. "dropped" \in CallPlaces
    BY DEF CallPlaces
  <2> QED BY <1>1, <2>1, GoesIs
<1> HIDE DEF a
<1>3. Leaves(c, queue')
  BY <1>1, UnqueuedLeaves
<1>4. c \notin holds' /\ \A h \in holds' : h \in holds
  BY <1>1
<1>5. a.at \notin {"queued", "idle"} /\ a.at \notin {"start", "adopt", "wait"}
  BY <1>2
<1>6. earlier' = earlier
  BY <1>1
<1> QED BY <1>2, <1>3, <1>4, <1>5, <1>6, GoesOn

(* Nothing of the queue moves.                                             *)
LEMMA SameQueue ==
  ASSUME QueueInv, UNCHANGED <<call, queue, holds, earlier, alive>>
  PROVE  QueueInv'
<1>1. (QueueTypes => QueueTypes') /\ (Queued => Queued')
  BY DEF QueueTypes, Queued
<1>2. Ordered => Ordered'
  BY DEF Ordered, AskedBefore
<1> QED BY <1>1, <1>2 DEF QueueInv

LEMMA CallQueue ==
  ASSUME CallInv, QueueInv, NEW c \in C!Calls, C!Ask(c) \/ C!CallNext(c) \/ C!Drop(c)
  PROVE  QueueInv'
<1>1. alive /\ QueueTypes /\ Queued /\ Ordered
  BY DEF QueueInv, C!Ask, C!CallNext, C!Drop, C!Granted, C!Start, C!Adopt, C!Waited, C!Drained,
         C!TimesOut, C!At
<1>2. CASE C!Start(c)
  <2>1. call[c].at = "start" /\ UNCHANGED <<queue, earlier>>
    BY <1>2 DEF C!Start, C!At
  <2>2. (C!Goes(c, "adopt") /\ holds' = holds) \/ (C!Goes(c, "done") /\ holds' = holds \ {c})
    BY <1>2 DEF C!Start
  <2> QED BY <1>1, <2>1, <2>2, BehindQueue DEF CallPlaces, QueueInv
<1>3. CASE C!Adopt(c)
  <2>1. /\ call[c].at = "adopt" /\ C!Goes(c, "wait")
        /\ UNCHANGED <<queue, holds, earlier>>
    BY <1>3 DEF C!Adopt, C!At
  <2> QED BY <1>1, <2>1, BehindQueue DEF CallPlaces, QueueInv
<1>4. CASE C!Waited(c)
  <2>1. /\ call[c].at = "wait" /\ C!Goes(c, "drain")
        /\ UNCHANGED <<queue, holds, earlier>>
    BY <1>4 DEF C!Waited, C!At
  <2> QED BY <1>1, <2>1, BehindQueue DEF CallPlaces, QueueInv
<1>5. CASE C!Drained(c)
  <2>1. /\ call[c].at = "drain" /\ C!Goes(c, "done") /\ holds' = holds \ {c}
        /\ UNCHANGED <<queue, earlier>>
    BY <1>5 DEF C!Drained, C!At
  <2> QED BY <1>1, <2>1, BehindQueue DEF CallPlaces, QueueInv
<1>6. CASE C!Ask(c) \/ C!Granted(c) \/ C!TimesOut(c) \/ C!Drop(c)
  BY <1>1, <1>6, AskQueue, GrantedQueue, TimesOutQueue, DropQueue DEF QueueInv
<1> QED BY <1>2, <1>3, <1>4, <1>5, <1>6 DEF C!CallNext

LEMMA CommandStep ==
  ASSUME CommandInv, {"suspended", "no job", "kept"} \cap Gaps = {}, [Next]_vars
  PROVE  CommandInv'
<1>1. CallInv /\ QueueInv
  BY DEF CommandInv
<1>2. CASE C!Next
  <2>1. CASE \E c \in C!Calls : C!Ask(c) \/ C!CallNext(c) \/ C!Drop(c)
    BY <1>1, <2>1, AskCall, GrantedCall, StartCall, AdoptCall, WaitedCall, DrainedCall,
       TimesOutCall, DropCall, CallQueue DEF C!CallNext, CommandInv
  <2>2. CASE \E c \in C!Calls : C!StartsOther(c) \/ C!Ends(c) \/ C!OtherEnds(c)
    <3>1. UNCHANGED <<call, queue, holds, earlier, alive>>
      BY <2>2 DEF C!StartsOther, C!Ends, C!OtherEnds
    <3> QED BY <1>1, <2>2, <3>1, CommandsMove, SameQueue DEF CommandInv
  <2>3. CASE C!WinMedicEnds
    <3>1. ~alive' /\ UNCHANGED <<queue, holds, earlier>>
      BY <2>3 DEF C!WinMedicEnds
    <3>2. QueueInv'
      BY <1>1, <3>1 DEF QueueInv, QueueTypes
    <3> QED BY <1>1, <2>3, <3>2, EndsCall DEF CommandInv
  <2> QED BY <1>2, <2>1, <2>2, <2>3 DEF C!Next
<1>3. CASE UNCHANGED commandVars
  BY <1>1, <1>3, SameQueue DEF commandVars, CommandInv, CallInv, CallTypes, CommandsFit, C!Over
<1> QED BY <1>2, <1>3 DEF Next, vars

LEMMA NothingIsLeft ==
  ASSUME CommandInv
  PROVE  C!NothingLeftBehind
<1>1. CallInv /\ QueueInv
  BY DEF CommandInv
<1>2. \A c \in C!Calls : Fitting(call[c].at, command[c])
  BY <1>1, CallIs
<1>3. \A c \in C!Calls : call[c].at \in {"timed out", "dropped", "gone"} =>
        /\ command[c].process \notin {"runs", "suspended"}
        /\ command[c].started = "runs" => command[c].job = "let go"
  BY <1>2 DEF Fitting
<1>4. \A c \in C!Calls : call[c].at \in {"drain", "done"} => command[c].started # "killed"
  BY <1>2 DEF Fitting
<1>5. \A c \in Heavy : call[c].at = "wait" =>
        earlier[c] \cap {a \in C!Asked : a[1] \in holds} = {}
  <2> SUFFICES ASSUME NEW c \in Heavy, call[c].at = "wait",
                      NEW a \in C!Asked, a \in earlier[c], a[1] \in holds
               PROVE  FALSE
    OBVIOUS
  <2>1. alive
    BY <1>1, Kinds DEF CallInv, CallTypes, C!Over
  <2>2. PICK q \in Queries : a = <<q, call[q].try>>
    BY DEF C!Asked
  <2>3. q \in holds
    BY <2>2
  <2>4. ~AskedBefore(c, q)
    BY <1>1, <2>1, <2>3 DEF QueueInv, Ordered
  <2> QED BY <2>2, <2>4 DEF AskedBefore
<1> QED BY <1>3, <1>4, <1>5, Zenon DEF C!NothingLeftBehind

(* A command whose call timed out or was dropped, or that WinMedic waited  *)
(* for when it ended, does not run on, nor does what it started; what a    *)
(* command that ended by itself left running is not killed; and a heavy    *)
(* command runs beside no PowerShell call that asked before it. For any    *)
(* number of calls and slots, if every command joins its job before        *)
(* WinMedic ends, gets one, and its job lets go of what it leaves.         *)
THEOREM CommandsLeaveNothing ==
  ASSUME {"suspended", "no job", "kept"} \cap Gaps = {}
  PROVE  Spec => NothingLeftBehind
<1>1. CommandInv => C!NothingLeftBehind
  BY NothingIsLeft
<1>2. CommandInv /\ [Next]_vars => CommandInv'
  BY CommandStep
<1> QED BY <1>1, <1>2, CommandInit, PTL DEF Spec, NothingLeftBehind
=============================================================================
