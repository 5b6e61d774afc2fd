--------------------------- MODULE ServiceChains ---------------------------
(***************************************************************************)
(* modules/service_chain.rs: why a service cannot start. From each service *)
(* that failed, the walk follows what it depends on down to drivers whose  *)
(* device has a problem, and drops the chains that end a longer one.       *)
(* sc.exe is asked about a service once; it may have no answer.            *)
(***************************************************************************)
EXTENDS Naturals, Sequences, FiniteSets, SequencesExt

CONSTANTS
  Services, Driver,     \* the Win32 services, and a driver
  MaxDepth,             \* MAX_DEPTH
  MaxDependencies       \* bound on what a service depends on

ServiceChainsAssumption == MaxDepth \in Nat \ {0} /\ MaxDependencies \in Nat

States == {"running", "failed", "stopped"}
Everything == "everything"
One == CHOOSE s \in Services : TRUE

VARIABLES
  depends,      \* what each service depends on
  state,        \* what sc query says: running, stopped with an error, or stopped
  unanswered,   \* those of which sc qc says nothing
  asked,        \* the service something waits for, or everything that failed
  pending,      \* the paths that are still to be followed
  chains        \* the chains that were found, of which tails stay until the end

vars == <<depends, state, unanswered, asked, pending, chains>>
input == <<depends, state, unanswered, asked>>

Failing == {s \in Services : state[s] = "failed"}

(* failing_chains starts from each service that failed,                    *)
(* chains_from_service from the one it is asked about unless that runs.    *)
Starts == IF asked = Everything THEN Failing
          ELSE {s \in Services : s = asked /\ state[s] # "running"}

Init ==
  /\ depends \in [Services -> {d \in SUBSET (Services \cup {Driver}) :
                                 Cardinality(d) <= MaxDependencies}]
  /\ \A s \in Services : s \notin depends[s]
  /\ state \in [Services -> States]
  /\ asked \in {Everything, One}
  /\ unanswered \in {{}, {CHOOSE s \in Services : s # One}, {Driver}}
  /\ Starts # {}
  /\ pending = {<<s>> : s \in Starts}
  /\ chains = {}

---------------------------------------------------------------------------
(* "A service that runs is not why its dependents stopped."                *)
Longer(path) ==
  {Append(path, s) : s \in {d \in depends[Last(path)] \cap Services :
                              /\ d \notin ToSet(path) /\ state[d] # "running"
                              /\ Len(path) < MaxDepth}}

(* chains_from: a path to the driver of a device that has a problem is a   *)
(* chain. Every one of them to the one driver here is to the same device.  *)
Follow(path) ==
  /\ path \in pending
  /\ IF Last(path) \in unanswered
     THEN pending' = pending \ {path} /\ UNCHANGED chains
     ELSE /\ pending' = (pending \ {path}) \cup Longer(path)
          /\ chains' = IF Driver \in depends[Last(path)] \ unanswered
                       THEN chains \cup {path} ELSE chains
  /\ UNCHANGED input

(* Mutant: of the chains to a device one is enough.                        *)
OneIsEnough(found) == {path \in found : path = CHOOSE p \in found : \A q \in found : Len(q) <= Len(p)}

IsTail(path, of) == path # of /\ IsSuffix(path, of)
WithoutTails(found) == {path \in found : ~\E other \in found : IsTail(path, other)}

Finish ==
  /\ pending = {} /\ \E c \in chains : c \notin WithoutTails(chains)
  /\ chains' = WithoutTails(chains)
  /\ UNCHANGED <<input, pending>>

Next == (\E path \in pending : Follow(path)) \/ Finish

Fairness == WF_vars(Next)
Spec == Init /\ [][Next]_vars /\ Fairness

---------------------------------------------------------------------------
(* What is true of the services: a way from s to the driver through at     *)
(* most n services that do not run and that sc.exe could tell of.          *)
Blocked[n \in Nat] ==
  IF n = 0 THEN {}
  ELSE {s \in Services \ unanswered :
          /\ state[s] # "running"
          /\ \/ Driver \in depends[s] \ unanswered
             \/ depends[s] \cap Blocked[n - 1] # {}}

Explained == {s \in Services : \E c \in chains : s \in ToSet(c)}

(* In the end every service that failed because of the device is on a      *)
(* chain to it, if the chain is not deeper than is followed; every chain   *)
(* explains: none goes round in a circle or through a service that runs;   *)
(* and none is told that another one tells. "A chain that is the end of a  *)
(* longer one is left out, so CmService's chain through HvHost stands for  *)
(* HvHost's own."                                                          *)
EveryCauseIsTold ==
  /\ [](pending = {} =>
          /\ Starts \cap Blocked[MaxDepth] \subseteq Explained
          /\ \A c \in chains : IsInjective(c) /\ \A i \in DOMAIN c : state[c[i]] # "running")
  /\ <>[](pending = {} /\ \A c, d \in chains : ~IsTail(c, d))
=============================================================================
