--------------------------- MODULE MCDecisions ---------------------------
(* Bounded instances of Decisions for TLC: the network check finds a       *)
(* repair that needs a restart, the system check another finding and, in a *)
(* world with restarts, the advice that Windows waits for one.             *)
EXTENDS Decisions

CONSTANTS winsock, startup, pendingRestart, network, system

OwnerOf == [i \in Ids |-> IF i = winsock THEN network ELSE system]

Sessions == [helper |-> "alone", quits |-> {"idle"}, cuts |-> FALSE, restarts |-> 1]
Beside   == [helper |-> "any", quits |-> {}, cuts |-> FALSE, restarts |-> 0]
Cut      == [helper |-> "never", quits |-> {}, cuts |-> TRUE, restarts |-> 0]

EverySession == {Sessions, Beside, Cut}
CutScans == {Cut}
===========================================================================
