------------------------- MODULE MCServiceRepairs -------------------------
(* Two update services with a dependent, as AppLocker's Application        *)
(* Identity depends on cryptsvc, here on both: a guard at work in the      *)
(* background can then start what has just been stopped, and what that     *)
(* needs. The spooler; both folders.                                       *)
EXTENDS ServiceRepairs

CONSTANTS wuauserv, cryptsvc, appidsvc, spooler, SoftwareDistribution, catroot2

MCServices == {wuauserv, cryptsvc, appidsvc, spooler}
MCNeeds == [s \in MCServices |-> IF s = appidsvc THEN {wuauserv, cryptsvc} ELSE {}]
MCUpdateServices == <<wuauserv, cryptsvc>>
MCFolders == <<SoftwareDistribution, catroot2>>

Both == World
Ending == {w \in World : ~w.slow}
Slow == {w \in World : ~w.ends}
===========================================================================
