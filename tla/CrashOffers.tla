---------------------------- MODULE CrashOffers ----------------------------
(***************************************************************************)
(* What WinMedic leaves of its own crashes (utils/crash_log.rs, and what   *)
(* Windows logs), and the offer to report them (app/crash_offer.rs,        *)
(* utils/crash_report.rs). A panic leaves a crash log, of which the newest *)
(* few stay; any other end leaves an event. Each start of the window reads *)
(* both, as far as they can be read, and offers what came since the last   *)
(* look.                                                                   *)
(***************************************************************************)
EXTENDS Integers, FiniteSets

CONSTANTS
  MaxKept,       \* KEEP
  Second,        \* ticks of the clock in a second
  FirstLookBack, \* FIRST_LOOK_BACK_DAYS, in ticks
  LookBack,      \* LOOKBACK_DAYS
  MaxTime, MaxCrashes, MaxUnsaved    \* bounds

CrashOffersAssumption ==
  /\ {MaxKept, Second} \subseteq Nat \ {0}
  /\ {FirstLookBack, LookBack, MaxTime, MaxCrashes, MaxUnsaved} \subseteq Nat
  /\ Second <= MaxTime

(* A crash: when it came, and whether a panic hook saw it.                 *)
Crash == [time : 0..MaxTime, panic : BOOLEAN]

VARIABLES
  clock,
  logs, events,   \* the crash logs and the events there are
  crashed,        \* history: all crashes
  seenUntil,      \* crashes_offered_until: in the file of settings, or Never
  look,           \* the window, and what it has read so far
  offered,        \* history: how often each crash was offered, or counted with one
  unsaved,        \* history: looks that could not be saved
  missed          \* history: crashes that a saved look could not see, see Unseen

vars == <<clock, logs, events, crashed, seenUntil, look, offered, unsaved, missed>>

Never == -1

(* late, a history: crashes that came after what they left was read, and   *)
(* those whose events the query did not bring.                             *)
Closed == [at |-> "closed", logs |-> {}, events |-> {}, late |-> {}]

Init ==
  /\ clock = Second
  /\ logs = {} /\ events = {} /\ crashed = {}
  /\ seenUntil = Never /\ look = Closed
  /\ offered = [c \in Crash |-> 0] /\ unsaved = 0 /\ missed = {}

SecondOf(time) == time - (time % Second)

(* from_crash_log, from_event: a crash log tells its second.               *)
When(c) == IF c.panic THEN SecondOf(c.time) ELSE c.time

---------------------------------------------------------------------------
(* write: the newest MaxKept stay.                                        *)
NewestKept(all) == {c \in all : Cardinality({d \in all : d.time > c.time}) < MaxKept}

(* A check or a repair panics, and its WinMedic goes on, or any WinMedic   *)
(* ends, the one that looks or another: by a panic, or in a way the hook   *)
(* does not see. The log of a panic in the second of a saved look is not   *)
(* told from one before it.                                                *)
Crashes(panic, ends) ==
  /\ Cardinality(crashed) < MaxCrashes
  /\ panic \/ ends
  /\ clock # seenUntil /\ \A c \in crashed : c.time # clock
  /\ LET c == [time |-> clock, panic |-> panic]
     IN  /\ crashed' = crashed \cup {c}
         /\ logs' = IF panic THEN NewestKept(logs \cup {c}) ELSE logs
         /\ events' = IF panic THEN events ELSE events \cup {c}
         /\ missed' = IF When(c) <= seenUntil THEN missed \cup {c} ELSE missed
         /\ \/ ends /\ look' = Closed
            \/ look' = IF look.at = "offer" \/ (panic /\ look.at = "events")
                       THEN [look EXCEPT !.late = @ \cup {c}] ELSE look
  /\ UNCHANGED <<clock, seenUntil, offered, unsaved>>

OpenWindow ==
  /\ look.at = "closed"
  /\ look' = [Closed EXCEPT !.at = "logs"]
  /\ UNCHANGED <<clock, logs, events, crashed, seenUntil, offered, unsaved, missed>>

(* start_crash_check: the logs, then the events, which take a while.       *)
ReadLogs ==
  /\ look.at = "logs"
  /\ look' = [look EXCEPT !.at = "events", !.logs = logs]
  /\ UNCHANGED <<clock, logs, events, crashed, seenUntil, offered, unsaved, missed>>

(* own_crashes_query: of the last LookBack, and of every program's crashes *)
(* the newest 300, so from a later time on when others crash often; a      *)
(* query that fails or times out brings none (unwrap_or_default).          *)
ReadEvents ==
  /\ look.at = "events"
  /\ \E since \in (clock - LookBack)..(clock + 1) :
       look' = [look EXCEPT !.at = "offer", !.events = {e \in events : e.time >= since},
                            !.late = @ \cup {e \in events : e.time < since}]
  /\ UNCHANGED <<clock, logs, events, crashed, seenUntil, offered, unsaved, missed>>

(* crashes_since: at the first look, of the last FirstLookBack.            *)
SeenUntil == IF seenUntil = Never THEN clock - FirstLookBack ELSE seenUntil
CrashesSince(found) == {c \in found : When(c) > SeenUntil}

(* What this look cannot offer, and no later one will once it is saved.    *)
Unseen ==
  look.late \cup (IF seenUntil = Never THEN {c \in crashed : When(c) <= SeenUntil} ELSE {})

(* offer_crashes: the newest is offered with the number of the others.     *)
Offer ==
  /\ look.at = "offer"
  /\ LET crashes == CrashesSince(look.logs \cup look.events)
     IN  offered' = [c \in Crash |-> IF c \in crashes THEN offered[c] + 1 ELSE offered[c]]
  /\ \/ seenUntil' = clock /\ missed' = missed \cup Unseen /\ UNCHANGED unsaved
     \/ UNCHANGED <<seenUntil, missed>> /\ unsaved < MaxUnsaved /\ unsaved' = unsaved + 1
  /\ look' = [Closed EXCEPT !.at = "open"]
  /\ UNCHANGED <<clock, logs, events, crashed>>

CloseWindow ==
  /\ look.at # "closed"
  /\ look' = Closed
  /\ UNCHANGED <<clock, logs, events, crashed, seenUntil, offered, unsaved, missed>>

Tick ==
  /\ clock < MaxTime
  /\ clock' = clock + 1
  /\ UNCHANGED <<logs, events, crashed, seenUntil, look, offered, unsaved, missed>>

Next ==
  \/ \E panic, ends \in BOOLEAN : Crashes(panic, ends)
  \/ OpenWindow
  \/ ReadLogs
  \/ ReadEvents
  \/ Offer
  \/ CloseWindow
  \/ Tick

Spec == Init /\ [][Next]_vars

---------------------------------------------------------------------------
(* "Each crash is offered once, at the next start of the window": a crash  *)
(* that was not offered will be at the next look, and none is offered      *)
(* again that a look has saved. (With a failed save it is, "which is       *)
(* better than not at all".) Except: newer ones took the place of its log, *)
(* or a saved look could not see it, because its event was not brought or  *)
(* was too old, because it came while the window looked or, as a log, in   *)
(* the second of the look, or because it was older than the first look     *)
(* reaches back.                                                           *)
Displaced(c) == c.panic /\ Cardinality({d \in crashed : d.panic /\ d.time > c.time}) >= MaxKept

OfferedOnce ==
  \A c \in crashed :
    /\ offered[c] <= 1 + unsaved
    /\ offered[c] = 0 => When(c) > seenUntil \/ Displaced(c) \/ c \in missed
    /\ offered[c] = 0 /\ c \notin logs \cup events => Displaced(c)

(* The same without those exceptions, as app/crash_offer.rs:4 says it,     *)
(* does not hold: a look whose events did not come is saved all the same.  *)
OfferedAtNextStart ==
  \A c \in crashed : offered[c] = 0 => When(c) > seenUntil \/ Displaced(c)
=============================================================================
