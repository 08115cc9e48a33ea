----------------------------- MODULE KeepAwake ------------------------------
(***************************************************************************)
(* The sleep inhibitor (keepawake/keepawake.go, tracker.go).  The keeper   *)
(* goroutine polls the activity tracker; while it holds, a supervisor      *)
(* goroutine keeps one helper process (caffeinate) alive and restarts it   *)
(* after a backoff.  Time counts in poll intervals.                        *)
(***************************************************************************)
EXTENDS Naturals

CONSTANTS
    Requests,     \* HTTP requests
    Recent,       \* recentWindow, in poll intervals
    Linger,       \* lingerAfterIdle, in poll intervals
    MaxFails      \* bound: exits of the helper

VARIABLES
    kaMode,       \* "on_demand" or "always"
    kaReq,        \* kaReq[r]: "none", "serving", "left" (the exit is half done), "done"
    kaCount,      \* inflight
    kaLast,       \* intervals since lastNano, Recent when older or never
    kaPc,         \* keeper: "check", "waiting", "holding", "draining", "ended"
    kaSup,        \* supervisor: "none", "starting", "up", "backoff", "gaveUp", "stopped"
    kaCancelled,  \* the context of the supervisor is cancelled
    kaIdle,       \* 0, or 1 + intervals since idleSince
    kaCtx,        \* the gateway is shutting down
    kaFails,      \* exits of the helper
    kaQuiet       \* history, capped: intervals since a request was really served

vars == <<kaMode, kaReq, kaCount, kaLast, kaPc, kaSup, kaCancelled, kaIdle, kaCtx, kaFails, kaQuiet>>
trackVars == <<kaReq, kaCount, kaLast, kaQuiet>>
superVars == <<kaSup, kaCancelled, kaFails>>

Capped(n, top) == IF n < top THEN n + 1 ELSE n

(* Tracker.Active.                                                         *)
Active == kaCount > 0 \/ kaLast < Recent

(* Run: without demand the supervisor runs from the start to the end.      *)
Init ==
    /\ kaMode \in {"on_demand", "always"} /\ kaReq = [r \in Requests |-> "none"]
    /\ kaCount = 0 /\ kaLast = Recent /\ kaQuiet = Recent + Linger
    /\ kaPc = IF kaMode = "on_demand" THEN "check" ELSE "holding"
    /\ kaSup = IF kaMode = "on_demand" THEN "none" ELSE "starting"
    /\ kaCancelled = FALSE /\ kaIdle = 0 /\ kaCtx = FALSE /\ kaFails = 0

(* Wrap counts a request in ...                                            *)
RequestBegins(r) ==
    /\ kaReq[r] = "none" /\ kaReq' = [kaReq EXCEPT ![r] = "serving"]
    /\ kaCount' = kaCount + 1 /\ kaQuiet' = 0
    /\ UNCHANGED <<kaMode, kaLast, kaPc, superVars, kaIdle, kaCtx>>

(* Mutant of ExitStores: the count goes down before the time is stored.    *)
ExitStoresSwapped == <<"count", "time">>

(* ... and out: first the time of the last use, then the count.            *)
ExitStores == <<"time", "count">>

Store(what) ==
    \/ what = "time" /\ kaLast' = 0 /\ UNCHANGED kaCount
    \/ what = "count" /\ kaCount' = kaCount - 1 /\ UNCHANGED kaLast

RequestLeaves(r) ==
    /\ kaReq[r] = "serving" /\ kaReq' = [kaReq EXCEPT ![r] = "left"] /\ Store(ExitStores[1])
    /\ kaQuiet' = 0 /\ UNCHANGED <<kaMode, kaPc, superVars, kaIdle, kaCtx>>

RequestEnds(r) ==
    /\ kaReq[r] = "left" /\ kaReq' = [kaReq EXCEPT ![r] = "done"] /\ Store(ExitStores[2])
    /\ UNCHANGED <<kaMode, kaQuiet, kaPc, superVars, kaIdle, kaCtx>>

(* An interval passes, without a poll or with the one of the given step.   *)
TimePasses ==
    /\ kaLast' = Capped(kaLast, Recent)
    /\ kaQuiet' = IF \E r \in Requests : kaReq[r] = "serving" THEN 0 ELSE Capped(kaQuiet, Recent + Linger)
    /\ UNCHANGED <<kaReq, kaCount>>

(* runOnDemand begins a hold: a new context and a new supervisor.          *)
BeginHold == kaPc' = "holding" /\ kaSup' = "starting" /\ kaCancelled' = FALSE /\ kaIdle' = 0 /\ UNCHANGED kaFails

(* waitForActivity looks once at once ...                                  *)
FirstLook ==
    /\ kaPc = "check"
    /\ \/ kaCtx /\ kaPc' = "ended" /\ UNCHANGED <<superVars, kaIdle>>
       \/ ~kaCtx /\ Active /\ BeginHold
       \/ ~kaCtx /\ ~Active /\ kaPc' = "waiting" /\ UNCHANGED <<superVars, kaIdle>>
    /\ UNCHANGED <<kaMode, trackVars, kaCtx>>

(* Mutant of WaitPoll: the activity is looked at once only.                *)
WaitPollBlind ==
    /\ kaPc = "waiting" /\ ~kaCtx /\ TimePasses /\ UNCHANGED <<kaPc, superVars, kaIdle>>
    /\ UNCHANGED <<kaMode, kaCtx>>

(* ... and then at every poll.                                             *)
WaitPoll ==
    /\ kaPc = "waiting" /\ ~kaCtx /\ TimePasses
    /\ IF kaCount > 0 \/ kaLast' < Recent THEN BeginHold ELSE UNCHANGED <<kaPc, superVars, kaIdle>>
    /\ UNCHANGED <<kaMode, kaCtx>>

(* Mutant of HoldPoll: a use between two quiet polls does not start the    *)
(* linger anew.                                                            *)
HoldPollKeepsIdle ==
    /\ kaPc = "holding" /\ kaMode = "on_demand" /\ ~kaCancelled /\ TimePasses
    /\ LET active == kaCount > 0 \/ kaLast' < Recent IN
       \/ active /\ UNCHANGED <<kaPc, kaIdle>>
       \/ ~active /\ kaIdle < Linger /\ kaIdle' = kaIdle + 1 /\ UNCHANGED kaPc
       \/ ~active /\ kaIdle >= Linger /\ kaPc' = "draining" /\ UNCHANGED kaIdle
    /\ kaCancelled' = (kaPc' = "draining") /\ UNCHANGED <<kaMode, kaSup, kaFails, kaCtx>>

(* Mutant of HoldPoll: every quiet poll sets idleSince anew.               *)
HoldPollRestartsIdle ==
    /\ kaPc = "holding" /\ kaMode = "on_demand" /\ ~kaCancelled /\ TimePasses
    /\ kaIdle' = IF kaCount > 0 \/ kaLast' < Recent THEN 0 ELSE 1
    /\ UNCHANGED <<kaMode, kaPc, superVars, kaCtx>>

(* holdWhileActive: activity clears idleSince, the first quiet poll sets   *)
(* it, and a poll that finds Linger intervals of it ends the hold.         *)
HoldPoll ==
    /\ kaPc = "holding" /\ kaMode = "on_demand" /\ ~kaCancelled /\ TimePasses
    /\ LET active == kaCount > 0 \/ kaLast' < Recent IN
       \/ active /\ kaIdle' = 0 /\ UNCHANGED kaPc
       \/ ~active /\ kaIdle < Linger /\ kaIdle' = kaIdle + 1 /\ UNCHANGED kaPc
       \/ ~active /\ kaIdle >= Linger /\ kaPc' = "draining" /\ UNCHANGED kaIdle
    /\ kaCancelled' = (kaPc' = "draining") /\ UNCHANGED <<kaMode, kaSup, kaFails, kaCtx>>

(* The hold also ends when its context does: the gateway shuts down, or    *)
(* the supervisor has given up.                                            *)
HoldCancelled ==
    /\ kaPc = "holding" /\ kaMode = "on_demand" /\ kaCancelled
    /\ kaPc' = "draining" /\ UNCHANGED <<kaMode, trackVars, superVars, kaIdle, kaCtx>>

(* Mutant of AwaitSupervisor: the hold is left without waiting for it.     *)
AwaitSupervisorNot == kaPc' = "check"

(* The keeper waits for the supervisor before it watches again.            *)
AwaitSupervisor ==
    \/ kaSup = "stopped" /\ kaPc' = "check"
    \/ kaSup = "gaveUp" /\ kaPc' = "ended"

HoldEnds ==
    /\ kaPc = "draining" /\ AwaitSupervisor
    /\ UNCHANGED <<kaMode, trackVars, superVars, kaIdle, kaCtx>>

AlwaysEnds ==
    /\ kaMode = "always" /\ kaPc = "holding" /\ kaSup \in {"stopped", "gaveUp"}
    /\ kaPc' = "ended" /\ UNCHANGED <<kaMode, trackVars, superVars, kaIdle, kaCtx>>

WaitCancelled ==
    /\ kaPc = "waiting" /\ kaCtx /\ kaPc' = "ended"
    /\ UNCHANGED <<kaMode, trackVars, superVars, kaIdle, kaCtx>>

(* runOnce starts the helper, or finds that it is not installed.           *)
HelperStarts ==
    /\ kaSup = "starting"
    /\ \/ ~kaCancelled /\ kaSup' = "up" /\ UNCHANGED kaCancelled
       \/ ~kaCancelled /\ kaSup' = "gaveUp" /\ kaCancelled' = TRUE
       \/ kaCancelled /\ kaSup' = "stopped" /\ UNCHANGED kaCancelled
    /\ UNCHANGED <<kaMode, trackVars, kaPc, kaIdle, kaCtx, kaFails>>

HelperExits ==
    /\ kaSup = "up" /\ ~kaCancelled /\ kaFails < MaxFails /\ kaFails' = kaFails + 1
    /\ kaSup' = "backoff" /\ UNCHANGED <<kaMode, trackVars, kaPc, kaCancelled, kaIdle, kaCtx>>

BackoffOver ==
    /\ kaSup = "backoff" /\ kaSup' = IF kaCancelled THEN "stopped" ELSE "starting"
    /\ UNCHANGED <<kaMode, trackVars, kaPc, kaCancelled, kaFails, kaIdle, kaCtx>>

(* The context of the command kills the helper; supervise returns.         *)
HelperKilled ==
    /\ kaSup = "up" /\ kaCancelled /\ kaSup' = "stopped"
    /\ UNCHANGED <<kaMode, trackVars, kaPc, kaCancelled, kaFails, kaIdle, kaCtx>>

Shutdown ==
    /\ ~kaCtx /\ kaCtx' = TRUE /\ kaCancelled' = TRUE
    /\ UNCHANGED <<kaMode, trackVars, kaPc, kaSup, kaFails, kaIdle>>

Keeper == FirstLook \/ WaitPoll \/ HoldPoll \/ HoldCancelled \/ HoldEnds \/ AlwaysEnds \/ WaitCancelled
Supervisor == HelperStarts \/ BackoffOver \/ HelperKilled

Next ==
    \/ \E r \in Requests : RequestBegins(r) \/ RequestLeaves(r) \/ RequestEnds(r)
    \/ Keeper \/ Supervisor \/ HelperExits \/ Shutdown

(* The two goroutines run and tickers tick; requests need not end.         *)
Fairness == WF_vars(Keeper) /\ WF_vars(Supervisor)
Spec == Init /\ [][Next]_vars /\ Fairness

TypeOK == /\ kaCount \in 0..2 /\ kaLast \in 0..Recent /\ kaIdle \in 0..Linger
          /\ kaPc \in {"check", "waiting", "holding", "draining", "ended"}
          /\ kaSup \in {"none", "starting", "up", "backoff", "gaveUp", "stopped"}

(* A request that is served, or was within the recent window, is seen as   *)
(* activity at every instant, the two stores of its exit included: no poll *)
(* can fall into a gap between them.                                       *)
UseIsSeen == kaQuiet < Recent => Active

LingersAcrossGapsStep == (kaPc = "holding" /\ kaPc' = "draining" /\ ~kaCancelled) => kaQuiet' >= Linger

(* On demand the host is let go only after no request was served for the   *)
(* whole linger, unless the gateway ends or the helper cannot be had.      *)
LingersAcrossGaps == [][LingersAcrossGapsStep]_vars

(* While the keeper watches for activity, and after it has ended, no       *)
(* helper of an earlier hold is left running or about to be restarted.     *)
NoStrayHelper == kaPc \in {"check", "waiting", "ended"} => kaSup \notin {"starting", "up", "backoff"}

(* Use that goes on is answered by a helper, or by the discovery that      *)
(* there is none.                                                          *)
HeldWhileUsed == (kaPc = "waiting" /\ Active) ~> (kaSup \in {"up", "gaveUp"} \/ ~Active \/ kaCtx)

(* When requests end for good, the helper is killed and the host may sleep. *)
SleepsWhenQuiet == (kaMode = "on_demand" /\ <>[](~Active)) => <>[](kaSup # "up")
=============================================================================
