-------------------------- MODULE RateLimitFailover -------------------------
(***************************************************************************)
(* Automatic failover of Claude sessions (session/rate_limit_failover.go,  *)
(* rate_limit_scanner.go, cliacct/throttle.go and the account choice of    *)
(* cliacct/service.go).  Every run of a session has a pump that scans its  *)
(* own window of output; marking, listing, choosing and switching are      *)
(* separate steps of the call that pump makes, and the call of a run that  *)
(* an operator has replaced meanwhile goes on.  A switch is one step here, *)
(* with each of its outcomes: SessionManager has its steps.  The banner    *)
(* tells a time of day, so hours are counted modulo a day.                 *)
(***************************************************************************)
EXTENDS Naturals, FiniteSets, Sequences

CONSTANTS
    Sessions,     \* claude sessions
    Accounts,     \* enabled accounts 1..n, ordered by name; 0 is ~/.claude
    Day,          \* hours of a day
    Lengths,      \* hours a limit may last
    MaxHours,     \* bound: hours that pass
    MaxHits,      \* bound: limits reached
    MaxCalls      \* bound: failovers under way at once

VARIABLES
    flNow,        \* hours since the start
    flLimit,      \* flLimit[a]: hour until which the provider really refuses a
    flUntil,      \* ThrottleStore: hour until which a is held back, 0 none
    flRow,        \* flRow[s]: claude_account_id and state of the row
    flRun,        \* flRun[s]: the live run: ClaudeAccountID and the hours told
                  \* by the banners in its rlWindow, oldest first
    flCalls,      \* calls of tryRateLimitFailover: locals and step; own: the run
                  \* whose pump makes the call is the live one
    flHits,
    flStale       \* history: accounts marked from a banner whose hour had come

vars == <<flNow, flLimit, flUntil, flRow, flRun, flCalls, flHits, flStale>>
provider == <<flNow, flLimit, flHits>>

Bindings == Accounts \union {0}
NoRun == [live |-> FALSE, acct |-> 0, window |-> <<>>]
Throttled(a) == flNow < flUntil[a]

(* Rows that are not terminal count as load.                               *)
Load(a) == Cardinality({s \in Sessions : flRow[s].state = "running" /\ flRow[s].acct = a})
LeastLoaded(a, v) == a \in v /\ \A b \in v : Load(a) < Load(b) \/ (Load(a) = Load(b) /\ a <= b)

Init ==
    /\ flNow = 0 /\ flHits = 0 /\ flStale = {} /\ flCalls = {}
    /\ flLimit = [a \in Bindings |-> 0] /\ flUntil = [a \in Accounts |-> 0]
    /\ flRow = [s \in Sessions |-> [acct |-> 0, state |-> "none"]]
    /\ flRun = [s \in Sessions |-> NoRun]

HourPasses ==
    /\ flNow < MaxHours /\ flNow' = flNow + 1
    /\ UNCHANGED <<flLimit, flUntil, flRow, flRun, flCalls, flHits, flStale>>

(* The run of s is over, or another takes its place: a call that its pump  *)
(* is making goes on.                                                      *)
Disowned(s, calls) == {[c EXCEPT !.own = @ /\ c.sess # s] : c \in calls}

Spawn(s, a) == flRun' = [flRun EXCEPT ![s] = [live |-> TRUE, acct |-> a, window |-> <<>>]]

Stopped(s) == flRun' = [flRun EXCEPT ![s] = NoRun] /\ flRow' = [flRow EXCEPT ![s].state = "ended"]

(* Create with the account the request pins, or with the one that          *)
(* PickAutoAssignClaudeAccount finds: the least loaded of at least two     *)
(* that are not held back, and none otherwise.                             *)
AutoAssigned(a) ==
    LET v == {b \in Accounts : ~Throttled(b)} IN
    IF Cardinality(v) < 2 THEN a = 0 ELSE LeastLoaded(a, v)

Create(s, a) ==
    /\ flRow[s].state = "none" /\ (a # 0 \/ AutoAssigned(a))
    /\ Spawn(s, a) /\ flRow' = [flRow EXCEPT ![s] = [acct |-> a, state |-> "running"]]
    /\ UNCHANGED <<provider, flUntil, flCalls, flStale>>

Start(s) ==
    /\ flRow[s].state = "ended"
    /\ Spawn(s, flRow[s].acct) /\ flRow' = [flRow EXCEPT ![s].state = "running"]
    /\ UNCHANGED <<provider, flUntil, flCalls, flStale>>

(* The CLI exits or is stopped.                                            *)
RunEnds(s) ==
    /\ flRun[s].live /\ Stopped(s) /\ flCalls' = Disowned(s, flCalls)
    /\ UNCHANGED <<provider, flUntil, flStale>>

(* The pump of the live run is reading, not in a call.                     *)
Reading(s) == flRun[s].live /\ \A c \in flCalls : c.own => c.sess # s

(* The account of the run is, or becomes, exhausted, and the CLI says when *)
(* it will be free again.  The window keeps the last 4 KiB of output, here *)
(* two banners that differ: one more like the last changes no scan.        *)
BannerPrinted(s) ==
    LET a == flRun[s].acct IN
    /\ Reading(s) /\ Len(flRun[s].window) < 2
    /\ \/ flLimit[a] > flNow /\ UNCHANGED <<flLimit, flHits>>
       \/ /\ flLimit[a] <= flNow /\ flHits < MaxHits /\ flHits' = flHits + 1
          /\ \E h \in Lengths : flLimit' = [flLimit EXCEPT ![a] = flNow + h]
    /\ flLimit'[a] \notin {flRun[s].window[i] : i \in 1..Len(flRun[s].window)}
    /\ flRun' = [flRun EXCEPT ![s].window = Append(@, flLimit'[a])]
    /\ UNCHANGED <<flNow, flUntil, flRow, flCalls, flStale>>

(* Other output pushes the oldest banner out.                              *)
WindowSlides(s) ==
    /\ Reading(s) /\ flRun[s].window # <<>> /\ flRun' = [flRun EXCEPT ![s].window = Tail(@)]
    /\ UNCHANGED <<provider, flUntil, flRow, flCalls, flStale>>

(* Mutant of ParseResetTime: always tomorrow.                              *)
ParseResetTimeTomorrow(tod) == (flNow - (flNow % Day)) + tod + Day

(* parseResetTime: today at that hour, or tomorrow when it is past.        *)
ParseResetTime(tod) ==
    LET today == (flNow - (flNow % Day)) + tod
    IN  IF today > flNow THEN today ELSE today + Day

(* Mutant of MarkThrottled: the last banner read wins.                     *)
MarkThrottledLast(a, until) == [flUntil EXCEPT ![a] = until]

(* A mark is only ever extended.                                           *)
MarkThrottled(a, until) == [flUntil EXCEPT ![a] = IF @ > until THEN @ ELSE until]

(* The scan of a window: the first banner in it counts.  The default       *)
(* account and an account that is already held back end it.                *)
Scan(s) ==
    LET a == flRun[s].acct  hour == Head(flRun[s].window) IN
    /\ Reading(s) /\ flRun[s].window # <<>> /\ a # 0 /\ ~Throttled(a) /\ Cardinality(flCalls) < MaxCalls
    /\ flCalls' = flCalls \union {[sess |-> s, own |-> TRUE, acct |-> a, reset |-> ParseResetTime(hour % Day),
                                   pc |-> "found", excluded |-> {}, to |-> 0, late |-> {}]}
    /\ flStale' = IF hour <= flNow THEN flStale \union {a} ELSE flStale
    /\ UNCHANGED <<provider, flUntil, flRow, flRun>>

(* The check and the mark are two calls: another pump may mark in between. *)
Mark(c) ==
    /\ c.pc = "found" /\ flUntil' = MarkThrottled(c.acct, c.reset)
    /\ flCalls' = {[d EXCEPT !.late = IF d.pc \in {"listed", "picked"} THEN @ \union {c.acct} ELSE @] : d \in flCalls \ {c}}
                    \union {[c EXCEPT !.pc = "marked"]}
    /\ UNCHANGED <<provider, flRow, flRun, flStale>>

(* Mutant of Excluded: only the account that is left is avoided.           *)
ExcludedSelf(a) == {a}

Excluded(a) == {b \in Accounts : Throttled(b)} \union {a}

Returns(c) == flCalls' = flCalls \ {c}
Continues(c, d) == flCalls' = (flCalls \ {c}) \union {d}

(* pickClaudeAccount takes the accounts that are held back, gives up when  *)
(* no other is left, ...                                                   *)
ListThrottled(c) ==
    LET x == Excluded(c.acct) IN
    /\ c.pc = "marked"
    /\ IF Accounts \subseteq x THEN Returns(c) ELSE Continues(c, [c EXCEPT !.pc = "listed", !.excluded = x])
    /\ UNCHANGED <<provider, flUntil, flRow, flRun, flStale>>

(* ... and asks the database for the least loaded of the others.           *)
PickLeastLoaded(c) ==
    /\ c.pc = "listed"
    /\ \E a \in Accounts : LeastLoaded(a, Accounts \ c.excluded) /\ Continues(c, [c EXCEPT !.pc = "picked", !.to = a])
    /\ UNCHANGED <<provider, flUntil, flRow, flRun, flStale>>

(* The list of accounts, the choice, or the switch before it has stopped   *)
(* the run fails: it is logged, and the session stays where it is.         *)
GiveUp(c) ==
    /\ c.pc \in {"marked", "listed", "picked"} /\ Returns(c)
    /\ UNCHANGED <<provider, flUntil, flRow, flRun, flStale>>

CurrentAccount(s) == IF flRun[s].live THEN flRun[s].acct ELSE flRow[s].acct

(* SwitchClaudeAccount: nothing to do; or the run is stopped and a spawn   *)
(* on the target follows, which may fail, as may the update of the row.    *)
SwitchTo(s, a, calls) ==
    \/ CurrentAccount(s) = a /\ UNCHANGED <<flRow, flRun>> /\ flCalls' = calls
    \/ CurrentAccount(s) # a /\ Stopped(s) /\ flCalls' = Disowned(s, calls)
    \/ /\ CurrentAccount(s) # a /\ Spawn(s, a) /\ flCalls' = Disowned(s, calls)
       /\ \E kept \in {a, flRow[s].acct} : flRow' = [flRow EXCEPT ![s] = [acct |-> kept, state |-> "running"]]

(* The pump switches its session; the window of the run it served goes.    *)
SwitchAccount(c) ==
    /\ c.pc = "picked" /\ SwitchTo(c.sess, c.to, flCalls \ {c})
    /\ UNCHANGED <<provider, flUntil, flStale>>

(* The operator switches by hand.  A failover under way may undo it.       *)
OperatorSwitches(s, a) ==
    /\ flRow[s].state # "none" /\ SwitchTo(s, a, flCalls)
    /\ UNCHANGED <<provider, flUntil, flStale>>

(* A restart forgets the marks, which live in memory only.                 *)
GatewayRestarts ==
    /\ flUntil' = [a \in Accounts |-> 0] /\ flCalls' = {} /\ flRun' = [s \in Sessions |-> NoRun]
    /\ flRow' = [s \in Sessions |-> [flRow[s] EXCEPT !.state = IF @ = "running" THEN "ended" ELSE @]]
    /\ UNCHANGED <<provider, flStale>>

SessionStep(s) ==
    \/ Start(s) \/ RunEnds(s) \/ BannerPrinted(s) \/ WindowSlides(s) \/ Scan(s)
    \/ \E a \in Bindings : Create(s, a) \/ OperatorSwitches(s, a)
CallStep(c) == Mark(c) \/ ListThrottled(c) \/ PickLeastLoaded(c) \/ GiveUp(c) \/ SwitchAccount(c)

Next ==
    \/ HourPasses \/ GatewayRestarts
    \/ \E s \in Sessions : SessionStep(s)
    \/ \E c \in flCalls : CallStep(c)

Spec == Init /\ [][Next]_vars

Call == [sess : Sessions, own : BOOLEAN, acct : Accounts, reset : Nat, pc : {"found", "marked", "listed", "picked"},
         excluded : SUBSET Accounts, to : Bindings, late : SUBSET Accounts]
TypeOK ==
    /\ flNow \in Nat /\ flHits \in Nat /\ flLimit \in [Bindings -> Nat] /\ flUntil \in [Accounts -> Nat]
    /\ flRow \in [Sessions -> [acct : Bindings, state : {"none", "running", "ended"}]]
    /\ flRun \in [Sessions -> [live : BOOLEAN, acct : Bindings, window : Seq(Nat)]]
    /\ flCalls \subseteq Call /\ flStale \subseteq Accounts

(* An account is held back no longer than its provider refuses it, however *)
(* many sessions read its banner and whatever has become of them since.    *)
(* Excepted is a banner that is still in the window after its hour has     *)
(* come: it is taken for tomorrow's.                                       *)
HeldOnlyWhileLimited == \A a \in Accounts \ flStale : Throttled(a) => flUntil[a] <= flLimit[a]

NeverShortenedStep == ~GatewayRestarts => \A a \in Accounts : flUntil'[a] >= flUntil[a]

(* A mark never becomes shorter while the gateway runs, whichever of two   *)
(* sessions on one account reports last.                                   *)
NeverShortened == [][NeverShortenedStep]_vars

MovesToFreeStep ==
    \A c \in flCalls : (SwitchAccount(c) /\ flRun'[c.sess].live)
          => ~Throttled(c.to) \/ c.to \in c.late \/ CurrentAccount(c.sess) = c.to

(* Failover does not lead to an account known to be exhausted, unless it   *)
(* was marked between the listing and the switch.                          *)
MovesToFree == [][MovesToFreeStep]_vars
=============================================================================
