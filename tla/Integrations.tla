---------------------------- MODULE Integrations ----------------------------
(***************************************************************************)
(* The registry of third-party integrations (integration/service.go,       *)
(* store.go, health.go, proxy.go, middleware.go).  A request's API key is  *)
(* compared with the bcrypt hashes of the enabled rows and the match is    *)
(* remembered in tokenCache, which every disabling, deletion and rotation  *)
(* clears; a health checker probes the rows and the proxy refuses the      *)
(* ones it found unhealthy.                                                *)
(***************************************************************************)
EXTENDS Naturals, FiniteSets, Sequences

CONSTANTS
    Ids,        \* Register calls, all for one name and route prefix
    MaxKeys,    \* bound: API keys issued
    Callers,    \* concurrent Verify calls
    MaxAdmin,   \* bound: operations of the administrator
    MaxVerify,  \* bound: Verify calls
    Probed      \* bound: integrations the health checker looks at

VARIABLES
    inRow,      \* inRow[i]: the integrations row [there, on, key, health]
    inReg,      \* inReg[i]: the Register call is "no", "checked" or "done"
    inCache,    \* tokenCache: set of <<key, id>>
    inKeys,     \* keys issued so far, each one newer than the last
    inOwner,    \* inOwner[k]: the integration key k was issued to
    inClear,    \* operations between their statement and clearTokenCache
    inVer,      \* inVer[c]: a Verify call
    inVers, inOps,
    inCross,    \* history: keys that were being verified when they lost their row
    inHeld,     \* history: [c -> ids that were enabled at some time of the call]
    inFails,    \* HealthChecker.failures
    inProbe,    \* the probe under way [i, prev] or NoProbe
    inFixed,    \* the integrations answer healthy from now on
    inDown,     \* history: failed answers since the last healthy one, by id
    inSaid,     \* history: the last answer of the integration
    inTold      \* history: the status the last health_changed event named

vars == <<inRow, inReg, inCache, inKeys, inOwner, inClear, inVer, inVers, inOps, inCross, inHeld,
          inFails, inProbe, inFixed, inDown, inSaid, inTold>>
health == <<inFails, inProbe, inFixed, inDown, inSaid, inTold>>
verify == <<inVer, inVers>>
registry == <<inRow, inReg, inKeys, inOwner, inOps>>

NoRow == [there |-> FALSE, on |-> FALSE, key |-> 0, health |-> "unknown"]
Waiting == [pc |-> "idle", key |-> 0, id |-> 0, ok |-> FALSE]
NoProbe == [i |-> 0, prev |-> "unknown"]

Init ==
    /\ inRow = [i \in Ids |-> NoRow] /\ inReg = [i \in Ids |-> "no"]
    /\ inCache = {} /\ inKeys = 0 /\ inOwner = <<>> /\ inClear = {}
    /\ inVer = [c \in Callers |-> Waiting] /\ inVers = 0 /\ inOps = 0
    /\ inCross = {} /\ inHeld = [c \in Callers |-> {}]
    /\ inFails = [i \in Ids |-> 0] /\ inProbe = NoProbe /\ inFixed = FALSE
    /\ inDown = [i \in Ids |-> 0] /\ inSaid = [i \in Ids |-> "none"] /\ inTold = [i \in Ids |-> "unknown"]

Enabled(rows) == {i \in Ids : rows[i].there /\ rows[i].on}

(* What the calls under way have seen enabled, and the keys being verified *)
(* that a row gives up with this statement.                                *)
Noted(rows) ==
    /\ inHeld' = [c \in Callers |-> IF inVer[c].pc = "idle" THEN inHeld[c] ELSE inHeld[c] \union Enabled(rows)]
    /\ inCross' = inCross \union {k \in 1..inKeys : /\ inRow[inOwner[k]].key = k
                                                   /\ rows[inOwner[k]].key # k
                                                   /\ \E c \in Callers : inVer[c].pc # "idle" /\ inVer[c].key = k}

Registered(i, rows) ==
    /\ inRow' = rows /\ inKeys' = inKeys + 1 /\ inOwner' = Append(inOwner, i)
    /\ Noted(rows)

(* Register: GetByPrefix, ...                                              *)
CheckPrefix(i) ==
    /\ inReg[i] = "no" /\ \A j \in Ids : ~inRow[j].there
    /\ inReg' = [inReg EXCEPT ![i] = "checked"]
    /\ UNCHANGED <<inRow, inCache, inKeys, inOwner, inClear, inOps, inCross, inHeld, verify, health>>

(* Mutant of Insert: route_prefix has no UNIQUE constraint.                *)
InsertAny(i) ==
    /\ inReg[i] = "checked" /\ inKeys < MaxKeys
    /\ inReg' = [inReg EXCEPT ![i] = "done"]
    /\ Registered(i, [inRow EXCEPT ![i] = [there |-> TRUE, on |-> TRUE, key |-> inKeys + 1, health |-> "unknown"]])
    /\ UNCHANGED <<inCache, inClear, inOps, verify, health>>

(* ... and Insert, which the UNIQUE columns may refuse.                    *)
Insert(i) ==
    /\ inReg[i] = "checked" /\ inKeys < MaxKeys
    /\ inReg' = [inReg EXCEPT ![i] = "done"]
    /\ \/ /\ \A j \in Ids : ~inRow[j].there
          /\ Registered(i, [inRow EXCEPT ![i] = [there |-> TRUE, on |-> TRUE, key |-> inKeys + 1, health |-> "unknown"]])
       \/ /\ \E j \in Ids : inRow[j].there
          /\ UNCHANGED <<inRow, inKeys, inOwner, inCross, inHeld>>
    /\ UNCHANGED <<inCache, inClear, inOps, verify, health>>

Admin(i) == inRow[i].there /\ inOps < MaxAdmin /\ inOps' = inOps + 1

(* Service.Update of the enabled flag: a disabling clears the cache next.  *)
Update(i) ==
    LET on == ~inRow[i].on  rows == [inRow EXCEPT ![i].on = on] IN
    /\ Admin(i) /\ inRow' = rows /\ Noted(rows)
    /\ inClear' = IF on THEN inClear ELSE inClear \union {<<"update", i>>}
    /\ UNCHANGED <<inReg, inCache, inKeys, inOwner, verify, health>>

(* Service.Delete.                                                         *)
Delete(i) ==
    LET rows == [inRow EXCEPT ![i] = NoRow] IN
    /\ Admin(i) /\ inRow' = rows /\ Noted(rows)
    /\ inClear' = inClear \union {<<"delete", i>>}
    /\ UNCHANGED <<inReg, inCache, inKeys, inOwner, verify, health>>

(* Mutant of RotateKey: the cache is not cleared.                          *)
RotateKeyKeeps(i) ==
    /\ Admin(i) /\ inKeys < MaxKeys
    /\ Registered(i, [inRow EXCEPT ![i].key = inKeys + 1])
    /\ UNCHANGED <<inReg, inCache, inClear, verify, health>>

(* Service.RotateKey: UpdateAPIKey writes the new hash, ...                *)
RotateKey(i) ==
    /\ Admin(i) /\ inKeys < MaxKeys
    /\ Registered(i, [inRow EXCEPT ![i].key = inKeys + 1])
    /\ inClear' = inClear \union {<<"rotate", i>>}
    /\ UNCHANGED <<inReg, inCache, verify, health>>

(* ... and clearTokenCache replaces the whole map.                         *)
ClearTokenCache(op) ==
    /\ op \in inClear /\ inClear' = inClear \ {op} /\ inCache' = {}
    /\ UNCHANGED <<registry, inCross, inHeld, verify, health>>

(* Verify reads the cache, ...                                             *)
VerifyBegin(c) ==
    /\ inVer[c].pc = "idle" /\ inVers < MaxVerify /\ inVers' = inVers + 1
    /\ \E k \in 1..inKeys :
          LET hit == {p \in inCache : p[1] = k} IN
          inVer' = [inVer EXCEPT ![c] =
             IF hit # {} THEN [pc |-> "hit", key |-> k, id |-> (CHOOSE p \in hit : TRUE)[2], ok |-> FALSE]
             ELSE [pc |-> "scan", key |-> k, id |-> 0, ok |-> FALSE]]
    /\ inHeld' = [inHeld EXCEPT ![c] = Enabled(inRow)]
    /\ UNCHANGED <<registry, inCache, inClear, inCross, health>>

Done(v, ok) == [v EXCEPT !.pc = "idle", !.ok = ok]

(* Mutant of VerifyHit: the row is not read again.                         *)
VerifyHitBlind(c) ==
    /\ inVer[c].pc = "hit" /\ inVer' = [inVer EXCEPT ![c] = Done(inVer[c], TRUE)]
    /\ UNCHANGED <<registry, inCache, inClear, inVers, inCross, inHeld, health>>

(* ... a hit is trusted when the row is there and enabled, and forgotten   *)
(* otherwise; ...                                                          *)
VerifyHit(c) ==
    /\ inVer[c].pc = "hit"
    /\ IF inVer[c].id \in Enabled(inRow)
       THEN /\ inVer' = [inVer EXCEPT ![c] = Done(inVer[c], TRUE)] /\ UNCHANGED inCache
       ELSE /\ inVer' = [inVer EXCEPT ![c].pc = "scan"]
            /\ inCache' = {p \in inCache : p[1] # inVer[c].key}
    /\ UNCHANGED <<registry, inClear, inVers, inCross, inHeld, health>>

(* ... a miss is looked up among the enabled rows by hash, ...             *)
VerifyScan(c) ==
    LET match == {i \in Enabled(inRow) : inRow[i].key = inVer[c].key} IN
    /\ inVer[c].pc = "scan"
    /\ inVer' = [inVer EXCEPT ![c] = IF match = {} THEN Done(inVer[c], FALSE)
                                     ELSE [inVer[c] EXCEPT !.pc = "cache", !.id = CHOOSE i \in match : TRUE]]
    /\ UNCHANGED <<registry, inCache, inClear, inVers, inCross, inHeld, health>>

(* ... and the match is remembered under a lock of its own.                *)
VerifyCache(c) ==
    /\ inVer[c].pc = "cache"
    /\ inCache' = {p \in inCache : p[1] # inVer[c].key} \union {<<inVer[c].key, inVer[c].id>>}
    /\ inVer' = [inVer EXCEPT ![c] = Done(inVer[c], TRUE)]
    /\ UNCHANGED <<registry, inClear, inVers, inCross, inHeld, health>>

Verify(c) == VerifyBegin(c) \/ VerifyHit(c) \/ VerifyScan(c) \/ VerifyCache(c)

(* Mutant of Tick: a row found unhealthy is not probed again.              *)
TickSkips(i) ==
    /\ inProbe = NoProbe /\ i \in Enabled(inRow) \intersect Probed /\ inRow[i].health # "unhealthy"
    /\ inProbe' = [i |-> i, prev |-> inRow[i].health]
    /\ UNCHANGED <<registry, inCache, inClear, inCross, inHeld, verify, inFails, inFixed, inDown, inSaid, inTold>>

(* HealthChecker.Run probes the rows of a tick, and a new one, from one    *)
(* goroutine: tick and probeFromEvent read the row, ...                    *)
Tick(i) ==
    /\ inProbe = NoProbe /\ i \in Enabled(inRow) \intersect Probed
    /\ inProbe' = [i |-> i, prev |-> inRow[i].health]
    /\ UNCHANGED <<registry, inCache, inClear, inCross, inHeld, verify, inFails, inFixed, inDown, inSaid, inTold>>

(* Mutant of bumpFail: the first failure counts as two.                    *)
BumpFailAtOnce(n) == "unhealthy"

(* bumpFail: the status after n failures.                                  *)
BumpFail(n) == IF n >= 2 THEN "unhealthy" ELSE "degraded"

(* ... probe turns the answer into a status, ...                           *)
Next1(i, answer) ==
    CASE answer = "fail"      -> BumpFail(inFails[i] + 1)
      [] answer = "healthy"   -> "healthy"
      [] answer = "degraded"  -> "degraded"
      [] answer = "unhealthy" -> "unhealthy"

(* Mutant of SetHealth: the event is published although the write failed.  *)
SetHealthTells(i, prev, next) ==
    /\ \/ inRow' = [inRow EXCEPT ![i].health = IF inRow[i].there THEN next ELSE "unknown"]
       \/ UNCHANGED inRow
    /\ inTold' = IF prev # next THEN [inTold EXCEPT ![i] = next] ELSE inTold

(* ... which SetHealth writes and, if it changed, publishes.               *)
SetHealth(i, prev, next) ==
    \/ /\ inRow' = [inRow EXCEPT ![i].health = IF inRow[i].there THEN next ELSE "unknown"]
       /\ inTold' = IF prev # next THEN [inTold EXCEPT ![i] = next] ELSE inTold
    \/ UNCHANGED <<inRow, inTold>>

Probe(answer) ==
    LET i == inProbe.i IN
    /\ inProbe # NoProbe /\ inProbe' = NoProbe
    /\ inFixed => answer = "healthy"
    /\ inFails' = CASE answer = "fail" -> [inFails EXCEPT ![i] = IF @ < 2 THEN @ + 1 ELSE @]
                    [] answer = "healthy" -> [inFails EXCEPT ![i] = 0]
                    [] OTHER -> inFails
    /\ inDown' = CASE answer = "fail" -> [inDown EXCEPT ![i] = IF @ < 2 THEN @ + 1 ELSE @]
                   [] answer = "healthy" -> [inDown EXCEPT ![i] = 0]
                   [] OTHER -> inDown
    /\ inSaid' = [inSaid EXCEPT ![i] = answer]
    /\ SetHealth(i, inProbe.prev, Next1(i, answer))
    /\ UNCHANGED <<inReg, inKeys, inOwner, inOps, inCache, inClear, inCross, inHeld, inFixed, verify>>

(* The integrations are repaired.                                          *)
Fix ==
    /\ Probed # {} /\ ~inFixed /\ inFixed' = TRUE
    /\ UNCHANGED <<registry, inCache, inClear, inCross, inHeld, verify, inFails, inProbe, inDown, inSaid, inTold>>

Answers == {"fail", "healthy", "degraded", "unhealthy"}

Next ==
    \/ \E i \in Ids : CheckPrefix(i) \/ Insert(i) \/ Update(i) \/ Delete(i) \/ RotateKey(i) \/ Tick(i)
    \/ \E op \in inClear : ClearTokenCache(op)
    \/ \E c \in Callers : Verify(c)
    \/ Fix \/ \E a \in Answers : Probe(a)

Spec == Init /\ [][Next]_vars

(* The ticker goes on, and not every write of a status fails.              *)
Recorded == Probe("healthy") /\ inRow'[inProbe.i].health = "healthy"
FairSpec == Spec /\ \A i \in Ids : WF_vars(Tick(i)) /\ WF_vars(\E a \in Answers : Probe(a)) /\ SF_vars(Recorded)

TypeOK ==
    /\ \A i \in Ids : inRow[i].health \in {"unknown", "healthy", "degraded", "unhealthy"}
    /\ inKeys = Len(inOwner) /\ inCache \subseteq ((1..inKeys) \X Ids)

(* Two registrations of one prefix that both found it free leave one row:  *)
(* proxied requests of the prefix have a single target.                    *)
OneTarget == Cardinality({i \in Ids : inRow[i].there}) <= 1

(* Verify answers with an integration that was registered and enabled at   *)
(* some moment of the call, whatever disabling or deletion crosses it.     *)
VerifiedWasEnabled == \A c \in Callers : inVer[c].pc = "idle" /\ inVer[c].ok => inVer[c].id \in inHeld[c]

(* A key that was replaced is in the cache only while the clearing is      *)
(* outstanding, or when a Verify of it was under way at the replacement.   *)
OldKeyForgotten ==
    inClear = {} => \A p \in inCache : inRow[p[2]].key = p[1] \/ p[1] \in inCross

(* What one step may do, for UnhealthyEarned.                              *)
UnhealthyEarnedStep ==
    \A i \in Ids : inRow'[i].health = "unhealthy" /\ inRow[i].health # "unhealthy"
        => inDown'[i] >= 2 \/ inSaid'[i] = "unhealthy"

(* An integration is taken out of the proxy only after it said so itself   *)
(* or failed two probes since it last answered healthy.                    *)
UnhealthyEarned == [][UnhealthyEarnedStep]_vars

(* What the last health_changed event said of a row is its status.         *)
EventsTellStatus == \A i \in Ids : inRow[i].there => inTold[i] = inRow[i].health

(* An integration that was taken out of the proxy and is well again comes  *)
(* back, unless the administrator disables or deletes it.                  *)
BackInService ==
    \A i \in Ids : (inFixed /\ i \in Enabled(inRow)) ~> (inRow[i].health = "healthy" \/ i \notin Enabled(inRow))

(* The comment above HealthChecker: two consecutive failures.              *)
Consecutive ==
    [][\A i \in Ids : inRow'[i].health = "unhealthy" /\ inRow[i].health # "unhealthy" /\ inSaid'[i] = "fail"
          => inSaid[i] = "fail"]_vars
=============================================================================
