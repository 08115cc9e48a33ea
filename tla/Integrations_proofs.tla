------------------------ MODULE Integrations_proofs -------------------------
(***************************************************************************)
(* What the registry of integrations guarantees for any number of          *)
(* registrations, callers, keys and operations of the administrator: one   *)
(* target for a prefix, no answer that was not true during the call, and   *)
(* no replaced key left in the cache but those a Verify crossed.           *)
(*                                                                         *)
(* A Verify holds what it read while rows change under it.  The invariant  *)
(* says what it may rely on: it has noted every row enabled since it       *)
(* began, and a match it is about to cache is the row's key still, or was  *)
(* replaced under it.                                                      *)
(***************************************************************************)
EXTENDS Integrations, FiniteSetTheorems, TLAPS

Row == [there : BOOLEAN, on : BOOLEAN, key : Nat, health : {"unknown", "healthy", "degraded", "unhealthy"}]
Call == [pc : {"idle", "hit", "scan", "cache"}, key : Nat, id : Ids \union {0}, ok : BOOLEAN]

RowsTyped ==
    /\ inRow \in [Ids -> Row]
    /\ inKeys \in Nat /\ inOwner \in Seq(Ids) /\ Len(inOwner) = inKeys
    /\ inCache \subseteq ((1..inKeys) \X Ids)

CallsTyped == inVer \in [Callers -> Call] /\ inHeld \in [Callers -> SUBSET Ids]

(* The UNIQUE columns: one row.                                            *)
OneRow == \A i, j \in Ids : inRow[i].there /\ inRow[j].there => i = j

(* A row holds a key issued to it; no row, no key.                         *)
KeysOwned ==
    \A i \in Ids : IF inRow[i].there THEN inRow[i].key \in 1..inKeys /\ inOwner[inRow[i].key] = i
                                     ELSE inRow[i].key = 0

(* A cached key was issued to the integration it is cached for.            *)
CacheOwned == \A p \in inCache : inOwner[p[1]] = p[2]

(* A call under way verifies a key that was issued, and has noted all that *)
(* is enabled.                                                             *)
CallsNote ==
    \A c \in Callers : inVer[c].pc # "idle" => inVer[c].key \in 1..inKeys /\ Enabled(inRow) \subseteq inHeld[c]

(* What a scan matched was enabled during the call, and is its key still   *)
(* unless the replacement crossed the call.                                *)
MatchHolds ==
    \A c \in Callers : inVer[c].pc = "cache" =>
        /\ inVer[c].id \in inHeld[c] /\ inOwner[inVer[c].key] = inVer[c].id
        /\ inRow[inVer[c].id].key = inVer[c].key \/ inVer[c].key \in inCross

IInv ==
    /\ RowsTyped /\ CallsTyped /\ OneRow /\ KeysOwned /\ CacheOwned /\ CallsNote /\ MatchHolds
    /\ VerifiedWasEnabled /\ OldKeyForgotten

-----------------------------------------------------------------------------
(* At first nothing is registered or cached.                               *)
LEMMA InitIInv == Init => IInv
<1> SUFFICES ASSUME Init PROVE IInv
  OBVIOUS
<1>1. /\ inRow = [i \in Ids |-> NoRow] /\ inCache = {} /\ inKeys = 0 /\ inOwner = <<>>
      /\ inVer = [c \in Callers |-> Waiting] /\ inHeld = [c \in Callers |-> {}]
  BY DEF Init
<1>2. NoRow \in Row /\ NoRow.there = FALSE /\ NoRow.key = 0
  BY DEF NoRow, Row
<1>3. Waiting \in Call /\ Waiting.pc = "idle" /\ Waiting.ok = FALSE
  BY DEF Waiting, Call
<1>4. RowsTyped /\ CacheOwned /\ OldKeyForgotten
  BY <1>1, <1>2 DEF RowsTyped, CacheOwned, OldKeyForgotten
<1>5. \A i \in Ids : ~inRow[i].there /\ inRow[i].key = 0
  BY <1>1, <1>2
<1>6. OneRow /\ KeysOwned
  BY <1>5 DEF OneRow, KeysOwned
<1>7. \A c \in Callers : inVer[c].pc = "idle" /\ ~inVer[c].ok
  BY <1>1, <1>3
<1>8. CallsTyped /\ CallsNote /\ MatchHolds /\ VerifiedWasEnabled
  BY <1>1, <1>3, <1>7 DEF CallsTyped, CallsNote, MatchHolds, VerifiedWasEnabled
<1> QED
  BY <1>4, <1>6, <1>8 DEF IInv

-----------------------------------------------------------------------------
(* A step that leaves rows, keys, cache and calls alone.                   *)
LEMMA Quiet ==
    ASSUME IInv, UNCHANGED <<inRow, inKeys, inOwner, inCache, inVer, inHeld, inCross, inClear>>
    PROVE  IInv'
  BY DEF IInv, RowsTyped, CallsTyped, OneRow, KeysOwned, CacheOwned, CallsNote, MatchHolds,
         VerifiedWasEnabled, OldKeyForgotten, Enabled

(* A statement that changes the rows, with what it notes for the calls     *)
(* under way: they stay sound, whatever the new rows are.                  *)
LEMMA RowsChange ==
    ASSUME IInv, NEW rows \in [Ids -> Row], inRow' = rows, Noted(rows), UNCHANGED inVer,
           inKeys' \in Nat, inKeys' >= inKeys, \A k \in 1..inKeys : inOwner'[k] = inOwner[k]
    PROVE  CallsTyped' /\ CallsNote' /\ MatchHolds' /\ VerifiedWasEnabled'
<1> USE DEF IInv
<1>1. Enabled(rows) \subseteq Ids
  BY DEF Enabled
<1>2. \A c \in Callers : inHeld'[c] = IF inVer[c].pc = "idle" THEN inHeld[c] ELSE inHeld[c] \union Enabled(rows)
  BY DEF Noted
<1>3. inHeld' \in [Callers -> SUBSET Ids]
  <2>1. \A c \in Callers : inHeld[c] \subseteq Ids
    BY DEF CallsTyped
  <2> QED
    BY <1>1, <2>1 DEF Noted
<1>4. CallsTyped'
  BY <1>3 DEF CallsTyped
<1>5. CallsNote'
  <2>1. Enabled(inRow)' = Enabled(rows)
    BY DEF Enabled
  <2>2. \A k \in 1..inKeys : k \in 1..inKeys'
    BY DEF RowsTyped
  <2> QED
    BY <1>2, <2>1, <2>2 DEF CallsNote
<1>6. VerifiedWasEnabled'
  BY <1>2 DEF VerifiedWasEnabled
<1>7. MatchHolds'
  <2> SUFFICES ASSUME NEW c \in Callers, inVer[c].pc = "cache"
               PROVE  /\ inVer[c].id \in inHeld'[c] /\ inOwner'[inVer[c].key] = inVer[c].id
                      /\ rows[inVer[c].id].key = inVer[c].key \/ inVer[c].key \in inCross'
    BY DEF MatchHolds
  <2> DEFINE k == inVer[c].key
  <2>1. /\ inVer[c].id \in inHeld[c] /\ inOwner[k] = inVer[c].id /\ k \in 1..inKeys
        /\ inRow[inOwner[k]].key = k \/ k \in inCross
    BY DEF MatchHolds, CallsNote
  <2>2. inRow[inOwner[k]].key = k /\ rows[inOwner[k]].key # k => k \in inCross'
    BY <2>1 DEF Noted
  <2>3. inCross \subseteq inCross'
    BY DEF Noted
  <2> QED
    BY <1>2, <2>1, <2>2, <2>3
<1> QED
  BY <1>4, <1>5, <1>6, <1>7

(* Insert: the UNIQUE columns refuse a second row; its key is new.         *)
LEMMA InsertStep == ASSUME IInv, NEW i \in Ids, Insert(i) PROVE IInv'
<1> DEFINE row == [there |-> TRUE, on |-> TRUE, key |-> inKeys + 1, health |-> "unknown"]
           rows == [inRow EXCEPT ![i] = row]
<1>1. CASE \A j \in Ids : ~inRow[j].there
  <2>1. inRow' = rows /\ inKeys' = inKeys + 1 /\ inOwner' = Append(inOwner, i) /\ Noted(rows)
        /\ UNCHANGED <<inCache, inClear, inVer>>
    BY <1>1, Zenon DEF Insert, Registered, verify
  <2>2. row \in Row /\ row.there = TRUE /\ row.key = inKeys + 1
    BY DEF Row, IInv, RowsTyped
  <2>3. rows \in [Ids -> Row] /\ rows[i] = row /\ \A j \in Ids : j # i => rows[j] = inRow[j]
    BY <2>2 DEF IInv, RowsTyped
  <2> HIDE DEF row, rows
  <2>4. /\ inKeys' \in Nat /\ inKeys' = inKeys + 1 /\ inOwner' \in Seq(Ids) /\ Len(inOwner') = inKeys'
        /\ \A k \in 1..inKeys : inOwner'[k] = inOwner[k]
        /\ inOwner'[inKeys + 1] = i
    BY <2>1 DEF IInv, RowsTyped
  <2>5. RowsTyped'
    BY <2>1, <2>3, <2>4 DEF IInv, RowsTyped
  <2>6. OneRow' /\ KeysOwned'
    BY <1>1, <2>1, <2>2, <2>3, <2>4 DEF IInv, RowsTyped, OneRow, KeysOwned
  <2>7. CacheOwned'
    BY <2>1, <2>4 DEF IInv, RowsTyped, CacheOwned
  <2>8. OldKeyForgotten'
    <3> SUFFICES ASSUME inClear' = {}, NEW p \in inCache' PROVE inRow'[p[2]].key = p[1] \/ p[1] \in inCross'
      BY DEF OldKeyForgotten
    <3>1. p \in inCache /\ p[1] \in 1..inKeys /\ p[2] \in Ids /\ inClear = {}
      BY <2>1 DEF IInv, RowsTyped
    <3>2. inRow[p[2]].key = 0
      BY <1>1, <3>1 DEF IInv, KeysOwned
    <3>3. p[1] \in inCross
      BY <3>1, <3>2 DEF IInv, OldKeyForgotten, RowsTyped
    <3> QED
      BY <2>1, <3>3 DEF Noted
  <2>9. CallsTyped' /\ CallsNote' /\ MatchHolds' /\ VerifiedWasEnabled'
    BY <2>1, <2>3, <2>4, RowsChange DEF IInv, RowsTyped
  <2> QED
    BY <2>5, <2>6, <2>7, <2>8, <2>9 DEF IInv
<1>2. CASE \E j \in Ids : inRow[j].there
  BY <1>2, Quiet DEF Insert, verify
<1> QED
  BY <1>1, <1>2

(* Update: the key and the row stay; a disabling also clears the cache.    *)
LEMMA UpdateStep == ASSUME IInv, NEW i \in Ids, Update(i) PROVE IInv'
<1> DEFINE rows == [inRow EXCEPT ![i].on = ~inRow[i].on]
<1>1. inRow' = rows /\ Noted(rows) /\ UNCHANGED <<inCache, inKeys, inOwner, inVer>> /\ inClear \subseteq inClear'
  BY DEF Update, verify
<1>2. /\ rows \in [Ids -> Row]
      /\ \A j \in Ids : rows[j].there = inRow[j].there /\ rows[j].key = inRow[j].key
  BY DEF IInv, RowsTyped, Row
<1> HIDE DEF rows
<1>3. RowsTyped' /\ OneRow' /\ KeysOwned' /\ CacheOwned'
  BY <1>1, <1>2 DEF IInv, RowsTyped, OneRow, KeysOwned, CacheOwned
<1>4. inCross \subseteq inCross'
  BY <1>1 DEF Noted
<1>5. OldKeyForgotten'
  BY <1>1, <1>2, <1>4 DEF IInv, RowsTyped, OldKeyForgotten
<1>6. CallsTyped' /\ CallsNote' /\ MatchHolds' /\ VerifiedWasEnabled'
  BY <1>1, <1>2, RowsChange DEF IInv, RowsTyped
<1> QED
  BY <1>3, <1>5, <1>6 DEF IInv

(* Delete and RotateKey: the key loses its row, and a clearing is owed.    *)
LEMMA DeleteStep == ASSUME IInv, NEW i \in Ids, Delete(i) PROVE IInv'
<1> DEFINE rows == [inRow EXCEPT ![i] = NoRow]
<1>1. inRow' = rows /\ Noted(rows) /\ UNCHANGED <<inCache, inKeys, inOwner, inVer>> /\ inClear' # {}
  BY DEF Delete, verify
<1>2. NoRow \in Row /\ ~NoRow.there /\ NoRow.key = 0
  BY DEF NoRow, Row
<1>3. rows \in [Ids -> Row] /\ rows[i] = NoRow /\ \A j \in Ids : j # i => rows[j] = inRow[j]
  BY <1>2 DEF IInv, RowsTyped
<1> HIDE DEF rows
<1>4. RowsTyped' /\ OneRow' /\ KeysOwned' /\ CacheOwned' /\ OldKeyForgotten'
  BY <1>1, <1>2, <1>3 DEF IInv, RowsTyped, OneRow, KeysOwned, CacheOwned, OldKeyForgotten
<1>5. CallsTyped' /\ CallsNote' /\ MatchHolds' /\ VerifiedWasEnabled'
  BY <1>1, <1>3, RowsChange DEF IInv, RowsTyped
<1> QED
  BY <1>4, <1>5 DEF IInv

(* RotateKey replaces the key in its row.                                  *)
LEMMA RotateKeyStep == ASSUME IInv, NEW i \in Ids, RotateKey(i) PROVE IInv'
<1> DEFINE rows == [inRow EXCEPT ![i].key = inKeys + 1]
<1>1. inRow' = rows /\ inKeys' = inKeys + 1 /\ inOwner' = Append(inOwner, i) /\ Noted(rows)
      /\ UNCHANGED <<inCache, inVer>> /\ inClear' # {} /\ inRow[i].there
  BY DEF RotateKey, Registered, verify, Admin
<1>2. /\ rows \in [Ids -> Row] /\ rows[i].key = inKeys + 1
      /\ \A j \in Ids : j # i => rows[j].key = inRow[j].key
      /\ \A j \in Ids : rows[j].there = inRow[j].there
  BY DEF IInv, RowsTyped, Row
<1> HIDE DEF rows
<1>3. /\ inKeys' \in Nat /\ inOwner' \in Seq(Ids) /\ Len(inOwner') = inKeys'
      /\ \A k \in 1..inKeys : inOwner'[k] = inOwner[k]
      /\ inOwner'[inKeys + 1] = i
  BY <1>1 DEF IInv, RowsTyped
<1>4. RowsTyped' /\ CacheOwned' /\ OldKeyForgotten'
  BY <1>1, <1>2, <1>3 DEF IInv, RowsTyped, CacheOwned, OldKeyForgotten
<1>5. OneRow' /\ KeysOwned'
  BY <1>1, <1>2, <1>3 DEF IInv, RowsTyped, OneRow, KeysOwned
<1>6. CallsTyped' /\ CallsNote' /\ MatchHolds' /\ VerifiedWasEnabled'
  BY <1>1, <1>2, <1>3, RowsChange DEF IInv, RowsTyped
<1> QED
  BY <1>4, <1>5, <1>6 DEF IInv

(* The cache forgets an integration.                                       *)
LEMMA ClearStep == ASSUME IInv, NEW o \in inClear, ClearTokenCache(o) PROVE IInv'
<1>1. inCache' = {} /\ UNCHANGED <<inRow, inKeys, inOwner, inVer, inHeld, inCross>>
  BY DEF ClearTokenCache, registry, verify
<1> QED
  BY <1>1 DEF IInv, RowsTyped, CallsTyped, OneRow, KeysOwned, CacheOwned, CallsNote, MatchHolds,
              VerifiedWasEnabled, OldKeyForgotten, Enabled

(* The health checker writes only the status of a row.                     *)
LEMMA ProbeStep == ASSUME IInv, NEW a \in Answers, Probe(a) PROVE IInv'
<1> DEFINE h == IF inRow[inProbe.i].there THEN Next1(inProbe.i, a) ELSE "unknown"
           rows == [inRow EXCEPT ![inProbe.i].health = h]
<1>1. /\ inRow' = rows \/ UNCHANGED inRow
      /\ UNCHANGED <<inKeys, inOwner, inCache, inClear, inCross, inHeld, inVer>>
  BY DEF Probe, SetHealth, verify
<1>2. Next1(inProbe.i, a) \in {"healthy", "degraded", "unhealthy"}
  BY DEF Answers, Next1, BumpFail
<1>3. rows \in [Ids -> Row] /\ \A j \in Ids : /\ rows[j].there = inRow[j].there
                                              /\ rows[j].on = inRow[j].on /\ rows[j].key = inRow[j].key
  <2>1. h \in {"unknown", "healthy", "degraded", "unhealthy"}
    BY <1>2
  <2> HIDE DEF h
  <2>2. CASE inProbe.i \in Ids
    BY <2>1, <2>2 DEF IInv, RowsTyped, Row
  <2>3. CASE inProbe.i \notin Ids
    <3>1. rows = inRow
      BY <2>3 DEF IInv, RowsTyped
    <3> QED
      BY <3>1 DEF IInv, RowsTyped
  <2> QED
    BY <2>2, <2>3
<1> HIDE DEF rows
<1>4. CASE inRow' = rows
  <2>1. Enabled(rows) = Enabled(inRow)
    BY <1>3 DEF Enabled
  <2>2. RowsTyped' /\ CallsTyped' /\ OneRow' /\ KeysOwned' /\ CacheOwned'
    BY <1>1, <1>3, <1>4 DEF IInv, RowsTyped, CallsTyped, OneRow, KeysOwned, CacheOwned
  <2>3. CallsNote' /\ VerifiedWasEnabled'
    BY <1>1, <1>4, <2>1 DEF IInv, CallsNote, VerifiedWasEnabled
  <2>4. MatchHolds' /\ OldKeyForgotten'
    BY <1>1, <1>3, <1>4 DEF IInv, RowsTyped, CallsTyped, MatchHolds, OldKeyForgotten
  <2> QED
    BY <2>2, <2>3, <2>4 DEF IInv
<1> QED
  BY <1>1, <1>4, Quiet

-----------------------------------------------------------------------------
(* What one call does leaves the other calls alone.                        *)
LEMMA OtherCalls ==
    ASSUME IInv, NEW c \in Callers, NEW v \in Call, NEW h \in SUBSET Ids,
           inVer' = [inVer EXCEPT ![c] = v], inHeld' = [inHeld EXCEPT ![c] = h],
           UNCHANGED <<inRow, inKeys, inOwner, inCross>>,
           v.pc # "idle" => v.key \in 1..inKeys /\ Enabled(inRow) \subseteq h,
           v.pc = "cache" => /\ v.id \in h /\ inOwner[v.key] = v.id
                             /\ inRow[v.id].key = v.key \/ v.key \in inCross,
           v.pc = "idle" /\ v.ok => v.id \in h
    PROVE  CallsTyped' /\ CallsNote' /\ MatchHolds' /\ VerifiedWasEnabled'
<1>1. /\ \A d \in Callers : d # c => inVer'[d] = inVer[d] /\ inHeld'[d] = inHeld[d]
      /\ inVer'[c] = v /\ inHeld'[c] = h
  BY DEF IInv, CallsTyped
<1>2. CallsTyped'
  BY DEF IInv, CallsTyped
<1>3. Enabled(inRow)' = Enabled(inRow)
  BY DEF Enabled
<1>4. CallsNote'
  BY <1>1, <1>3 DEF IInv, CallsNote
<1>5. MatchHolds'
  BY <1>1 DEF IInv, MatchHolds
<1>6. VerifiedWasEnabled'
  BY <1>1 DEF IInv, VerifiedWasEnabled
<1> QED
  BY <1>2, <1>4, <1>5, <1>6

(* The rows' invariants, and the cache's when it only shrinks.             *)
LEMMA RowsKept ==
    ASSUME IInv, UNCHANGED <<inRow, inKeys, inOwner, inClear, inCross>>, inCache' \subseteq inCache
    PROVE  RowsTyped' /\ OneRow' /\ KeysOwned' /\ CacheOwned' /\ OldKeyForgotten'
  BY DEF IInv, RowsTyped, OneRow, KeysOwned, CacheOwned, OldKeyForgotten

(* A call notes what is enabled.                                           *)
LEMMA VerifyBeginStep == ASSUME IInv, NEW c \in Callers, VerifyBegin(c) PROVE IInv'
<1>1. UNCHANGED <<inRow, inKeys, inOwner, inClear, inCross, inCache>> /\ inHeld' = [inHeld EXCEPT ![c] = Enabled(inRow)]
  BY DEF VerifyBegin, registry
<1>2. PICK k \in 1..inKeys :
        LET hit == {p \in inCache : p[1] = k} IN
        inVer' = [inVer EXCEPT ![c] =
           IF hit # {} THEN [pc |-> "hit", key |-> k, id |-> (CHOOSE p \in hit : TRUE)[2], ok |-> FALSE]
           ELSE [pc |-> "scan", key |-> k, id |-> 0, ok |-> FALSE]]
  BY DEF VerifyBegin
<1> DEFINE hit == {p \in inCache : p[1] = k}
           x == (CHOOSE p \in hit : TRUE)[2]
<1>3. PICK v \in Call : inVer' = [inVer EXCEPT ![c] = v] /\ v.pc \in {"hit", "scan"} /\ v.key = k
  <2>1. k \in Nat
    BY DEF IInv, RowsTyped
  <2>2. CASE hit # {}
    <3>1. x \in Ids
      BY <2>2 DEF IInv, RowsTyped
    <3>2. inVer' = [inVer EXCEPT ![c] = [pc |-> "hit", key |-> k, id |-> x, ok |-> FALSE]]
      BY <1>2, <2>2
    <3> HIDE DEF x
    <3>3. [pc |-> "hit", key |-> k, id |-> x, ok |-> FALSE] \in Call
      BY <2>1, <3>1 DEF Call
    <3> QED
      BY <3>2, <3>3
  <2>3. CASE hit = {}
    <3>1. inVer' = [inVer EXCEPT ![c] = [pc |-> "scan", key |-> k, id |-> 0, ok |-> FALSE]]
      BY <1>2, <2>3
    <3>2. [pc |-> "scan", key |-> k, id |-> 0, ok |-> FALSE] \in Call
      BY <2>1 DEF Call
    <3> QED
      BY <3>1, <3>2
  <2> QED
    BY <2>2, <2>3
<1>4. Enabled(inRow) \subseteq Ids
  BY DEF Enabled
<1>5. CallsTyped' /\ CallsNote' /\ MatchHolds' /\ VerifiedWasEnabled'
  BY <1>1, <1>3, <1>4, OtherCalls
<1> QED
  BY <1>1, <1>5, RowsKept DEF IInv

(* A hit answers with a row it read enabled just now.                      *)
LEMMA VerifyHitStep == ASSUME IInv, NEW c \in Callers, VerifyHit(c) PROVE IInv'
<1>1. UNCHANGED <<inRow, inKeys, inOwner, inClear, inCross, inHeld>> /\ inCache' \subseteq inCache /\ inVer[c].pc = "hit"
  BY DEF VerifyHit, registry
<1>2. /\ inVer[c] \in Call /\ inVer[c].key \in 1..inKeys /\ Enabled(inRow) \subseteq inHeld[c] /\ inHeld[c] \subseteq Ids
      /\ inHeld' = [inHeld EXCEPT ![c] = inHeld[c]]
  BY <1>1 DEF IInv, CallsTyped, CallsNote
<1>3. CASE inVer[c].id \in Enabled(inRow)
  <2> DEFINE v == Done(inVer[c], TRUE)
  <2>1. inVer' = [inVer EXCEPT ![c] = v]
    BY <1>3 DEF VerifyHit
  <2>2. v \in Call /\ v.pc = "idle" /\ v.id = inVer[c].id
    BY <1>2 DEF Call, Done
  <2> HIDE DEF v
  <2>3. CallsTyped' /\ CallsNote' /\ MatchHolds' /\ VerifiedWasEnabled'
    BY <1>1, <1>2, <1>3, <2>1, <2>2, OtherCalls
  <2> QED
    BY <1>1, <2>3, RowsKept DEF IInv
<1>4. CASE inVer[c].id \notin Enabled(inRow)
  <2> DEFINE v == [inVer[c] EXCEPT !.pc = "scan"]
  <2>1. inVer' = [inVer EXCEPT ![c] = v]
    BY <1>4 DEF VerifyHit
  <2>2. v \in Call /\ v.pc = "scan" /\ v.key = inVer[c].key
    BY <1>2 DEF Call
  <2> HIDE DEF v
  <2>3. CallsTyped' /\ CallsNote' /\ MatchHolds' /\ VerifiedWasEnabled'
    BY <1>1, <1>2, <2>1, <2>2, OtherCalls
  <2> QED
    BY <1>1, <2>3, RowsKept DEF IInv
<1> QED
  BY <1>3, <1>4

(* A scan matches an enabled row by the key it holds now.                  *)
LEMMA VerifyScanStep == ASSUME IInv, NEW c \in Callers, VerifyScan(c) PROVE IInv'
<1> DEFINE match == {i \in Enabled(inRow) : inRow[i].key = inVer[c].key}
<1>1. UNCHANGED <<inRow, inKeys, inOwner, inClear, inCross, inHeld, inCache>> /\ inVer[c].pc = "scan"
  BY DEF VerifyScan, registry
<1>2. /\ inVer[c] \in Call /\ inVer[c].key \in 1..inKeys /\ Enabled(inRow) \subseteq inHeld[c] /\ inHeld[c] \subseteq Ids
      /\ inHeld' = [inHeld EXCEPT ![c] = inHeld[c]]
  BY <1>1 DEF IInv, CallsTyped, CallsNote
<1>3. CASE match = {}
  <2> DEFINE v == Done(inVer[c], FALSE)
  <2>1. inVer' = [inVer EXCEPT ![c] = v]
    BY <1>3 DEF VerifyScan
  <2>2. v \in Call /\ v.pc = "idle" /\ ~v.ok
    BY <1>2 DEF Call, Done
  <2> HIDE DEF v
  <2>3. CallsTyped' /\ CallsNote' /\ MatchHolds' /\ VerifiedWasEnabled'
    BY <1>1, <1>2, <2>1, <2>2, OtherCalls
  <2> QED
    BY <1>1, <2>3, RowsKept DEF IInv
<1>4. CASE match # {}
  <2> DEFINE i == CHOOSE i \in match : TRUE
             v == [inVer[c] EXCEPT !.pc = "cache", !.id = i]
  <2>1. i \in Enabled(inRow) /\ i \in Ids /\ inRow[i].there /\ inRow[i].key = inVer[c].key
    BY <1>4 DEF Enabled
  <2>2. inVer' = [inVer EXCEPT ![c] = v]
    BY <1>4 DEF VerifyScan
  <2> HIDE DEF i
  <2>3. v \in Call /\ v.pc = "cache" /\ v.key = inVer[c].key /\ v.id = i
    BY <1>2, <2>1 DEF Call
  <2> HIDE DEF v
  <2>4. /\ v.key \in 1..inKeys /\ inOwner[v.key] = v.id /\ v.id \in inHeld[c]
        /\ inRow[v.id].key = v.key
    BY <1>2, <2>1, <2>3 DEF IInv, KeysOwned
  <2>5. CallsTyped' /\ CallsNote' /\ MatchHolds' /\ VerifiedWasEnabled'
    BY <1>1, <1>2, <2>2, <2>3, <2>4, OtherCalls
  <2> QED
    BY <1>1, <2>5, RowsKept DEF IInv
<1> QED
  BY <1>3, <1>4

(* What a match puts in the cache is its row's key, or crossed the call.   *)
LEMMA VerifyCacheStep == ASSUME IInv, NEW c \in Callers, VerifyCache(c) PROVE IInv'
<1> DEFINE k == inVer[c].key
           i == inVer[c].id
           v == Done(inVer[c], TRUE)
<1>1. /\ UNCHANGED <<inRow, inKeys, inOwner, inClear, inCross, inHeld>> /\ inVer[c].pc = "cache"
      /\ inCache' = {p \in inCache : p[1] # k} \union {<<k, i>>} /\ inVer' = [inVer EXCEPT ![c] = v]
  BY DEF VerifyCache, registry
<1>2. /\ inVer[c] \in Call /\ k \in 1..inKeys /\ inHeld[c] \subseteq Ids /\ i \in inHeld[c]
      /\ inHeld' = [inHeld EXCEPT ![c] = inHeld[c]]
      /\ inOwner[k] = i /\ (inRow[i].key = k \/ k \in inCross)
  BY <1>1 DEF IInv, CallsTyped, CallsNote, MatchHolds
<1>3. v \in Call /\ v.pc = "idle" /\ v.id = i
  BY <1>2 DEF Call, Done
<1> HIDE DEF k, i, v
<1>4. CallsTyped' /\ CallsNote' /\ MatchHolds' /\ VerifiedWasEnabled'
  BY <1>1, <1>2, <1>3, OtherCalls
<1>5. RowsTyped' /\ OneRow' /\ KeysOwned' /\ CacheOwned'
  BY <1>1, <1>2 DEF IInv, RowsTyped, OneRow, KeysOwned, CacheOwned
<1>6. OldKeyForgotten'
  BY <1>1, <1>2 DEF IInv, OldKeyForgotten
<1> QED
  BY <1>4, <1>5, <1>6 DEF IInv

-----------------------------------------------------------------------------
(* The invariant holds throughout.                                         *)
LEMMA Invariance == Spec => []IInv
<1>1. ASSUME IInv, [Next]_vars PROVE IInv'
  <2>1. ASSUME NEW i \in Ids, CheckPrefix(i) \/ Tick(i) PROVE IInv'
    BY <1>1, <2>1, Quiet DEF CheckPrefix, Tick, verify, registry
  <2>2. CASE Fix \/ UNCHANGED vars
    BY <1>1, <2>2, Quiet DEF Fix, verify, registry, vars
  <2> QED
    BY <1>1, <2>1, <2>2, InsertStep, UpdateStep, DeleteStep, RotateKeyStep, ClearStep, ProbeStep,
       VerifyBeginStep, VerifyHitStep, VerifyScanStep, VerifyCacheStep DEF Next, Verify
<1> QED
  BY <1>1, InitIInv, PTL DEF Spec

(* Register with its UNIQUE columns: a prefix has one target, however many *)
(* registrations found it free.                                            *)
THEOREM PrefixHasOneTarget == Spec => []OneTarget
<1>1. IInv => OneTarget
  <2> DEFINE S == {i \in Ids : inRow[i].there}
  <2> SUFFICES ASSUME IInv PROVE Cardinality(S) <= 1
    BY DEF OneTarget
  <2>1. CASE S = {}
    <3>1. Cardinality({}) = 0
      BY FS_EmptySet
    <3> QED
      BY <2>1, <3>1
  <2>2. CASE S # {}
    <3>1. PICK i \in Ids : i \in S
      BY <2>2
    <3>2. S = {i}
      BY <3>1 DEF IInv, OneRow
    <3>3. Cardinality({i}) = 1
      BY FS_Singleton
    <3> HIDE DEF S
    <3> QED
      BY <3>2, <3>3
  <2> QED
    BY <2>1, <2>2
<1> QED
  BY <1>1, Invariance, PTL

(* Verify re-reads the row of a hit and scans the enabled rows on a miss:  *)
(* whatever crosses it, its answer was registered and enabled during it.   *)
THEOREM AnswersWereTrue == Spec => []VerifiedWasEnabled
<1>1. IInv => VerifiedWasEnabled
  BY DEF IInv
<1> QED
  BY <1>1, Invariance, PTL

(* RotateKey, Delete and clearTokenCache: once every clearing owed is      *)
(* done, a replaced key is cached only if a Verify of it was under way at  *)
(* the replacement.                                                        *)
THEOREM ReplacedKeysLeave == Spec => []OldKeyForgotten
<1>1. IInv => OldKeyForgotten
  BY DEF IInv
<1> QED
  BY <1>1, Invariance, PTL
=============================================================================
