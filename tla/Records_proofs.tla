-------------------------- MODULE Records_proofs ----------------------------
(***************************************************************************)
(* Theorems about what the gateway stores: the rows that choose the memory *)
(* workers, the files and databases a restore overwrites, the append-only  *)
(* logs and their pages, and the administrator's credentials.  The sections*)
(* are laid out as in Process_proofs.                                      *)
(***************************************************************************)
EXTENDS Integers, Sequences, TLAPS, FiniteSetTheorems, SequenceTheorems, WellFoundedInduction

CONSTANTS
    Providers, Seeded, Keyed, Admins, Calls, MaxEdits, MaxFails, None,  \* MemoryWorkers
    Restores, Files, Configured, VaultFiles, Mapped,           \* Restore
    Topics, Buffer, MaxEvents, Limit, Wanted,                  \* AuditTrail
    Logins, Changers, Override, MaxTokens, MaxPass, MaxBoots   \* AdminAuth

VARIABLES
    mwRow, mwTask, mwEdit, mwCall, mwEdits, mwFails, mwMade, mwWasOn,
    mwTaskOn, mwRecorded, mwDirs, mwLost,
    rsDisk, rsBak, rsPc, rsN, rsReq, rsSnap, rsApplied, rsAside, rsNext,
    rsBase, rsBroken, rsHole,
    atSent, atBuf, atTx, atSeq, atRows, atRead,
    auCreds, auFile, auTokens, auIssued, auPass, auLogin, auChange, auMu,
    auTook, auFailed, auOverlap, auBoots

Mw == INSTANCE MemoryWorkers
Rs == INSTANCE Restore
Au == INSTANCE AuditTrail
Adm == INSTANCE AdminAuth

-----------------------------------------------------------------------------
(***************************************************************************)
(* Memory workers: the provider rows, and the calls that pick one.         *)
(***************************************************************************)

MwConstants == IsFiniteSet(Providers) /\ Providers \subseteq Nat /\ None \notin Providers

MwFlags == [there : BOOLEAN, on : BOOLEAN, dflt : BOOLEAN]
MwPhases == {"idle", "pick", "build", "reread", "call", "running", "record", "done", "refused"}

MwTyped ==
    /\ mwRow \in [Providers -> MwFlags]
    /\ mwTask \in [on : BOOLEAN, kind : {"summarizer", "agent"}, sid : Providers \union {None}]
    /\ mwCall \in [Calls -> [pc : MwPhases, kind : {"", "summarizer", "agent"}, p : Providers \union {None}, pin : BOOLEAN,
                             own : BOOLEAN, key : BOOLEAN, ok : BOOLEAN, child : BOOLEAN]]
    /\ DOMAIN mwWasOn = Calls /\ DOMAIN mwTaskOn = Calls

DefaultRows(rows) == {p \in Providers : rows[p].there /\ rows[p].dflt}

(* A call that has begun has seen every row that is enabled now, and what  *)
(* it read again was enabled when it did.                                  *)
SeenEnabled ==
    \A c \in Calls :
       /\ mwCall[c].pc # "idle" => Mw!Enabled \subseteq mwWasOn[c]
       /\ mwCall[c].pc \in {"reread", "call"} => mwCall[c].p \in mwWasOn[c]

Allowed == \A c \in Calls : (mwCall[c].pc \notin {"idle", "refused"} /\ ~mwCall[c].own) => mwTaskOn[c]

(* Only a running agent has a scratch directory to remove.                 *)
LeftBehind ==
    \A c \in Calls :
       /\ mwCall[c].pc # "running" => (c \notin mwDirs \/ <<c, "dir">> \in mwLost)
       /\ mwCall[c].pc = "done" => (c \in mwRecorded \/ <<c, "row">> \in mwLost)

MwInv == MwTyped /\ Mw!OneDefault /\ SeenEnabled /\ Allowed /\ LeftBehind

(* A set of numbers has a least one.                                       *)
LEMMA LeastNumber == ASSUME NEW S, S \subseteq Nat, S # {} PROVE \E n \in S : \A m \in S : n <= m
<1>1. PICK n \in S : \A m \in S : <<m, n>> \notin OpToRel(<, Nat)
  BY NatLessThanWellFounded, WFMin, Zenon
<1>2. \A m \in S : ~(m < n)
  BY <1>1, Zenon DEF OpToRel
<1> QED
  BY <1>2

LEMMA MwCardinality == ASSUME NEW S PROVE Mw!Cardinality(S) = Cardinality(S)
  BY DEF Mw!Cardinality, Cardinality

LEMMA OneDefaultMeans == ASSUME NEW rows PROVE Mw!OneDefaultIn(rows) <=> Cardinality(DefaultRows(rows)) <= 1
  BY MwCardinality DEF Mw!OneDefaultIn, DefaultRows

LEMMA OldestIsThere == ASSUME NEW S, S \subseteq Nat, S # {} PROVE Mw!Oldest(S) \in S
  BY LeastNumber DEF Mw!Oldest

LEMMA DefaultsAreFinite == ASSUME MwConstants, NEW rows, NEW S, S \subseteq DefaultRows(rows)
                           PROVE  IsFiniteSet(S) /\ IsFiniteSet(DefaultRows(rows)) /\ Cardinality(S) <= Cardinality(DefaultRows(rows))
<1>1. IsFiniteSet(DefaultRows(rows))
  BY FS_Subset DEF MwConstants, DefaultRows
<1> QED
  BY <1>1, FS_Subset

LEMMA FewerDefaults == ASSUME MwConstants, NEW rows, NEW more, Mw!OneDefaultIn(more), DefaultRows(rows) \subseteq DefaultRows(more)
                       PROVE  Mw!OneDefaultIn(rows)
<1>1. Cardinality(DefaultRows(rows)) <= Cardinality(DefaultRows(more))
  BY DefaultsAreFinite
<1>2. Cardinality(DefaultRows(rows)) \in Nat /\ Cardinality(DefaultRows(more)) \in Nat
  BY DefaultsAreFinite, FS_CardinalityType
<1>3. Cardinality(DefaultRows(more)) <= 1
  BY OneDefaultMeans
<1> QED
  BY <1>1, <1>2, <1>3, OneDefaultMeans

LEMMA OneIsOne == ASSUME MwConstants, NEW rows, NEW q, DefaultRows(rows) \subseteq {q} PROVE Mw!OneDefaultIn(rows)
<1>1. IsFiniteSet({q}) /\ Cardinality({q}) = 1
  BY FS_Singleton
<1>2. Cardinality(DefaultRows(rows)) <= 1 /\ IsFiniteSet(DefaultRows(rows))
  BY <1>1, FS_Subset
<1> QED
  BY <1>2, OneDefaultMeans

(* Two defaults are one.                                                   *)
LEMMA DefaultIsOne == ASSUME MwConstants, Mw!OneDefault, NEW p \in DefaultRows(mwRow), NEW q \in DefaultRows(mwRow) PROVE p = q
<1>1. IsFiniteSet(DefaultRows(mwRow)) /\ Cardinality(DefaultRows(mwRow)) \in Nat /\ Cardinality(DefaultRows(mwRow)) <= 1
  BY DefaultsAreFinite, FS_CardinalityType, OneDefaultMeans DEF Mw!OneDefault
<1>2. Cardinality(DefaultRows(mwRow) \ {p}) = Cardinality(DefaultRows(mwRow)) - 1
  BY <1>1, FS_RemoveElement
<1>3. IsFiniteSet(DefaultRows(mwRow) \ {p}) /\ Cardinality(DefaultRows(mwRow) \ {p}) \in Nat
  BY <1>1, FS_RemoveElement, FS_CardinalityType
<1>4. Cardinality(DefaultRows(mwRow) \ {p}) = 0
  BY <1>1, <1>2, <1>3
<1>5. DefaultRows(mwRow) \ {p} = {}
  BY <1>3, <1>4, FS_EmptySet
<1> QED
  BY <1>5

LEMMA MwInit == ASSUME MwConstants, Mw!Init PROVE MwInv
<1>1. MwTyped
  BY DEF Mw!Init, MwTyped, MwFlags, MwPhases, Mw!Absent, Mw!Ready
<1>2. DefaultRows(mwRow) \subseteq {1}
  BY DEF Mw!Init, DefaultRows, Mw!Absent
<1>3. SeenEnabled /\ Allowed /\ LeftBehind
  BY DEF Mw!Init, SeenEnabled, Allowed, LeftBehind, Mw!Ready
<1> QED
  BY <1>1, <1>2, <1>3, OneIsOne DEF MwInv, Mw!OneDefault

(* A change of the rows that every call under way notes.                   *)
LEMMA NotedKeeps ==
    ASSUME MwConstants, MwInv, mwRow' \in [Providers -> MwFlags], Mw!OneDefaultIn(mwRow'), mwWasOn' = Mw!Noted(mwRow'),
           UNCHANGED <<mwTask, mwCall, mwTaskOn, mwFails, mwRecorded, mwDirs, mwLost>>
    PROVE  MwInv'
<1>1. mwWasOn' = [c \in Calls |-> IF mwCall[c].pc = "idle" THEN {} ELSE mwWasOn[c] \union Mw!Enabled']
  BY DEF Mw!Noted, Mw!Enabled
<1>2. MwTyped'
  BY <1>1 DEF MwInv, MwTyped
<1>3. SeenEnabled'
  BY <1>1 DEF MwInv, SeenEnabled
<1> QED
  BY <1>2, <1>3 DEF MwInv, Mw!OneDefault, Allowed, LeftBehind

LEMMA InsertProviderKeeps == ASSUME MwConstants, MwInv, NEW on \in BOOLEAN, NEW dflt \in BOOLEAN, Mw!InsertProvider(on, dflt) PROVE MwInv'
<1>1. /\ mwRow \in [Providers -> MwFlags] /\ mwMade' \in Providers /\ mwWasOn' = Mw!Noted(mwRow')
      /\ mwRow' = [p \in Providers |-> IF p = mwMade' THEN [there |-> TRUE, on |-> on, dflt |-> dflt]
                                      ELSE [mwRow[p] EXCEPT !.dflt = @ /\ ~dflt]]
      /\ UNCHANGED <<mwTask, mwCall, mwTaskOn, mwFails, mwRecorded, mwDirs, mwLost>>
  BY DEF Mw!InsertProvider, MwInv, MwTyped, Mw!left
<1>2. \A p \in Providers \ {mwMade'} : /\ mwRow'[p] \in MwFlags /\ mwRow'[p].there = mwRow[p].there
                                       /\ mwRow'[p].dflt <=> (mwRow[p].dflt /\ ~dflt)
  BY <1>1 DEF MwFlags
<1>3. mwRow' \in [Providers -> MwFlags]
  BY <1>1, <1>2 DEF MwFlags
<1>4. Mw!OneDefaultIn(mwRow')
  <2>1. CASE dflt
    <3>1. DefaultRows(mwRow') \subseteq {mwMade'}
      BY <1>1, <1>2, <2>1 DEF DefaultRows
    <3> QED
      BY <3>1, OneIsOne
  <2>2. CASE ~dflt
    <3>1. mwRow'[mwMade'].dflt = FALSE
      BY <1>1, <2>2
    <3>2. DefaultRows(mwRow') \subseteq DefaultRows(mwRow)
      BY <1>2, <3>1 DEF DefaultRows
    <3> QED
      BY <3>2, FewerDefaults DEF MwInv, Mw!OneDefault
  <2> QED
    BY <2>1, <2>2
<1> QED
  BY <1>1, <1>3, <1>4, NotedKeeps

LEMMA CommitRowKeeps == ASSUME MwConstants, MwInv, NEW a \in Admins, Mw!CommitRow(a) PROVE MwInv'
<1> DEFINE e == mwEdit[a]
<1>1. /\ mwRow \in [Providers -> MwFlags] /\ mwWasOn' = Mw!Noted(mwRow')
      /\ mwRow' = mwRow \/ (mwRow' = Mw!Cleared(e) /\ Mw!OneDefaultIn(mwRow'))
      /\ UNCHANGED <<mwTask, mwCall, mwTaskOn, mwFails, mwRecorded, mwDirs, mwLost>>
  BY DEF Mw!CommitRow, MwInv, MwTyped, Mw!left
<1>2. Mw!Cleared(e) \in [Providers -> MwFlags]
  <2> SUFFICES ASSUME NEW p \in Providers PROVE Mw!Cleared(e)[p] \in MwFlags
    BY DEF Mw!Cleared
  <2>1. mwRow[p] \in MwFlags
    BY <1>1
  <2>2. Mw!Set(e.dflt, mwRow[p].dflt) \in BOOLEAN /\ Mw!Set(e.on, mwRow[p].on) \in BOOLEAN
    <3>1. mwRow[p].dflt \in BOOLEAN /\ mwRow[p].on \in BOOLEAN
      BY <2>1 DEF MwFlags
    <3>2. (TRUE \in e.dflt) \in BOOLEAN /\ (TRUE \in e.on) \in BOOLEAN
      OBVIOUS
    <3>3. \A patch, flag : Mw!Set(patch, flag) = flag \/ Mw!Set(patch, flag) = (TRUE \in patch)
      BY Zenon DEF Mw!Set
    <3> QED
      BY <3>1, <3>2, <3>3, Zenon
  <2>3. \/ Mw!Cleared(e)[p] = [mwRow[p] EXCEPT !.dflt = Mw!Set(e.dflt, @), !.on = Mw!Set(e.on, @)]
        \/ Mw!Cleared(e)[p] = [mwRow[p] EXCEPT !.dflt = FALSE]
        \/ Mw!Cleared(e)[p] = mwRow[p]
    BY DEF Mw!Cleared
  <2> QED
    BY <2>1, <2>2, <2>3 DEF MwFlags
<1>3. Mw!OneDefaultIn(mwRow')
  BY <1>1 DEF MwInv, Mw!OneDefault
<1> QED
  BY <1>1, <1>2, <1>3, NotedKeeps

LEMMA DeleteProviderKeeps == ASSUME MwConstants, MwInv, NEW p \in Providers, Mw!DeleteProvider(p) PROVE MwInv'
<1>1. /\ mwRow \in [Providers -> MwFlags] /\ mwRow' = [mwRow EXCEPT ![p] = Mw!Absent] /\ mwWasOn' = Mw!Noted(mwRow')
      /\ UNCHANGED <<mwTask, mwCall, mwTaskOn, mwFails, mwRecorded, mwDirs, mwLost>>
  BY DEF Mw!DeleteProvider, MwInv, MwTyped, Mw!left
<1>2. mwRow' \in [Providers -> MwFlags] /\ DefaultRows(mwRow') \subseteq DefaultRows(mwRow)
  BY <1>1 DEF MwFlags, DefaultRows, Mw!Absent
<1> QED
  BY <1>1, <1>2, NotedKeeps, FewerDefaults DEF MwInv, Mw!OneDefault

LEMMA ReadRowKeeps == ASSUME MwConstants, MwInv, NEW a \in Admins, Mw!ReadRow(a) PROVE MwInv'
<1>1. UNCHANGED <<mwRow, mwTask, mwCall, mwWasOn, mwTaskOn, mwFails, mwRecorded, mwDirs, mwLost>>
  BY DEF Mw!ReadRow, Mw!left
<1> QED
  BY <1>1 DEF MwInv, MwTyped, Mw!OneDefault, Mw!OneDefaultIn, SeenEnabled, Mw!Enabled, Allowed, LeftBehind

LEMMA UpsertKeeps == ASSUME MwConstants, MwInv, Mw!Upsert PROVE MwInv'
<1>1. UNCHANGED <<mwRow, mwCall, mwWasOn, mwTaskOn, mwFails, mwRecorded, mwDirs, mwLost>>
  BY DEF Mw!Upsert, Mw!left
<1>2. mwTask' \in [on : BOOLEAN, kind : {"summarizer", "agent"}, sid : Providers \union {None}]
  BY DEF Mw!Upsert
<1> QED
  BY <1>1, <1>2 DEF MwInv, MwTyped, Mw!OneDefault, Mw!OneDefaultIn, SeenEnabled, Mw!Enabled, Allowed, LeftBehind

(* A step of call c: q is its new state, of the type of a call.            *)
MwState == [pc : MwPhases, kind : {"", "summarizer", "agent"}, p : Providers \union {None}, pin : BOOLEAN,
            own : BOOLEAN, key : BOOLEAN, ok : BOOLEAN, child : BOOLEAN]

LEMMA CallMoves ==
    ASSUME MwConstants, MwInv, NEW c \in Calls, NEW q \in MwState, mwCall' = [mwCall EXCEPT ![c] = q],
           UNCHANGED <<mwRow, mwTask>>,
           mwWasOn' = mwWasOn \/ mwWasOn' = [mwWasOn EXCEPT ![c] = Mw!Enabled],
           mwTaskOn' = mwTaskOn \/ mwTaskOn' = [mwTaskOn EXCEPT ![c] = mwTask.on],
           q.pc # "idle" => Mw!Enabled \subseteq mwWasOn'[c],
           q.pc \in {"reread", "call"} => q.p \in mwWasOn'[c],
           (q.pc \notin {"idle", "refused"} /\ ~q.own) => mwTaskOn'[c],
           \A d \in Calls \ {c} : (d \in mwDirs' <=> d \in mwDirs) /\ (d \in mwRecorded => d \in mwRecorded'),
           mwLost \subseteq mwLost',
           q.pc # "running" => (c \notin mwDirs' \/ <<c, "dir">> \in mwLost'),
           q.pc = "done" => (c \in mwRecorded' \/ <<c, "row">> \in mwLost')
    PROVE  MwInv'
<1>1. mwCall'[c] = q /\ \A d \in Calls \ {c} : mwCall'[d] = mwCall[d] /\ mwWasOn'[d] = mwWasOn[d] /\ (mwTaskOn'[d] <=> mwTaskOn[d])
  BY DEF MwInv, MwTyped
<1>2. MwTyped'
  BY DEF MwInv, MwTyped, MwState
<1>3. Mw!OneDefault' /\ Mw!Enabled' = Mw!Enabled
  BY DEF MwInv, Mw!OneDefault, Mw!OneDefaultIn, Mw!Enabled
<1>4. SeenEnabled'
  BY <1>1, <1>3 DEF MwInv, SeenEnabled
<1>5. Allowed'
  BY <1>1 DEF MwInv, Allowed
<1>6. LeftBehind'
  BY <1>1 DEF MwInv, LeftBehind
<1> QED
  BY <1>2, <1>3, <1>4, <1>5, <1>6 DEF MwInv

LEMMA CallTyped == ASSUME MwInv, NEW c \in Calls PROVE mwCall[c] \in MwState
  BY DEF MwInv, MwTyped, MwState

LEMMA AsksTyped == ASSUME MwInv, NEW kind \in {"summarizer", "agent"}, NEW sid \in Providers \union {None}, NEW own \in BOOLEAN
                   PROVE  /\ Mw!Asks(kind, sid, own) \in MwState
                          /\ Mw!Asks(kind, sid, own).pc = "pick" /\ Mw!Asks(kind, sid, own).own = own
  BY DEF Mw!Asks, Mw!Ready, MwState, MwPhases

LEMMA BeginKeeps == ASSUME MwConstants, MwInv, NEW c \in Calls, Mw!Begin(c) PROVE MwInv'
<1>1. /\ mwCall[c].pc = "idle" /\ mwWasOn' = [mwWasOn EXCEPT ![c] = Mw!Enabled] /\ mwTaskOn' = [mwTaskOn EXCEPT ![c] = mwTask.on]
      /\ UNCHANGED <<mwRow, mwTask, mwRecorded, mwDirs, mwLost>>
  BY DEF Mw!Begin, Mw!EnabledNow, Mw!Enabled, Mw!tables, Mw!left
<1>2. mwTask.on \in BOOLEAN /\ mwTask.kind \in {"summarizer", "agent"} /\ mwTask.sid \in Providers \union {None}
  BY DEF MwInv, MwTyped
<1>3. PICK q : mwCall' = [mwCall EXCEPT ![c] = q] /\ q = IF mwTask.on THEN Mw!Asks(mwTask.kind, mwTask.sid, FALSE) ELSE [Mw!Ready EXCEPT !.pc = "refused"]
  BY DEF Mw!Begin, Mw!WorkerFor
<1>4. q \in MwState /\ (IF mwTask.on THEN q.pc = "pick" ELSE q.pc = "refused")
  <2>1. [Mw!Ready EXCEPT !.pc = "refused"] \in MwState /\ [Mw!Ready EXCEPT !.pc = "refused"].pc = "refused"
    BY DEF Mw!Ready, MwState, MwPhases
  <2> QED
    BY <1>2, <1>3, <2>1, AsksTyped
<1>5. mwWasOn'[c] = Mw!Enabled /\ (mwTaskOn'[c] <=> mwTask.on)
  BY <1>1 DEF MwInv, MwTyped
<1>6. c \notin mwDirs \/ <<c, "dir">> \in mwLost
  BY <1>1 DEF MwInv, LeftBehind
<1> QED
  BY <1>1, <1>3, <1>4, <1>5, <1>6, CallMoves

LEMMA BeginOwnKeeps == ASSUME MwConstants, MwInv, NEW c \in Calls, Mw!BeginOwn(c) PROVE MwInv'
<1>1. /\ mwCall[c].pc = "idle" /\ mwWasOn' = [mwWasOn EXCEPT ![c] = Mw!Enabled] /\ mwTaskOn' = mwTaskOn
      /\ UNCHANGED <<mwRow, mwTask, mwRecorded, mwDirs, mwLost>>
  BY DEF Mw!BeginOwn, Mw!EnabledNow, Mw!Enabled, Mw!tables, Mw!left
<1>2. PICK kind \in {"summarizer", "agent"}, sid \in Providers \union {None} : mwCall' = [mwCall EXCEPT ![c] = Mw!Asks(kind, sid, TRUE)]
  BY DEF Mw!BeginOwn
<1>3. PICK q : q = Mw!Asks(kind, sid, TRUE)
  OBVIOUS
<1>4. q \in MwState /\ q.pc = "pick" /\ q.own = TRUE
  BY <1>3, AsksTyped
<1>5. mwWasOn'[c] = Mw!Enabled
  BY <1>1 DEF MwInv, MwTyped
<1>6. c \notin mwDirs \/ <<c, "dir">> \in mwLost
  BY <1>1 DEF MwInv, LeftBehind
<1> QED
  BY <1>1, <1>2, <1>3, <1>4, <1>5, <1>6, CallMoves

(* A step of a call that goes on under the configuration it began with.    *)
LEMMA CallGoesOn ==
    ASSUME MwConstants, MwInv, NEW c \in Calls, NEW q \in MwState, mwCall' = [mwCall EXCEPT ![c] = q],
           UNCHANGED <<mwRow, mwTask, mwWasOn, mwTaskOn>>,
           mwCall[c].pc \notin {"idle", "refused"}, q.own = mwCall[c].own,
           q.pc \in {"reread", "call"} => q.p \in mwWasOn[c],
           \A d \in Calls \ {c} : (d \in mwDirs' <=> d \in mwDirs) /\ (d \in mwRecorded => d \in mwRecorded'),
           mwLost \subseteq mwLost',
           q.pc # "running" => (c \notin mwDirs' \/ <<c, "dir">> \in mwLost'),
           q.pc = "done" => (c \in mwRecorded' \/ <<c, "row">> \in mwLost')
    PROVE  MwInv'
<1>1. Mw!Enabled \subseteq mwWasOn[c]
  BY DEF MwInv, SeenEnabled
<1>2. ~q.own => mwTaskOn[c]
  BY DEF MwInv, Allowed
<1> QED
  BY <1>1, <1>2, CallMoves

LEMMA SummarizerStepKeeps ==
    ASSUME MwConstants, MwInv, NEW c \in Calls, Mw!PickProvider(c) \/ Mw!Build(c) \/ Mw!Reread(c) \/ Mw!Request(c) PROVE MwInv'
<1>1. /\ mwCall[c] \in MwState /\ mwCall[c].pc \in {"pick", "build", "reread", "call"}
      /\ UNCHANGED <<mwRow, mwTask, mwWasOn, mwTaskOn, mwRecorded, mwDirs, mwLost>>
  BY CallTyped DEF Mw!PickProvider, Mw!Build, Mw!Reread, Mw!Request, Mw!tables, Mw!left
<1>2. c \notin mwDirs \/ <<c, "dir">> \in mwLost
  BY <1>1 DEF MwInv, LeftBehind
<1>4. CASE mwCall' = [mwCall EXCEPT ![c].pc = "record", ![c].ok = FALSE]
  <2>1. PICK q : q = [mwCall[c] EXCEPT !.pc = "record", !.ok = FALSE]
    OBVIOUS
  <2>2. mwCall' = [mwCall EXCEPT ![c] = q] /\ q \in MwState /\ q.pc = "record" /\ q.own = mwCall[c].own
    BY <1>1, <1>4, <2>1 DEF MwInv, MwTyped, MwState, MwPhases
  <2> QED
    BY <1>1, <1>2, <2>2, CallGoesOn
<1>5. ASSUME Mw!PickProvider(c), mwCall' # [mwCall EXCEPT ![c].pc = "record", ![c].ok = FALSE] PROVE MwInv'
  <2>1. PICK p : mwCall' = [mwCall EXCEPT ![c].pc = "build", ![c].p = p] /\ p = (IF mwCall[c].pin THEN mwCall[c].p ELSE Mw!Pick) /\ p # None
    BY <1>5 DEF Mw!PickProvider, Mw!Fail
  <2>2. p \in Providers
    <3>1. CASE mwCall[c].pin
      BY <1>1, <2>1, <3>1 DEF MwState
    <3>2. CASE ~mwCall[c].pin
      <4>1. p = Mw!Pick
        BY <2>1, <3>2
      <4>2. Mw!Enabled \subseteq Providers /\ Providers \subseteq Nat
        BY DEF Mw!Enabled, MwConstants
      <4>3. {r \in Mw!Enabled : mwRow[r].dflt} # {} => Mw!Oldest({r \in Mw!Enabled : mwRow[r].dflt}) \in Providers
        BY <4>2, OldestIsThere
      <4>4. Mw!Enabled # {} => Mw!Oldest(Mw!Enabled) \in Providers
        BY <4>2, OldestIsThere
      <4> QED
        BY <2>1, <4>1, <4>3, <4>4 DEF Mw!Pick
    <3> QED
      BY <3>1, <3>2
  <2>3. PICK q : q = [mwCall[c] EXCEPT !.pc = "build", !.p = p]
    OBVIOUS
  <2>4. mwCall' = [mwCall EXCEPT ![c] = q] /\ q \in MwState /\ q.pc = "build" /\ q.own = mwCall[c].own
    BY <1>1, <2>1, <2>2, <2>3 DEF MwInv, MwTyped, MwState, MwPhases
  <2> QED
    BY <1>1, <1>2, <2>4, CallGoesOn
<1>6. ASSUME Mw!Build(c), mwCall' # [mwCall EXCEPT ![c].pc = "record", ![c].ok = FALSE] PROVE MwInv'
  <2>1. mwCall[c].p \in Mw!Enabled /\ mwCall' = [mwCall EXCEPT ![c].pc = "reread"]
    BY <1>6 DEF Mw!Build, Mw!Fail, Mw!Goes
  <2>2. PICK q : q = [mwCall[c] EXCEPT !.pc = "reread"]
    OBVIOUS
  <2>3. mwCall' = [mwCall EXCEPT ![c] = q] /\ q \in MwState /\ q.pc = "reread" /\ q.own = mwCall[c].own /\ q.p = mwCall[c].p
    BY <1>1, <2>1, <2>2 DEF MwInv, MwTyped, MwState, MwPhases
  <2>4. q.p \in mwWasOn[c]
    BY <1>1, <2>1, <2>3 DEF MwInv, SeenEnabled
  <2> QED
    BY <1>1, <1>2, <2>3, <2>4, CallGoesOn
<1>7. ASSUME Mw!Reread(c), mwCall' # [mwCall EXCEPT ![c].pc = "record", ![c].ok = FALSE] PROVE MwInv'
  <2>1. mwCall[c].pc = "reread" /\ mwCall' = [mwCall EXCEPT ![c].pc = "call", ![c].key = FALSE]
    BY <1>7 DEF Mw!Reread, Mw!Fail, Mw!Goes
  <2>2. PICK q : q = [mwCall[c] EXCEPT !.pc = "call", !.key = FALSE]
    OBVIOUS
  <2>3. mwCall' = [mwCall EXCEPT ![c] = q] /\ q \in MwState /\ q.pc = "call" /\ q.own = mwCall[c].own /\ q.p = mwCall[c].p
    BY <1>1, <2>1, <2>2 DEF MwInv, MwTyped, MwState, MwPhases
  <2>4. q.p \in mwWasOn[c]
    BY <2>1, <2>3 DEF MwInv, SeenEnabled
  <2> QED
    BY <1>1, <1>2, <2>3, <2>4, CallGoesOn
<1>8. ASSUME Mw!Request(c), mwCall' # [mwCall EXCEPT ![c].pc = "record", ![c].ok = FALSE] PROVE MwInv'
  <2>1. mwCall' = [mwCall EXCEPT ![c].pc = "record", ![c].ok = TRUE]
    BY <1>8 DEF Mw!Request, Mw!Fail
  <2>2. PICK q : q = [mwCall[c] EXCEPT !.pc = "record", !.ok = TRUE]
    OBVIOUS
  <2>3. mwCall' = [mwCall EXCEPT ![c] = q] /\ q \in MwState /\ q.pc = "record" /\ q.own = mwCall[c].own
    BY <1>1, <2>1, <2>2 DEF MwInv, MwTyped, MwState, MwPhases
  <2> QED
    BY <1>1, <1>2, <2>3, CallGoesOn
<1> QED
  BY <1>4, <1>5, <1>6, <1>7, <1>8

LEMMA SpawnKeeps == ASSUME MwConstants, MwInv, NEW c \in Calls, Mw!Spawn(c) PROVE MwInv'
<1>1. /\ mwCall[c] \in MwState /\ mwCall[c].pc = "pick"
      /\ UNCHANGED <<mwRow, mwTask, mwWasOn, mwTaskOn, mwRecorded, mwLost>>
  BY CallTyped DEF Mw!Spawn, Mw!tables
<1>2. c \notin mwDirs \/ <<c, "dir">> \in mwLost
  BY <1>1 DEF MwInv, LeftBehind
<1>3. CASE Mw!Fail(c) /\ UNCHANGED mwDirs
  <2>1. PICK q : q = [mwCall[c] EXCEPT !.pc = "record", !.ok = FALSE]
    OBVIOUS
  <2>2. mwCall' = [mwCall EXCEPT ![c] = q] /\ q \in MwState /\ q.pc = "record" /\ q.own = mwCall[c].own
    BY <1>1, <1>3, <2>1 DEF MwInv, MwTyped, MwState, MwPhases, Mw!Fail
  <2> QED
    BY <1>1, <1>2, <1>3, <2>2, CallGoesOn
<1>4. ASSUME mwDirs' = mwDirs \union {c}, NEW child \in BOOLEAN, mwCall' = [mwCall EXCEPT ![c].pc = "running", ![c].child = child] PROVE MwInv'
  <2>1. PICK q : q = [mwCall[c] EXCEPT !.pc = "running", !.child = child]
    OBVIOUS
  <2>2. mwCall' = [mwCall EXCEPT ![c] = q] /\ q \in MwState /\ q.pc = "running" /\ q.own = mwCall[c].own
    BY <1>1, <1>4, <2>1 DEF MwInv, MwTyped, MwState, MwPhases
  <2> QED
    BY <1>1, <1>4, <2>2, CallGoesOn
<1> QED
  BY <1>3, <1>4 DEF Mw!Spawn

LEMMA ExitKeeps == ASSUME MwConstants, MwInv, NEW c \in Calls, Mw!Exit(c) PROVE MwInv'
<1>1. /\ mwCall[c] \in MwState /\ mwCall[c].pc = "running"
      /\ UNCHANGED <<mwRow, mwTask, mwWasOn, mwTaskOn, mwRecorded>>
  BY CallTyped DEF Mw!Exit, Mw!tables
<1>2. PICK ok \in BOOLEAN : Mw!Reap(c, ok)
  BY DEF Mw!Exit
<1>3. PICK q : q = [mwCall[c] EXCEPT !.pc = "record", !.ok = ok]
  OBVIOUS
<1>4. mwCall' = [mwCall EXCEPT ![c] = q] /\ q \in MwState /\ q.pc = "record" /\ q.own = mwCall[c].own
  BY <1>1, <1>2, <1>3 DEF MwInv, MwTyped, MwState, MwPhases, Mw!Reap
<1>5. /\ mwLost \subseteq mwLost' /\ (c \notin mwDirs' \/ <<c, "dir">> \in mwLost')
      /\ \A d \in Calls \ {c} : d \in mwDirs' <=> d \in mwDirs
  BY <1>2 DEF Mw!Reap
<1> QED
  BY <1>1, <1>4, <1>5, CallGoesOn

LEMMA ChildExitsKeeps == ASSUME MwConstants, MwInv, NEW c \in Calls, Mw!ChildExits(c) PROVE MwInv'
<1>1. mwCall[c] \in MwState /\ UNCHANGED <<mwRow, mwTask, mwWasOn, mwTaskOn, mwRecorded, mwDirs, mwLost>>
  BY CallTyped DEF Mw!ChildExits, Mw!tables, Mw!left
<1>2. PICK q : q = [mwCall[c] EXCEPT !.child = FALSE]
  OBVIOUS
<1>3. /\ mwCall' = [mwCall EXCEPT ![c] = q] /\ q \in MwState /\ q.pc = mwCall[c].pc /\ q.own = mwCall[c].own /\ q.p = mwCall[c].p
  BY <1>1, <1>2 DEF MwInv, MwTyped, MwState, Mw!ChildExits
<1>4. /\ q.pc # "idle" => Mw!Enabled \subseteq mwWasOn[c]
      /\ q.pc \in {"reread", "call"} => q.p \in mwWasOn[c]
      /\ (q.pc \notin {"idle", "refused"} /\ ~q.own) => mwTaskOn[c]
      /\ q.pc # "running" => (c \notin mwDirs \/ <<c, "dir">> \in mwLost)
      /\ q.pc = "done" => (c \in mwRecorded \/ <<c, "row">> \in mwLost)
  BY <1>3 DEF MwInv, SeenEnabled, Allowed, LeftBehind
<1> QED
  BY <1>1, <1>3, <1>4, CallMoves

LEMMA RecordCallKeeps == ASSUME MwConstants, MwInv, NEW c \in Calls, Mw!RecordCall(c) PROVE MwInv'
<1>1. /\ mwCall[c] \in MwState /\ mwCall[c].pc = "record"
      /\ UNCHANGED <<mwRow, mwTask, mwWasOn, mwTaskOn, mwDirs>>
  BY CallTyped DEF Mw!RecordCall, Mw!tables
<1>2. c \notin mwDirs \/ <<c, "dir">> \in mwLost
  BY <1>1 DEF MwInv, LeftBehind
<1>3. PICK q : q = [mwCall[c] EXCEPT !.pc = "done"]
  OBVIOUS
<1>4. mwCall' = [mwCall EXCEPT ![c] = q] /\ q \in MwState /\ q.pc = "done" /\ q.own = mwCall[c].own
  BY <1>1, <1>3 DEF MwInv, MwTyped, MwState, MwPhases, Mw!RecordCall, Mw!Goes
<1>5. mwLost \subseteq mwLost' /\ mwRecorded \subseteq mwRecorded' /\ (c \in mwRecorded' \/ <<c, "row">> \in mwLost')
  BY DEF Mw!RecordCall
<1>6. c \notin mwDirs' \/ <<c, "dir">> \in mwLost'
  BY <1>1, <1>2, <1>5
<1> QED
  BY <1>1, <1>4, <1>5, <1>6, CallGoesOn

LEMMA MwNext == ASSUME MwConstants, MwInv, [Mw!Next]_Mw!vars PROVE MwInv'
<1>1. CASE UNCHANGED Mw!vars
  BY <1>1 DEF Mw!vars, Mw!tables, Mw!left, MwInv, MwTyped, Mw!OneDefault, Mw!OneDefaultIn, SeenEnabled, Mw!Enabled, Allowed, LeftBehind
<1>2. CASE Mw!Next
  BY <1>2, ReadRowKeeps, CommitRowKeeps, DeleteProviderKeeps, InsertProviderKeeps, UpsertKeeps, BeginKeeps, BeginOwnKeeps,
     ChildExitsKeeps, SummarizerStepKeeps, SpawnKeeps, ExitKeeps, RecordCallKeeps DEF Mw!Next, Mw!Step
<1> QED
  BY <1>1, <1>2

(* Whatever edits race on the default flag, of any number of rows one at   *)
(* most is the default, and the summarizer and the registry find the same. *)
THEOREM DefaultIsAgreed == ASSUME MwConstants PROVE Mw!Spec => [](Mw!OneDefault /\ Mw!ResolversAgree)
<1>1. MwInv => Mw!OneDefault /\ Mw!ResolversAgree
  <2> SUFFICES ASSUME MwInv PROVE Mw!OneDefault /\ Mw!ResolversAgree
    OBVIOUS
  <2> DEFINE d == {p \in Providers : mwRow[p].there /\ mwRow[p].dflt}
             e == {p \in Mw!Enabled : mwRow[p].dflt}
  <2>1. d = DefaultRows(mwRow) /\ Mw!OneDefault
    BY DEF DefaultRows, MwInv
  <2>2. \A p, q \in d : p = q
    BY <2>1, DefaultIsOne
  <2>3. e = d \intersect Mw!Enabled
    BY DEF Mw!Enabled
  <2>4. IF d # {} /\ d \subseteq Mw!Enabled THEN e # {} /\ e = d ELSE e = {}
    BY <2>2, <2>3
  <2> QED
    BY <2>1, <2>4 DEF Mw!ResolversAgree, Mw!Pick, Mw!Default
<1>2. MwInv /\ [Mw!Next]_Mw!vars => MwInv'
  BY MwNext
<1>3. Mw!Init => MwInv
  BY MwInit
<1> QED
  BY <1>1, <1>2, <1>3, PTL DEF Mw!Spec

(* No request goes to a row that was off all through its call, and a task  *)
(* that is switched off makes none, for any number of calls and edits.     *)
THEOREM OffIsOff == ASSUME MwConstants PROVE Mw!Spec => [](Mw!DisabledNotCalled /\ Mw!SwitchedOffIsSilent)
<1>1. MwInv => Mw!DisabledNotCalled /\ Mw!SwitchedOffIsSilent
  BY DEF MwInv, SeenEnabled, Allowed, Mw!DisabledNotCalled, Mw!SwitchedOffIsSilent
<1>2. MwInv /\ [Mw!Next]_Mw!vars => MwInv'
  BY MwNext
<1>3. Mw!Init => MwInv
  BY MwInit
<1> QED
  BY <1>1, <1>2, <1>3, PTL DEF Mw!Spec

(* A call that is over left its metrics row and no scratch directory, but  *)
(* for what could not be written or removed.                               *)
THEOREM CallsLeaveARow == ASSUME MwConstants PROVE Mw!Spec => []Mw!CallsLeaveOnlyTheirRow
<1>1. MwInv => Mw!CallsLeaveOnlyTheirRow
  BY DEF MwInv, LeftBehind, Mw!CallsLeaveOnlyTheirRow
<1>2. MwInv /\ [Mw!Next]_Mw!vars => MwInv'
  BY MwNext
<1>3. Mw!Init => MwInv
  BY MwInit
<1> QED
  BY <1>1, <1>2, <1>3, PTL DEF Mw!Spec

-----------------------------------------------------------------------------
(***************************************************************************)
(* Restore: copies, replacements and roll-backs, section by section.       *)
(***************************************************************************)

(* The files are distinct, and no name is that of two things.              *)
RsConstants ==
    /\ Files \in Seq(Rs!FileSet) /\ VaultFiles \in Seq(Rs!Vault)
    /\ \A i, j \in DOMAIN Files : Files[i] = Files[j] => i = j
    /\ Rs!FileSet \intersect ({"idle", "snapshot", "none", "vault", "database"} \union Rs!Databases \union Rs!Vault) = {}
    /\ Rs!Databases \intersect Rs!Vault = {}

Content == Nat \union {Rs!Missing, Rs!Partial}
Gone == {Rs!Missing, Rs!Partial}
At(s) == IF s = "vault" THEN Rs!Vault \intersect Mapped ELSE IF s = "database" THEN {rsReq.db} ELSE {s}

RsTyped ==
    /\ rsPc \in Rs!Sections \union {"idle", "snapshot"} /\ rsN \in Nat /\ rsNext \in Nat /\ rsNext >= 1
    /\ rsDisk \in [Rs!Places -> Content] /\ rsBase \in [Rs!Places -> Content]
    /\ rsBak \in [Rs!FileSet -> [bak : SUBSET Content, stamped : SUBSET Content]]
    /\ rsReq.db \in Rs!Databases /\ rsApplied \subseteq Rs!Sections

(* Past the snapshot, the call is to apply and saved or forced.            *)
Saved ==
    /\ rsPc = "snapshot" => (rsReq.apply /\ rsDisk = rsBase)
    /\ rsPc \notin {"idle", "snapshot"} => (rsReq.apply /\ (rsSnap = "ok" \/ rsReq.force))
    /\ Rs!SavedBeforeTouched

(* .bak is filled before any other copy is made.                           *)
Copies == Rs!OriginalKept /\ \A f \in Rs!FileSet : rsBak[f].bak = {} => rsBak[f].stamped = {}

(* A file moved aside is the one the call found, and where it went shows.  *)
Moved ==
    IF rsAside = -1 THEN rsPc \in Rs!FileSet => rsDisk[rsPc] = rsBase[rsPc]
    ELSE /\ Rs!Wanted(rsPc) /\ rsPc \in Rs!FileSet /\ rsDisk[rsPc] = Rs!Missing /\ rsAside = rsBase[rsPc]
         /\ rsAside \in rsBak[rsPc].stamped \/ (rsBak[rsPc].bak = {rsAside} /\ rsBak[rsPc].stamped = {})

(* What comes at or after the current section is not listed.               *)
ToCome ==
    /\ rsPc # "idle" => (rsBroken = "none" /\ "database" \notin rsApplied)
    /\ rsPc \in Rs!FileSet \union {"snapshot", "vault"} => "vault" \notin rsApplied
    /\ rsPc = "snapshot" => rsApplied = {}
    /\ \A i, k \in DOMAIN Files : (rsPc = Files[k] /\ k <= i) => Files[i] \notin rsApplied

Unpacked ==
    /\ rsPc # "vault" => rsNext = 1
    /\ rsPc = "vault" => \A i \in DOMAIN VaultFiles : (i < rsNext /\ VaultFiles[i] \in Mapped) => rsDisk[VaultFiles[i]] = rsN

(* A vault that no file of was unpacked is as it was.                      *)
Fresh ==
    rsPc = "vault" => /\ rsNext = 1 \/ "vault" \in rsReq.has
                      /\ rsNext = 1 => \A p \in At("vault") : rsDisk[p] = rsBase[p]

(* A listed section is the bundle's; one that is not listed, not the       *)
(* current one and not the broken one is as it was.                        *)
Told ==
    \A s \in Rs!Sections :
       /\ s \in rsApplied => \A p \in At(s) : rsDisk[p] = rsN
       /\ (s \notin rsApplied /\ s # rsBroken /\ s # rsPc) => \A p \in At(s) : rsDisk[p] = rsBase[p]

Holes == \A f \in Rs!FileSet \ rsHole : rsDisk[f] \in Gone => (rsBase[f] \in Gone \/ (rsPc = f /\ rsAside # -1))

RsInv == RsTyped /\ Saved /\ Copies /\ Moved /\ ToCome /\ Unpacked /\ Fresh /\ Told /\ Holes

(* Names.                                                                  *)
LEMMA Apart ==
    ASSUME RsConstants, RsTyped
    PROVE  /\ \A s \in Rs!Sections : At(s) \subseteq Rs!Places /\ s \notin {"idle", "snapshot", "none"}
           /\ \A s, t \in Rs!Sections : s # t => At(s) \intersect At(t) = {}
           /\ \A f \in Rs!FileSet : At(f) = {f} /\ f \in Rs!Sections /\ f \in Rs!Places /\ f \notin {"vault", "database", "idle", "snapshot", "none"}
           /\ At("vault") = Rs!Vault \intersect Mapped /\ At("database") = {rsReq.db} /\ {"vault", "database"} \subseteq Rs!Sections
           /\ \A f \in Rs!FileSet : f \notin At("vault") /\ f \notin At("database")
<1>1. /\ Rs!Sections = Rs!FileSet \union {"vault", "database"} /\ Rs!Places = Rs!FileSet \union Rs!Databases \union Rs!Vault
      /\ rsReq.db \in Rs!Databases
  BY DEF Rs!Sections, Rs!Places, RsTyped
<1>2. \A f \in Rs!FileSet : f \notin {"vault", "database", "idle", "snapshot", "none"} /\ f \notin Rs!Databases /\ f \notin Rs!Vault
  BY DEF RsConstants
<1>3. "vault" # "database" /\ \A f \in Rs!FileSet : At(f) = {f}
  BY <1>2 DEF At
<1>4. At("vault") = Rs!Vault \intersect Mapped /\ At("database") = {rsReq.db}
  BY DEF At
<1>5. rsReq.db \notin Rs!Vault
  BY <1>1 DEF RsConstants
<1>6. \A s \in Rs!Sections : At(s) \subseteq Rs!Places /\ s \notin {"idle", "snapshot", "none"}
  BY <1>1, <1>2, <1>3, <1>4
<1>7. \A s, t \in Rs!Sections : s # t => At(s) \intersect At(t) = {}
  BY <1>1, <1>2, <1>3, <1>4, <1>5
<1> QED
  BY <1>1, <1>2, <1>3, <1>4, <1>6, <1>7

LEMMA NextFile ==
    ASSUME RsConstants, NEW k \in DOMAIN Files
    PROVE  Rs!After(Files[k]) = IF k < Len(Files) THEN Files[k + 1] ELSE "vault"
<1>1. \A j \in DOMAIN Files : Files[j] = Files[k] => j = k
  BY DEF RsConstants
<1> QED
  BY <1>1 DEF Rs!After

LEMMA FileNumbers ==
    ASSUME RsConstants
    PROVE  /\ DOMAIN Files = 1..Len(Files) /\ Len(Files) \in Nat /\ DOMAIN VaultFiles = 1..Len(VaultFiles) /\ Len(VaultFiles) \in Nat
           /\ \A f \in Rs!FileSet : \E k \in DOMAIN Files : f = Files[k]
           /\ \A k \in DOMAIN Files : Files[k] \in Rs!FileSet
           /\ \A k \in DOMAIN VaultFiles : VaultFiles[k] \in Rs!Vault
  BY DEF RsConstants, Rs!FileSet, Rs!Vault

(* A step of the section t that the call is at.                            *)
LEMMA SectionTold ==
    ASSUME RsConstants, RsInv, NEW t \in Rs!Sections, rsPc = t, t \notin rsApplied, UNCHANGED <<rsN, rsReq, rsBase>>,
           \A p \in Rs!Places \ At(t) : rsDisk'[p] = rsDisk[p],
           rsApplied' = rsApplied \/ (rsApplied' = rsApplied \union {t} /\ \A p \in At(t) : rsDisk'[p] = rsN),
           t \in rsApplied' \/ rsBroken' = t \/ rsPc' = t \/ \A p \in At(t) : rsDisk'[p] = rsBase[p],
           rsBroken' \in {"none", t}
    PROVE  Told'
<1> SUFFICES ASSUME NEW s \in Rs!Sections
             PROVE  /\ s \in rsApplied' => \A p \in At(s)' : rsDisk'[p] = rsN'
                    /\ (s \notin rsApplied' /\ s # rsBroken' /\ s # rsPc') => \A p \in At(s)' : rsDisk'[p] = rsBase'[p]
  BY DEF Told
<1>1. At(s)' = At(s)
  BY DEF At
<1>2. RsTyped /\ Told /\ ToCome
  BY DEF RsInv
<1>3. At(s) \subseteq Rs!Places /\ (s # t => At(s) \intersect At(t) = {}) /\ t # "idle" /\ s # "none"
  BY <1>2, Apart
<1>4. CASE s = t
  BY <1>1, <1>4
<1>5. CASE s # t
  <2>1. \A p \in At(s) : rsDisk'[p] = rsDisk[p]
    BY <1>3, <1>5
  <2>2. rsBroken = "none"
    BY <1>2, <1>3 DEF ToCome
  <2> QED
    BY <1>1, <1>2, <1>3, <1>5, <2>1, <2>2 DEF Told
<1> QED
  BY <1>4, <1>5

LEMMA CurrentNotListed == ASSUME RsConstants, RsInv, rsPc \in Rs!Sections PROVE rsPc \notin rsApplied
<1>1. RsTyped /\ ToCome
  BY DEF RsInv
<1>2. rsPc # "idle" /\ rsPc \in Rs!FileSet \union {"vault", "database"}
  BY <1>1, Apart DEF Rs!Sections
<1>3. CASE rsPc \in Rs!FileSet
  <2>1. PICK k \in DOMAIN Files : rsPc = Files[k]
    BY <1>3, FileNumbers
  <2>2. k <= k
    BY <2>1, FileNumbers
  <2> QED
    BY <1>1, <2>1, <2>2 DEF ToCome
<1> QED
  BY <1>1, <1>2, <1>3 DEF ToCome

LEMMA RsInit == ASSUME RsConstants, Rs!Init PROVE RsInv
<1>1. /\ rsDisk = [p \in Rs!Places |-> 0] /\ rsBase = rsDisk /\ rsBak = [f \in Rs!FileSet |-> [bak |-> {}, stamped |-> {}]]
      /\ rsPc = "idle" /\ rsN = 0 /\ rsReq = Rs!NoReq /\ rsApplied = {} /\ rsAside = -1 /\ rsNext = 1 /\ rsHole = {}
  BY DEF Rs!Init
<1>2. RsTyped
  BY <1>1 DEF RsTyped, Content, Rs!NoReq, Rs!Databases
<1>3. \A f \in Rs!FileSet : f \in Rs!Places /\ f # "idle"
  BY <1>2, Apart
<1>4. \A k \in DOMAIN Files : Files[k] # "idle"
  BY <1>3, FileNumbers
<1>5. Saved /\ Copies
  BY <1>1, <1>3 DEF Saved, Copies, Rs!SavedBeforeTouched, Rs!OriginalKept
<1>6. Moved /\ ToCome /\ Unpacked /\ Fresh
  BY <1>1, <1>3, <1>4 DEF Moved, ToCome, Unpacked, Fresh
<1>7. Told /\ Holes
  BY <1>1 DEF Told, Holes
<1> QED
  BY <1>2, <1>5, <1>6, <1>7 DEF RsInv

LEMMA StageAndValidateKeeps ==
    ASSUME RsConstants, RsInv, NEW apply \in BOOLEAN, NEW force \in BOOLEAN, NEW has, NEW db \in Rs!Databases,
           Rs!StageAndValidate(apply, force, has, db)
    PROVE  RsInv'
<1>1. /\ rsPc = "idle" /\ rsN' = rsN + 1 /\ rsReq' = [apply |-> apply, force |-> force, has |-> has, db |-> db]
      /\ rsBase' = rsDisk /\ rsApplied' = {} /\ rsBroken' = "none" /\ rsHole' = {}
      /\ rsPc' = "idle" \/ (rsPc' = "snapshot" /\ apply)
      /\ rsDisk' = rsDisk /\ rsBak' = rsBak /\ rsAside' = rsAside /\ rsNext' = rsNext
  BY DEF Rs!StageAndValidate
<1>2. rsReq'.apply = apply /\ rsReq'.db = db
  BY <1>1
<1>3. RsTyped /\ RsTyped'
  BY <1>1, <1>2 DEF RsInv, RsTyped
<1>4. \A f \in Rs!FileSet : f # rsPc /\ f # rsPc'
  BY <1>1, <1>3, Apart
<1>5. rsAside = -1
  BY <1>4 DEF RsInv, Moved
<1>6. Saved' /\ Copies'
  BY <1>1, <1>2 DEF RsInv, Saved, Copies, Rs!SavedBeforeTouched, Rs!OriginalKept
<1>7. Moved' /\ ToCome' /\ Unpacked' /\ Fresh'
  BY <1>1, <1>4, <1>5 DEF RsInv, Moved, ToCome, Unpacked, Fresh
<1>8. Told' /\ Holes'
  BY <1>1, <1>5 DEF Told, Holes
<1> QED
  BY <1>3, <1>6, <1>7, <1>8 DEF RsInv

LEMMA PreRestoreSnapshotKeeps == ASSUME RsConstants, RsInv, Rs!PreRestoreSnapshot PROVE RsInv'
<1>1. /\ rsPc = "snapshot" /\ rsSnap' \in {"ok", "failed"}
      /\ rsPc' = IF rsSnap' = "failed" /\ ~rsReq.force THEN "idle" ELSE Rs!FirstFile
      /\ UNCHANGED <<rsDisk, rsBak, rsN, rsReq, rsApplied, rsAside, rsNext, rsBase, rsBroken, rsHole>>
  BY DEF Rs!PreRestoreSnapshot
<1>2. Rs!FirstFile \in Rs!FileSet \union {"vault"}
  BY FileNumbers DEF Rs!FirstFile
<1>3. RsTyped /\ RsTyped'
  BY <1>1, <1>2, Apart DEF RsInv, RsTyped, Rs!Sections
<1>4. /\ rsDisk = rsBase /\ rsReq.apply /\ rsApplied = {} /\ rsAside = -1 /\ rsNext = 1 /\ rsBroken = "none"
      /\ \A f \in Rs!FileSet : f \in Rs!Places
  BY <1>1, <1>3, Apart DEF RsInv, Saved, ToCome, Moved, Unpacked
<1>5. Saved' /\ Copies'
  BY <1>1, <1>4 DEF RsInv, Saved, Copies, Rs!SavedBeforeTouched, Rs!OriginalKept
<1>6. Moved' /\ ToCome'
  BY <1>1, <1>2, <1>4 DEF Moved, ToCome
<1>7. Unpacked'
  <2>1. \A i \in DOMAIN VaultFiles : ~(i < rsNext')
    BY <1>1, <1>4, FileNumbers
  <2> QED
    BY <1>1, <1>4, <2>1 DEF Unpacked
<1>8. Told' /\ Holes' /\ Fresh'
  BY <1>1, <1>4 DEF Told, Holes, Fresh
<1> QED
  BY <1>3, <1>5, <1>6, <1>7, <1>8 DEF RsInv

(* The call comes to the section after file f.                             *)
LEMMA ComesNext ==
    ASSUME RsConstants, RsInv, NEW f \in Rs!FileSet, rsPc = f, rsPc' = Rs!After(f),
           rsApplied' \subseteq rsApplied \union {f}, rsNext' = rsNext, rsBroken' = rsBroken
    PROVE  ToCome' /\ Unpacked' /\ rsPc' \in Rs!FileSet \union {"vault"} /\ rsPc' # f /\ rsPc' \notin rsApplied'
<1>1. RsTyped /\ ToCome /\ Unpacked
  BY DEF RsInv
<1>2. PICK k \in DOMAIN Files : f = Files[k]
  BY FileNumbers
<1>3. rsPc' = IF k < Len(Files) THEN Files[k + 1] ELSE "vault"
  BY <1>2, NextFile
<1>4. /\ f \notin {"vault", "database", "idle", "snapshot", "none"}
      /\ \A i \in DOMAIN Files : Files[i] \notin {"vault", "database", "idle", "snapshot", "none"}
  BY <1>1, Apart, FileNumbers
<1>5. k \in Nat /\ k >= 1 /\ k <= Len(Files) /\ (k < Len(Files) => k + 1 \in DOMAIN Files)
  BY FileNumbers
<1>6. \A i \in DOMAIN Files : i > k => (Files[i] \notin rsApplied' /\ Files[i] # f)
  <2> SUFFICES ASSUME NEW i \in DOMAIN Files, i > k PROVE Files[i] \notin rsApplied' /\ Files[i] # f
    OBVIOUS
  <2>1. Files[i] # f
    BY <1>2, FileNumbers DEF RsConstants
  <2>2. k <= i
    BY FileNumbers
  <2>3. Files[i] \notin rsApplied
    BY <1>1, <1>2, <2>2 DEF ToCome
  <2> QED
    BY <2>1, <2>3
<1>7. "vault" \notin rsApplied' /\ "database" \notin rsApplied' /\ rsBroken' = "none" /\ rsNext' = 1
  BY <1>1, <1>4 DEF ToCome, Unpacked
<1>8. ToCome'
  <2>1. ASSUME NEW i \in DOMAIN Files, NEW j \in DOMAIN Files, rsPc' = Files[j], j <= i PROVE Files[i] \notin rsApplied'
    <3>1. k < Len(Files) /\ Files[j] = Files[k + 1]
      BY <1>3, <1>4, <2>1
    <3>2. j = k + 1
      BY <1>5, <2>1, <3>1 DEF RsConstants
    <3> QED
      BY <1>5, <1>6, <2>1, <3>2, FileNumbers
  <2> QED
    BY <1>3, <1>4, <1>5, <1>7, <2>1 DEF ToCome
<1>9. Unpacked'
  <2>1. \A i \in DOMAIN VaultFiles : ~(i < rsNext')
    BY <1>7, FileNumbers
  <2> QED
    BY <1>7, <2>1 DEF Unpacked
<1>10. rsPc' \in Rs!FileSet \union {"vault"} /\ rsPc' # f /\ rsPc' \notin rsApplied'
  <2>1. CASE k < Len(Files)
    <3>1. rsPc' = Files[k + 1] /\ k + 1 > k
      BY <1>3, <1>5, <2>1
    <3> QED
      BY <1>5, <1>6, <2>1, <3>1, FileNumbers
  <2>2. CASE ~(k < Len(Files))
    BY <1>3, <1>4, <1>7, <2>2
  <2> QED
    BY <2>1, <2>2
<1> QED
  BY <1>8, <1>9, <1>10

(* Being past the snapshot is all a later step needs.                      *)
LEMMA StillSaved ==
    ASSUME RsConstants, RsInv, rsPc \in Rs!Sections, UNCHANGED <<rsReq, rsSnap, rsBase>>, rsPc' # "snapshot" PROVE Saved'
<1>1. rsPc \notin {"idle", "snapshot"}
  BY Apart DEF RsInv
<1> QED
  BY <1>1 DEF RsInv, Saved, Rs!SavedBeforeTouched

LEMMA EntersVault ==
    ASSUME RsConstants, RsInv, NEW f \in Rs!FileSet, rsPc = f, rsNext' = rsNext, "vault" \notin rsApplied', rsApplied \subseteq rsApplied',
           UNCHANGED <<rsReq, rsBase>>, \A p \in Rs!Places \ {f} : rsDisk'[p] = rsDisk[p]
    PROVE  Fresh'
<1>1. /\ RsTyped /\ Told /\ Unpacked /\ ToCome /\ "vault" \in Rs!Sections /\ f \notin At("vault") /\ At("vault") \subseteq Rs!Places
      /\ f \notin {"vault", "idle"} /\ "vault" # "none"
  BY Apart DEF RsInv
<1>2. rsNext = 1 /\ rsBroken = "none" /\ "vault" \notin rsApplied
  BY <1>1 DEF Unpacked, ToCome
<1>3. \A p \in At("vault") : rsDisk[p] = rsBase[p]
  BY <1>1, <1>2 DEF Told
<1>4. At("vault")' = At("vault")
  BY DEF At
<1> QED
  BY <1>1, <1>2, <1>3, <1>4 DEF Fresh

LEMMA SkipFileKeeps == ASSUME RsConstants, RsInv, NEW f \in Rs!FileSet, Rs!SkipFile(f) PROVE RsInv'
<1>1. /\ rsPc = f /\ ~Rs!Wanted(f) /\ rsPc' = Rs!After(f)
      /\ UNCHANGED <<rsN, rsReq, rsSnap, rsBase, rsDisk, rsBak, rsApplied, rsAside, rsNext, rsBroken, rsHole>>
  BY DEF Rs!SkipFile, Rs!call
<1>2. RsTyped /\ Moved /\ f \in Rs!Sections /\ f \notin rsApplied /\ rsBroken = "none"
  BY <1>1, Apart, CurrentNotListed DEF RsInv, ToCome
<1>3. ToCome' /\ Unpacked' /\ rsPc' \in Rs!FileSet \union {"vault"} /\ rsPc' # f /\ rsPc' \notin rsApplied
  BY <1>1, ComesNext
<1>4. rsAside = -1 /\ rsDisk[f] = rsBase[f]
  BY <1>1, <1>2 DEF Moved
<1>5. RsTyped' /\ rsPc' \in Rs!Sections /\ rsPc' # "snapshot"
  BY <1>1, <1>2, <1>3, Apart DEF RsTyped, Rs!Sections
<1>6. At(f) = {f} /\ \A g \in Rs!FileSet : At(g) = {g} /\ g \in Rs!Sections
  BY <1>2, Apart
<1>7. Told'
  BY <1>1, <1>2, <1>4, <1>6, SectionTold
<1>8. Moved'
  <2>1. rsPc' \in Rs!FileSet => rsDisk[rsPc'] = rsBase[rsPc']
    BY <1>1, <1>2, <1>3, <1>5, <1>6, Apart DEF RsInv, Told
  <2> QED
    BY <1>1, <1>4, <2>1 DEF Moved
<1>9. Copies' /\ Holes'
  BY <1>1, <1>4 DEF RsInv, Copies, Rs!OriginalKept, Holes
<1>10. Fresh'
  <2>1. "vault" \notin rsApplied
    BY <1>1, <1>2, <1>3 DEF RsInv, ToCome
  <2> QED
    BY <1>1, <2>1, EntersVault
<1> QED
  BY <1>1, <1>2, <1>3, <1>5, <1>7, <1>8, <1>9, <1>10, StillSaved DEF RsInv

(* Fails: the call returns, naming the section it was at.                  *)
LEMMA FailsKeeps ==
    ASSUME RsConstants, RsInv, rsPc \in Rs!Sections, Rs!Fails,
           rsDisk' \in [Rs!Places -> Content], rsBak' \in [Rs!FileSet -> [bak : SUBSET Content, stamped : SUBSET Content]],
           \A p \in Rs!Places \ At(rsPc) : rsDisk'[p] = rsDisk[p]
    PROVE  RsTyped' /\ Saved' /\ Moved' /\ ToCome' /\ Unpacked' /\ Fresh' /\ Told'
<1>1. /\ rsPc' = "idle" /\ rsAside' = -1 /\ rsNext' = 1 /\ rsBroken' = rsPc
      /\ UNCHANGED <<rsN, rsReq, rsSnap, rsBase, rsApplied>>
  BY DEF Rs!Fails, Rs!Return, Rs!call
<1>2. RsTyped
  BY DEF RsInv
<1>3. RsTyped'
  BY <1>1, <1>2 DEF RsTyped
<1>4. \A f \in Rs!FileSet : f # "idle"
  BY <1>2, Apart
<1>5. \A k \in DOMAIN Files : Files[k] # "idle"
  BY <1>4, FileNumbers
<1>6. Moved' /\ ToCome' /\ Unpacked' /\ Fresh'
  BY <1>1, <1>4, <1>5 DEF Moved, ToCome, Unpacked, Fresh
<1>7. Told'
  BY <1>1, SectionTold, CurrentNotListed
<1> QED
  BY <1>1, <1>3, <1>6, <1>7, StillSaved

LEMMA InstallRefusedKeeps == ASSUME RsConstants, RsInv, NEW f \in Rs!FileSet, Rs!InstallRefused(f) PROVE RsInv'
<1>1. Rs!Wanted(f) /\ rsPc = f /\ rsAside = -1 /\ Rs!Fails /\ UNCHANGED <<rsDisk, rsBak, rsHole>>
  BY DEF Rs!InstallRefused, Rs!Wanted
<1>2. rsPc \in Rs!Sections /\ RsTyped
  BY <1>1, Apart DEF RsInv
<1>3. RsTyped' /\ Saved' /\ Moved' /\ ToCome' /\ Unpacked' /\ Fresh' /\ Told'
  BY <1>1, <1>2, FailsKeeps DEF RsTyped
<1>4. rsBase' = rsBase
  BY <1>1 DEF Rs!Fails, Rs!call
<1>5. Copies' /\ Holes'
  BY <1>1, <1>4 DEF RsInv, Copies, Rs!OriginalKept, Holes
<1> QED
  BY <1>3, <1>5 DEF RsInv

LEMMA MoveAsideKeeps == ASSUME RsConstants, RsInv, NEW f \in Rs!FileSet, Rs!MoveAside(f) PROVE RsInv'
<1>1. /\ Rs!Wanted(f) /\ rsPc = f /\ rsAside = -1 /\ rsDisk[f] # Rs!Missing
      /\ rsBak' = IF rsBak[f].bak = {} THEN [rsBak EXCEPT ![f].bak = {rsDisk[f]}]
                  ELSE [rsBak EXCEPT ![f].stamped = @ \union {rsDisk[f]}]
      /\ rsAside' = rsDisk[f] /\ rsDisk' = [rsDisk EXCEPT ![f] = Rs!Missing]
      /\ UNCHANGED <<rsN, rsReq, rsSnap, rsBase, rsPc, rsApplied, rsNext, rsBroken, rsHole>>
  BY DEF Rs!MoveAside, Rs!Wanted, Rs!Writes, Rs!call
<1>2. /\ RsTyped /\ Moved /\ Copies /\ Holes /\ Unpacked /\ f \in Rs!Sections /\ f \in Rs!Places /\ f \notin rsApplied /\ rsBroken = "none"
      /\ At(f) = {f} /\ f \notin {"vault", "snapshot"} /\ Rs!FileSet \subseteq Rs!Places
  BY <1>1, Apart, CurrentNotListed DEF RsInv, ToCome
<1>3. /\ rsDisk[f] = rsBase[f] /\ rsDisk[f] \in Content /\ rsDisk[f] # -1 /\ rsDisk'[f] = Rs!Missing
      /\ \A p \in Rs!Places \ {f} : rsDisk'[p] = rsDisk[p]
  BY <1>1, <1>2 DEF Moved, RsTyped, Content, Rs!Missing, Rs!Partial
<1>4. /\ rsBak' \in [Rs!FileSet -> [bak : SUBSET Content, stamped : SUBSET Content]]
      /\ \A g \in Rs!FileSet \ {f} : rsBak'[g] = rsBak[g]
      /\ rsBak[f].bak = {} => (rsBak'[f].bak = {rsDisk[f]} /\ rsBak'[f].stamped = rsBak[f].stamped)
      /\ rsBak[f].bak # {} => (rsBak'[f].bak = rsBak[f].bak /\ rsBak'[f].stamped = rsBak[f].stamped \union {rsDisk[f]})
  <2>1. rsBak \in [Rs!FileSet -> [bak : SUBSET Content, stamped : SUBSET Content]]
    BY <1>2 DEF RsTyped
  <2>2. CASE rsBak[f].bak = {}
    BY <1>1, <1>3, <2>1, <2>2
  <2>3. CASE rsBak[f].bak # {}
    BY <1>1, <1>3, <2>1, <2>3
  <2> QED
    BY <2>2, <2>3
<1>5. RsTyped'
  BY <1>1, <1>2, <1>3, <1>4 DEF RsTyped, Content
<1>6. Copies'
  BY <1>1, <1>2, <1>3, <1>4 DEF Copies, Rs!OriginalKept
<1>7. Moved'
  BY <1>1, <1>2, <1>3, <1>4 DEF Moved, Copies, Rs!Wanted
<1>8. ToCome' /\ Unpacked' /\ Fresh'
  BY <1>1, <1>2 DEF RsInv, ToCome, Unpacked, Fresh
<1>9. Told'
  BY <1>1, <1>2, <1>3, SectionTold
<1>10. Holes'
  BY <1>1, <1>2, <1>3 DEF Holes
<1> QED
  BY <1>1, <1>2, <1>5, <1>6, <1>7, <1>8, <1>9, <1>10, StillSaved DEF RsInv

LEMMA InstalledKeeps == ASSUME RsConstants, RsInv, NEW f \in Rs!FileSet, Rs!Installed(f) PROVE RsInv'
<1>1. /\ rsPc = f /\ rsDisk[f] = Rs!Missing /\ rsDisk' = [rsDisk EXCEPT ![f] = rsN]
      /\ rsApplied' = rsApplied \union {f} /\ rsPc' = Rs!After(f) /\ rsAside' = -1
      /\ UNCHANGED <<rsN, rsReq, rsSnap, rsBase, rsBak, rsNext, rsBroken, rsHole>>
  BY DEF Rs!Installed, Rs!Wanted, Rs!Writes, Rs!call
<1>2. /\ RsTyped /\ Moved /\ Copies /\ Holes /\ f \in Rs!Sections /\ f \in Rs!Places /\ f \notin rsApplied /\ rsBroken = "none"
      /\ At(f) = {f} /\ Rs!FileSet \subseteq Rs!Places
  BY <1>1, Apart, CurrentNotListed DEF RsInv, ToCome
<1>3. rsDisk'[f] = rsN /\ rsN \in Nat /\ rsN \notin Gone /\ \A p \in Rs!Places \ {f} : rsDisk'[p] = rsDisk[p]
  BY <1>1, <1>2 DEF RsTyped, Gone, Rs!Missing, Rs!Partial
<1>4. ToCome' /\ Unpacked' /\ rsPc' \in Rs!FileSet \union {"vault"} /\ rsPc' # f /\ rsPc' \notin rsApplied'
  BY <1>1, ComesNext
<1>5. RsTyped' /\ rsPc' # "snapshot" /\ rsPc' \in Rs!Sections
  BY <1>1, <1>2, <1>3, <1>4, Apart DEF RsTyped, Content, Rs!Sections
<1>6. Told'
  BY <1>1, <1>2, <1>3, SectionTold
<1>7. Moved'
  <2>1. rsPc' \in Rs!FileSet => rsDisk'[rsPc'] = rsBase[rsPc']
    <3> SUFFICES ASSUME rsPc' \in Rs!FileSet PROVE rsDisk'[rsPc'] = rsBase[rsPc']
      OBVIOUS
    <3>1. At(rsPc') = {rsPc'} /\ rsPc' \in Rs!Sections /\ rsPc' \in Rs!Places /\ rsPc' # "none"
      BY <1>2, Apart
    <3>2. rsPc' \notin rsApplied /\ rsPc' # rsPc /\ rsPc' # rsBroken
      BY <1>1, <1>2, <1>4, <3>1
    <3>3. rsDisk[rsPc'] = rsBase[rsPc']
      BY <3>1, <3>2 DEF RsInv, Told
    <3> QED
      BY <1>1, <1>3, <3>1, <3>2, <3>3
  <2> QED
    BY <1>1, <2>1 DEF Moved
<1>8. Copies'
  <2>1. 0 \in rsBak[f].bak \union rsBak[f].stamped
    BY <1>1, <1>2 DEF Copies, Rs!OriginalKept, Rs!Missing
  <2> QED
    BY <1>1, <1>2, <1>3, <2>1 DEF Copies, Rs!OriginalKept
<1>9. Holes'
  BY <1>1, <1>2, <1>3 DEF Holes
<1>10. Fresh'
  <2>1. "vault" \notin rsApplied'
    BY <1>4 DEF ToCome
  <2> QED
    BY <1>1, <1>3, <2>1, EntersVault
<1> QED
  BY <1>1, <1>2, <1>4, <1>5, <1>6, <1>7, <1>8, <1>9, <1>10, StillSaved DEF RsInv

LEMMA TornIs == ASSUME RsConstants, RsTyped, NEW p \in Rs!Places, Rs!Torn(p)
                PROVE  /\ rsDisk' \in [Rs!Places -> Content] /\ \A r \in Rs!Places \ {p} : rsDisk'[r] = rsDisk[r]
                       /\ rsDisk'[p] \in {rsDisk[p], Rs!Partial}
<1>1. rsDisk \in [Rs!Places -> Content]
  BY DEF RsTyped
<1> QED
  BY <1>1 DEF Rs!Torn, Content

LEMMA RollbackKeeps == ASSUME RsConstants, RsInv, NEW f \in Rs!FileSet, Rs!Rollback(f) PROVE RsInv'
<1>1. Rs!Wanted(f) /\ rsPc = f /\ rsDisk[f] = Rs!Missing /\ Rs!Fails
  BY DEF Rs!Rollback, Rs!Wanted
<1>2. /\ RsTyped /\ Moved /\ Copies /\ Holes /\ f \in Rs!Sections /\ f \in Rs!Places /\ At(f) = {f} /\ Rs!FileSet \subseteq Rs!Places
      /\ rsBase' = rsBase /\ rsAside' = -1 /\ rsPc' = "idle" /\ f # "idle"
  BY <1>1, Apart DEF RsInv, Rs!Fails, Rs!Return, Rs!call
<1>3. rsBak \in [Rs!FileSet -> [bak : SUBSET Content, stamped : SUBSET Content]] /\ rsDisk \in [Rs!Places -> Content] /\ rsBase \in [Rs!Places -> Content]
  BY <1>2 DEF RsTyped
<1>4. 0 \in rsBak[f].bak \union rsBak[f].stamped
  BY <1>1, <1>2 DEF Copies, Rs!OriginalKept, Rs!Missing
<1>5. ASSUME Rs!Torn(f), rsBak' = rsBak, (rsAside = -1 /\ rsHole' = rsHole) \/ rsHole' = rsHole \union {f} PROVE RsInv'
  <2>1. rsDisk' \in [Rs!Places -> Content] /\ (\A r \in Rs!Places \ {f} : rsDisk'[r] = rsDisk[r]) /\ rsDisk'[f] \in {rsDisk[f], Rs!Partial}
    BY <1>2, <1>5, TornIs
  <2>2. RsTyped' /\ Saved' /\ Moved' /\ ToCome' /\ Unpacked' /\ Fresh' /\ Told'
    BY <1>1, <1>2, <1>3, <1>5, <2>1, FailsKeeps
  <2>3. Copies'
    BY <1>2, <1>4, <1>5, <2>1 DEF Copies, Rs!OriginalKept
  <2>4. Holes'
    <3>1. ASSUME NEW g \in Rs!FileSet \ rsHole', rsDisk'[g] \in Gone PROVE rsBase[g] \in Gone
      <4>1. g \notin rsHole
        BY <1>5, <3>1
      <4>2. CASE g # f
        BY <1>1, <1>2, <2>1, <3>1, <4>1, <4>2 DEF Holes
      <4>3. CASE g = f
        BY <1>1, <1>2, <1>5, <3>1, <4>3 DEF Moved, Gone
      <4> QED
        BY <4>2, <4>3
    <3> QED
      BY <1>2, <3>1 DEF Holes
  <2> QED
    BY <2>2, <2>3, <2>4 DEF RsInv
<1>6. ASSUME rsAside # -1, rsDisk' = [rsDisk EXCEPT ![f] = rsAside], rsHole' = rsHole,
             rsBak' = IF rsAside \in rsBak[f].stamped THEN [rsBak EXCEPT ![f].stamped = @ \ {rsAside}] ELSE [rsBak EXCEPT ![f].bak = {}]
      PROVE  RsInv'
  <2>1. rsAside = rsBase[f] /\ (rsAside \in rsBak[f].stamped \/ (rsBak[f].bak = {rsAside} /\ rsBak[f].stamped = {}))
    BY <1>1, <1>2, <1>6 DEF Moved
  <2>2. rsAside \in Content
    BY <1>2, <1>3, <2>1
  <2>3. rsDisk' \in [Rs!Places -> Content] /\ rsDisk'[f] = rsBase[f] /\ \A r \in Rs!Places \ {f} : rsDisk'[r] = rsDisk[r]
    BY <1>2, <1>3, <1>6, <2>1, <2>2
  <2>4. /\ rsBak' \in [Rs!FileSet -> [bak : SUBSET Content, stamped : SUBSET Content]]
        /\ \A g \in Rs!FileSet \ {f} : rsBak'[g] = rsBak[g]
        /\ \/ rsBak'[f].bak = rsBak[f].bak /\ rsBak'[f].stamped = rsBak[f].stamped \ {rsAside}
           \/ rsBak'[f].bak = {} /\ rsBak'[f].stamped = {} /\ rsBak[f].bak = {rsAside} /\ rsBak[f].stamped = {}
    <3>1. CASE rsAside \in rsBak[f].stamped
      BY <1>3, <1>6, <3>1
    <3>2. CASE rsAside \notin rsBak[f].stamped
      BY <1>3, <1>6, <2>1, <3>2
    <3> QED
      BY <3>1, <3>2
  <2>5. RsTyped' /\ Saved' /\ Moved' /\ ToCome' /\ Unpacked' /\ Fresh' /\ Told'
    BY <1>1, <1>2, <2>3, <2>4, FailsKeeps
  <2>6. Copies'
    <3>1. rsDisk'[f] = 0 \/ 0 \in rsBak'[f].bak \union rsBak'[f].stamped
      BY <1>4, <2>1, <2>3, <2>4
    <3>2. rsBak'[f].bak = {} => rsBak'[f].stamped = {}
      BY <1>2, <2>4 DEF Copies
    <3> QED
      BY <1>2, <2>3, <2>4, <3>1, <3>2 DEF Copies, Rs!OriginalKept
  <2>7. Holes'
    BY <1>1, <1>2, <1>6, <2>3 DEF Holes
  <2> QED
    BY <2>5, <2>6, <2>7 DEF RsInv
<1> QED
  BY <1>5, <1>6 DEF Rs!Rollback, Rs!Writes

LEMMA SkipVaultKeeps == ASSUME RsConstants, RsInv, Rs!SkipVault PROVE RsInv'
<1>1. /\ rsPc = "vault" /\ rsPc' = "database"
      /\ UNCHANGED <<rsN, rsReq, rsSnap, rsBase, rsDisk, rsBak, rsApplied, rsAside, rsNext, rsBroken, rsHole>>
  BY DEF Rs!SkipVault, Rs!call
<1>2. /\ RsTyped /\ Moved /\ ToCome /\ Unpacked /\ Fresh /\ "vault" \in Rs!Sections /\ "database" \in Rs!Sections /\ "vault" \notin rsApplied
      /\ rsBroken = "none" /\ "vault" \notin rsReq.has /\ \A f \in Rs!FileSet : f \notin {"vault", "database"}
  BY <1>1, Apart DEF RsInv, ToCome, Rs!SkipVault
<1>3. rsNext = 1 /\ \A p \in At("vault") : rsDisk[p] = rsBase[p]
  BY <1>1, <1>2 DEF Fresh
<1>4. RsTyped' /\ Fresh'
  BY <1>1, <1>2 DEF RsTyped, Fresh
<1>5. Told'
  BY <1>1, <1>2, <1>3, SectionTold
<1>6. \A k \in DOMAIN Files : Files[k] \notin {"vault", "database"}
  BY <1>2, FileNumbers
<1>7. Moved' /\ ToCome' /\ Unpacked'
  BY <1>1, <1>2, <1>3, <1>6 DEF Moved, ToCome, Unpacked
<1>8. Copies' /\ Holes'
  BY <1>1, <1>2 DEF RsInv, Copies, Rs!OriginalKept, Moved, Holes
<1> QED
  BY <1>1, <1>2, <1>4, <1>5, <1>7, <1>8, StillSaved DEF RsInv

LEMMA UnpackFileKeeps == ASSUME RsConstants, RsInv, Rs!UnpackFile PROVE RsInv'
<1> DEFINE p == VaultFiles[rsNext]
<1>1. /\ rsPc = "vault" /\ rsNext <= Len(VaultFiles) /\ rsNext' = rsNext + 1
      /\ rsDisk' = IF p \in Mapped THEN [rsDisk EXCEPT ![p] = rsN] ELSE rsDisk
      /\ UNCHANGED <<rsN, rsReq, rsSnap, rsBase, rsBak, rsPc, rsApplied, rsAside, rsBroken, rsHole>>
      /\ "vault" \in rsReq.has
  BY DEF Rs!UnpackFile, Rs!Writes, Rs!call
<1>2. /\ RsTyped /\ Moved /\ Copies /\ Holes /\ Unpacked /\ ToCome /\ "vault" \in Rs!Sections /\ "vault" \notin rsApplied
      /\ At("vault") = Rs!Vault \intersect Mapped /\ Rs!FileSet \subseteq Rs!Places /\ rsBroken = "none"
      /\ \A f \in Rs!FileSet : f \notin Rs!Vault /\ f # "vault"
  BY <1>1, Apart DEF RsInv, ToCome, RsConstants
<1>3. rsAside = -1
  BY <1>1, <1>2 DEF Moved
<1>4. rsNext \in Nat /\ (rsNext >= 1 => p \in Rs!Vault) /\ Rs!Vault \subseteq Rs!Places /\ rsN \in Nat
  BY <1>1, <1>2, FileNumbers DEF RsTyped, Rs!Places
<1> HIDE DEF p
<1>5. rsNext >= 1
  BY <1>2 DEF RsTyped
<1>6. rsDisk' \in [Rs!Places -> Content] /\ (p \in Mapped => rsDisk'[p] = rsN) /\ \A r \in Rs!Places : (r # p \/ p \notin Mapped) => rsDisk'[r] = rsDisk[r]
  <2>1. rsDisk \in [Rs!Places -> Content]
    BY <1>2 DEF RsTyped
  <2> QED
    BY <1>1, <1>4, <1>5, <2>1 DEF Content
<1>7. RsTyped'
  BY <1>1, <1>2, <1>4, <1>5, <1>6 DEF RsTyped
<1>8. Told'
  BY <1>1, <1>2, <1>4, <1>5, <1>6, SectionTold
<1>9. Unpacked'
  <2>1. ASSUME NEW i \in DOMAIN VaultFiles, i < rsNext', VaultFiles[i] \in Mapped PROVE rsDisk'[VaultFiles[i]] = rsN
    <3>1. VaultFiles[i] \in Rs!Places
      BY <1>4, FileNumbers
    <3>2. i < rsNext \/ i = rsNext
      BY <1>1, <1>4, <2>1, FileNumbers
    <3>3. i < rsNext => rsDisk[VaultFiles[i]] = rsN
      BY <1>1, <1>2, <2>1 DEF Unpacked
    <3>4. VaultFiles[i] = p \/ VaultFiles[i] # p
      OBVIOUS
    <3> QED
      BY <1>6, <2>1, <3>1, <3>2, <3>3, <3>4 DEF p
  <2> QED
    BY <1>1, <2>1 DEF Unpacked
<1>10. \A f \in Rs!FileSet : rsDisk'[f] = rsDisk[f]
  BY <1>2, <1>4, <1>5, <1>6
<1>11. Copies' /\ Holes'
  BY <1>1, <1>2, <1>10 DEF Copies, Rs!OriginalKept, Holes
<1>12. Moved' /\ ToCome' /\ Fresh'
  BY <1>1, <1>2, <1>3, <1>4, <1>5, <1>10 DEF Moved, ToCome, Fresh
<1> QED
  BY <1>1, <1>2, <1>7, <1>8, <1>9, <1>11, <1>12, StillSaved DEF RsInv

LEMMA VaultAppliedKeeps == ASSUME RsConstants, RsInv, Rs!VaultApplied PROVE RsInv'
<1>1. /\ rsPc = "vault" /\ rsNext > Len(VaultFiles) /\ rsApplied' = rsApplied \union {"vault"} /\ rsPc' = "database" /\ rsNext' = 1
      /\ UNCHANGED <<rsN, rsReq, rsSnap, rsBase, rsDisk, rsBak, rsAside, rsBroken, rsHole>>
  BY DEF Rs!VaultApplied, Rs!call
<1>2. /\ RsTyped /\ Moved /\ Copies /\ Holes /\ ToCome /\ Unpacked /\ "vault" \in Rs!Sections /\ "database" \in Rs!Sections /\ "vault" \notin rsApplied
      /\ At("vault") = Rs!Vault \intersect Mapped /\ rsBroken = "none" /\ "vault" # "none"
      /\ \A f \in Rs!FileSet : f \notin {"vault", "database"}
  BY <1>1, Apart DEF RsInv, ToCome
<1>3. \A q \in At("vault") : rsDisk[q] = rsN
  <2> SUFFICES ASSUME NEW q \in At("vault") PROVE rsDisk[q] = rsN
    OBVIOUS
  <2>1. PICK i \in DOMAIN VaultFiles : q = VaultFiles[i]
    BY <1>2 DEF Rs!Vault
  <2>2. i < rsNext
    BY <1>1, <1>2, FileNumbers DEF RsTyped
  <2> QED
    BY <1>1, <1>2, <2>1, <2>2 DEF Unpacked
<1>4. Told'
  BY <1>1, <1>2, <1>3, SectionTold
<1>5. RsTyped'
  BY <1>1, <1>2 DEF RsTyped
<1>6. \A k \in DOMAIN Files : Files[k] \notin {"vault", "database"}
  BY <1>2, FileNumbers
<1>7. Moved' /\ ToCome' /\ Unpacked' /\ Fresh'
  BY <1>1, <1>2, <1>6 DEF Moved, ToCome, Unpacked, Fresh
<1>8. Copies' /\ Holes'
  BY <1>1, <1>2 DEF Copies, Rs!OriginalKept, Moved, Holes
<1> QED
  BY <1>1, <1>2, <1>4, <1>5, <1>7, <1>8, StillSaved DEF RsInv

(* The vault or the database fails or is cut off: no file is touched.      *)
LEMMA BrokenKeeps ==
    ASSUME RsConstants, RsInv, rsPc \in {"vault", "database"}, Rs!Fails, UNCHANGED <<rsBak, rsHole>>,
           rsDisk' \in [Rs!Places -> Content], \A p \in Rs!Places \ At(rsPc) : rsDisk'[p] = rsDisk[p]
    PROVE  RsInv'
<1>1. /\ RsTyped /\ Moved /\ Copies /\ Holes /\ rsPc \in Rs!Sections /\ Rs!FileSet \subseteq Rs!Places
      /\ \A f \in Rs!FileSet : f \notin At("vault") /\ f \notin At("database") /\ f \notin {"vault", "database", "idle"}
  BY Apart DEF RsInv
<1>2. RsTyped' /\ Saved' /\ Moved' /\ ToCome' /\ Unpacked' /\ Fresh' /\ Told'
  BY <1>1, FailsKeeps DEF RsTyped
<1>3. rsBase' = rsBase /\ rsAside = -1 /\ rsAside' = -1
  BY <1>1 DEF Rs!Fails, Rs!Return, Rs!call, Moved
<1>4. \A f \in Rs!FileSet : rsDisk'[f] = rsDisk[f]
  BY <1>1
<1>5. Copies' /\ Holes'
  BY <1>1, <1>3, <1>4 DEF Copies, Rs!OriginalKept, Holes
<1> QED
  BY <1>2, <1>5 DEF RsInv

LEMMA TornVaultIs ==
    ASSUME RsConstants, RsInv, Rs!TornVault
    PROVE  rsDisk' \in [Rs!Places -> Content] /\ \A p \in Rs!Places \ At("vault") : rsDisk'[p] = rsDisk[p]
<1>1. RsTyped /\ rsDisk \in [Rs!Places -> Content] /\ rsNext \in Nat /\ rsNext >= 1 /\ At("vault") = Rs!Vault \intersect Mapped
  BY Apart DEF RsInv, RsTyped
<1>2. CASE rsNext <= Len(VaultFiles) /\ VaultFiles[rsNext] \in Mapped /\ Rs!Torn(VaultFiles[rsNext])
  <2>1. VaultFiles[rsNext] \in Rs!Vault /\ Rs!Vault \subseteq Rs!Places
    BY <1>1, <1>2, FileNumbers DEF Rs!Places
  <2> QED
    BY <1>1, <1>2, <2>1, TornIs
<1> QED
  BY <1>1, <1>2 DEF Rs!TornVault

LEMMA UnpackFailsKeeps == ASSUME RsConstants, RsInv, Rs!UnpackFails PROVE RsInv'
  BY TornVaultIs, BrokenKeeps DEF Rs!UnpackFails

LEMMA DatabaseTorn ==
    ASSUME RsConstants, RsInv, Rs!Torn(rsReq.db) \/ Rs!Writes(rsReq.db, rsN)
    PROVE  /\ rsDisk' \in [Rs!Places -> Content] /\ \A p \in Rs!Places \ At("database") : rsDisk'[p] = rsDisk[p]
           /\ Rs!Writes(rsReq.db, rsN) => rsDisk'[rsReq.db] = rsN
<1>1. RsTyped /\ rsDisk \in [Rs!Places -> Content] /\ rsReq.db \in Rs!Places /\ At("database") = {rsReq.db} /\ rsN \in Content
  BY Apart DEF RsInv, RsTyped, Rs!Places, Content
<1>2. CASE Rs!Torn(rsReq.db) /\ ~Rs!Writes(rsReq.db, rsN)
  BY <1>1, <1>2, TornIs
<1>3. CASE Rs!Writes(rsReq.db, rsN)
  BY <1>1, <1>3 DEF Rs!Writes
<1> QED
  BY <1>2, <1>3

LEMMA PgRestoreKeeps == ASSUME RsConstants, RsInv, Rs!PgRestore PROVE RsInv'
<1>1. /\ rsPc = "database" /\ rsPc' = "idle" /\ rsAside' = -1 /\ rsNext' = 1
      /\ UNCHANGED <<rsN, rsReq, rsSnap, rsBase, rsBak, rsHole>> /\ Rs!Return
  BY DEF Rs!PgRestore, Rs!Return, Rs!call
<1>2. CASE Rs!Torn(rsReq.db) /\ rsBroken' = "database" /\ UNCHANGED rsApplied
  <2>1. Rs!Fails
    BY <1>1, <1>2 DEF Rs!Fails, Rs!call
  <2> QED
    BY <1>1, <1>2, <2>1, DatabaseTorn, BrokenKeeps
<1>3. CASE Rs!Writes(rsReq.db, rsN) /\ rsApplied' = rsApplied \union {"database"} /\ UNCHANGED rsBroken
  <2>1. /\ RsTyped /\ Moved /\ Copies /\ Holes /\ "database" \in Rs!Sections /\ Rs!FileSet \subseteq Rs!Places /\ "database" \notin rsApplied
        /\ \A f \in Rs!FileSet : f \notin At("database") /\ f \notin {"vault", "database", "idle", "snapshot"}
        /\ At("database") = {rsReq.db} /\ rsBroken = "none"
    BY <1>1, Apart DEF RsInv, ToCome
  <2>2. rsDisk' \in [Rs!Places -> Content] /\ (\A p \in Rs!Places \ At("database") : rsDisk'[p] = rsDisk[p]) /\ rsDisk'[rsReq.db] = rsN
    BY <1>3, DatabaseTorn
  <2>3. Told'
    BY <1>1, <1>3, <2>1, <2>2, SectionTold
  <2>4. RsTyped'
    BY <1>1, <1>3, <2>1, <2>2 DEF RsTyped
  <2>5. \A k \in DOMAIN Files : Files[k] # "idle"
    BY <2>1, FileNumbers
  <2>6. Moved' /\ ToCome' /\ Unpacked' /\ Fresh' /\ rsAside = -1
    BY <1>1, <1>3, <2>1, <2>5 DEF Moved, ToCome, Unpacked, Fresh
  <2>7. \A f \in Rs!FileSet : rsDisk'[f] = rsDisk[f]
    BY <2>1, <2>2
  <2>8. Copies' /\ Holes'
    BY <1>1, <2>1, <2>6, <2>7 DEF Copies, Rs!OriginalKept, Holes
  <2>9. Saved'
    BY <1>1, <2>1, StillSaved
  <2> QED
    BY <2>3, <2>4, <2>6, <2>8, <2>9 DEF RsInv
<1> QED
  BY <1>2, <1>3 DEF Rs!PgRestore

LEMMA CrashKeeps == ASSUME RsConstants, RsInv, Rs!Crash PROVE RsInv'
<1>1. /\ rsPc # "idle" /\ Rs!Fails /\ rsBak' = rsBak
      /\ rsHole' = IF rsPc \in Rs!FileSet /\ rsDisk[rsPc] = Rs!Missing THEN rsHole \union {rsPc} ELSE rsHole
  BY DEF Rs!Crash
<1>2. /\ RsTyped /\ Saved /\ Moved /\ Copies /\ Holes /\ Told /\ rsDisk \in [Rs!Places -> Content] /\ rsPc \in Rs!FileSet \union {"vault", "database", "snapshot"}
      /\ Rs!FileSet \subseteq Rs!Places /\ Rs!Sections = Rs!FileSet \union {"vault", "database"}
      /\ \A f \in Rs!FileSet : f \notin {"vault", "database", "idle", "snapshot"} /\ At(f) = {f} /\ f \in Rs!Sections
      /\ \A s \in Rs!Sections : s # "snapshot"
  BY <1>1, Apart DEF RsInv, RsTyped, Rs!Sections
<1>3. rsBase' = rsBase /\ rsAside' = -1 /\ rsPc' = "idle" /\ rsBroken' = rsPc /\ rsNext' = 1 /\ UNCHANGED <<rsN, rsReq, rsSnap, rsApplied>>
  BY <1>1 DEF Rs!Fails, Rs!Return, Rs!call
<1>4. CASE rsPc = "database"
  BY <1>1, <1>2, <1>4, DatabaseTorn, BrokenKeeps DEF Rs!Crash
<1>5. CASE rsPc = "vault"
  <2>1. rsDisk' = rsDisk \/ Rs!TornVault
    BY <1>2, <1>5 DEF Rs!Crash
  <2>2. rsDisk' \in [Rs!Places -> Content] /\ \A p \in Rs!Places \ At("vault") : rsDisk'[p] = rsDisk[p]
    BY <1>2, <2>1, TornVaultIs
  <2> QED
    BY <1>1, <1>2, <1>5, <2>2, BrokenKeeps
<1>6. CASE rsPc \in Rs!FileSet
  <2>1. rsDisk' = rsDisk \/ (rsDisk[rsPc] = Rs!Missing /\ Rs!Torn(rsPc))
    BY <1>2, <1>6 DEF Rs!Crash
  <2>2. rsDisk' \in [Rs!Places -> Content] /\ (\A r \in Rs!Places \ {rsPc} : rsDisk'[r] = rsDisk[r]) /\ (rsDisk[rsPc] # Rs!Missing => rsDisk' = rsDisk)
    <3>1. CASE rsDisk' = rsDisk
      BY <1>2, <3>1
    <3>2. CASE rsDisk[rsPc] = Rs!Missing /\ Rs!Torn(rsPc)
      BY <1>2, <1>6, <3>2, TornIs
    <3> QED
      BY <2>1, <3>1, <3>2
  <2>3. RsTyped' /\ Saved' /\ Moved' /\ ToCome' /\ Unpacked' /\ Fresh' /\ Told'
    BY <1>1, <1>2, <1>6, <2>2, FailsKeeps DEF RsTyped
  <2>4. Copies'
    <3>1. rsDisk[rsPc] = Rs!Missing => 0 \in rsBak[rsPc].bak \union rsBak[rsPc].stamped
      BY <1>2, <1>6 DEF Copies, Rs!OriginalKept, Rs!Missing
    <3> QED
      BY <1>1, <1>2, <1>6, <2>2, <3>1 DEF Copies, Rs!OriginalKept
  <2>5. Holes'
    <3>1. ASSUME NEW g \in Rs!FileSet \ rsHole', rsDisk'[g] \in Gone PROVE rsBase[g] \in Gone
      <4>1. g \notin rsHole
        BY <1>1, <3>1
      <4>2. rsDisk'[g] = rsDisk[g] /\ (g = rsPc => rsDisk[g] # Rs!Missing)
        BY <1>1, <1>2, <1>6, <2>2, <3>1
      <4>3. rsDisk[g] \in Gone => (rsBase[g] \in Gone \/ (rsPc = g /\ rsAside # -1))
        BY <1>2, <3>1, <4>1 DEF Holes
      <4> QED
        BY <1>2, <3>1, <4>2, <4>3 DEF Moved
    <3> QED
      BY <1>3, <3>1 DEF Holes
  <2> QED
    BY <2>3, <2>4, <2>5 DEF RsInv
<1>7. CASE rsPc = "snapshot"
  <2>1. rsDisk' = rsDisk /\ rsHole' = rsHole
    BY <1>1, <1>2, <1>7 DEF Rs!Crash
  <2>2. RsTyped'
    BY <1>1, <1>2, <1>3, <2>1 DEF RsTyped
  <2>3. Saved' /\ Copies'
    BY <1>1, <1>2, <1>3, <1>7, <2>1 DEF Saved, Rs!SavedBeforeTouched, Copies, Rs!OriginalKept
  <2>4. \A k \in DOMAIN Files : Files[k] # "idle"
    BY <1>2, FileNumbers
  <2>5. Moved' /\ ToCome' /\ Unpacked' /\ Fresh'
    BY <1>2, <1>3, <2>4 DEF Moved, ToCome, Unpacked, Fresh
  <2>6. rsApplied = {} /\ rsDisk = rsBase /\ rsAside = -1
    BY <1>2, <1>7 DEF RsInv, ToCome, Saved, Moved
  <2>7. \A s \in Rs!Sections : At(s) \subseteq Rs!Places
    BY <1>2, Apart
  <2>8. Told' /\ Holes'
    BY <1>2, <1>3, <2>1, <2>6 DEF Told, Holes, At
  <2> QED
    BY <2>2, <2>3, <2>5, <2>8 DEF RsInv
<1> QED
  BY <1>2, <1>4, <1>5, <1>6, <1>7

LEMMA RsNext == ASSUME RsConstants, RsInv, [Rs!Next]_Rs!vars PROVE RsInv'
<1>1. CASE UNCHANGED Rs!vars
  <2>1. UNCHANGED <<rsDisk, rsBak, rsPc, rsN, rsReq, rsSnap, rsApplied, rsAside, rsNext, rsBase, rsBroken, rsHole>>
    BY <1>1 DEF Rs!vars
  <2>2. RsTyped' /\ Saved' /\ Copies'
    BY <2>1 DEF RsInv, RsTyped, Saved, Rs!SavedBeforeTouched, Copies, Rs!OriginalKept
  <2>3. Moved' /\ ToCome' /\ Unpacked'
    BY <2>1 DEF RsInv, Moved, Rs!Wanted, ToCome, Unpacked
  <2>4. Told' /\ Holes' /\ Fresh'
    BY <2>1 DEF RsInv, Told, At, Holes, Fresh
  <2> QED
    BY <2>2, <2>3, <2>4 DEF RsInv
<1>2. CASE Rs!Next
  BY <1>2, StageAndValidateKeeps, PreRestoreSnapshotKeeps, SkipFileKeeps, InstallRefusedKeeps, MoveAsideKeeps, InstalledKeeps,
     RollbackKeeps, SkipVaultKeeps, UnpackFileKeeps, UnpackFailsKeeps, VaultAppliedKeeps, PgRestoreKeeps, CrashKeeps DEF Rs!Next
<1> QED
  BY <1>1, <1>2

(* RestoreBackup: nothing on disk changes before the instance was saved,   *)
(* for any files, bundles and number of restores.                          *)
THEOREM SavedFirst == ASSUME RsConstants PROVE Rs!Spec => []Rs!SavedBeforeTouched
<1>1. RsInv => Rs!SavedBeforeTouched
  BY DEF RsInv, Saved
<1>2. RsInv /\ [Rs!Next]_Rs!vars => RsInv'
  BY RsNext
<1>3. Rs!Init => RsInv
  BY RsInit
<1> QED
  BY <1>1, <1>2, <1>3, PTL DEF Rs!Spec

(* installFile: the first config and the first secrets are in place or     *)
(* beside it, and a restore that returns leaves no hole but where it       *)
(* crashed or its rollback failed.                                         *)
THEOREM FilesSurviveRestores == ASSUME RsConstants PROVE Rs!Spec => [](Rs!OriginalKept /\ Rs!NoHoleLeft)
<1>1. RsInv => Rs!OriginalKept /\ Rs!NoHoleLeft
  <2> SUFFICES ASSUME RsInv PROVE Rs!OriginalKept /\ Rs!NoHoleLeft
    OBVIOUS
  <2>1. \A f \in Rs!FileSet : f # "idle"
    BY Apart DEF RsInv
  <2> QED
    BY <2>1 DEF RsInv, Copies, Holes, Gone, Rs!NoHoleLeft
<1>2. RsInv /\ [Rs!Next]_Rs!vars => RsInv'
  BY RsNext
<1>3. Rs!Init => RsInv
  BY RsInit
<1> QED
  BY <1>1, <1>2, <1>3, PTL DEF Rs!Spec

(* result.Plan.Applied: a section it lists is the bundle's, one it does    *)
(* not list is as it was, but for the section at which the call broke off. *)
THEOREM AppliedTellsTheTruth == ASSUME RsConstants PROVE Rs!Spec => []Rs!AppliedIsTrue
<1>1. RsInv => Rs!AppliedIsTrue
  <2> SUFFICES ASSUME RsInv, rsPc = "idle", NEW s \in Rs!Sections
               PROVE  LET at == CASE s = "vault" -> Rs!Vault \intersect Mapped [] s = "database" -> {rsReq.db} [] OTHER -> {s}
                      IN  /\ s \in rsApplied => \A p \in at : rsDisk[p] = rsN
                          /\ (s \notin rsApplied /\ s # rsBroken) => \A p \in at : rsDisk[p] = rsBase[p]
    BY DEF Rs!AppliedIsTrue
  <2>1. (CASE s = "vault" -> Rs!Vault \intersect Mapped [] s = "database" -> {rsReq.db} [] OTHER -> {s}) = At(s)
    BY DEF At
  <2>2. s # "idle"
    BY Apart DEF RsInv
  <2> QED
    BY <2>1, <2>2 DEF RsInv, Told
<1>2. RsInv /\ [Rs!Next]_Rs!vars => RsInv'
  BY RsNext
<1>3. Rs!Init => RsInv
  BY RsInit
<1> QED
  BY <1>1, <1>2, <1>3, PTL DEF Rs!Spec

-----------------------------------------------------------------------------
(***************************************************************************)
(* The audit trail: rows in order, and pages that leave nothing out.       *)
(***************************************************************************)

AuConstants == Limit \in Nat \ {0}

LEMMA AuCardinality == ASSUME NEW S PROVE Au!Cardinality(S) = Cardinality(S)
  BY DEF Au!Cardinality, Cardinality

(* q lists S from the greatest number down.                                *)
Lists(q, n, S) ==
    /\ q \in [1..n -> S] /\ \A i, j \in 1..n : i < j => q[i] > q[j]
    /\ \A x \in S : \E i \in 1..n : q[i] = x

(* Every finite set of numbers can be listed.  A smallest one that cannot  *)
(* would have a list of the others, which its least element ends.          *)
LEMMA ListsExist == ASSUME NEW S, S \subseteq Nat, IsFiniteSet(S) PROVE \E q : Lists(q, Cardinality(S), S)
<1> DEFINE Bad == {n \in Nat : \E T \in SUBSET Nat : IsFiniteSet(T) /\ Cardinality(T) = n /\ ~\E q : Lists(q, n, T)}
<1>1. Bad = {}
  <2> SUFFICES ASSUME Bad # {} PROVE FALSE
    OBVIOUS
  <2>1. PICK n \in Bad : \A m \in Bad : n <= m
    BY LeastNumber
  <2>2. PICK T \in SUBSET Nat : IsFiniteSet(T) /\ Cardinality(T) = n /\ ~\E q : Lists(q, n, T)
    OBVIOUS
  <2>3. n \in Nat
    OBVIOUS
  <2>4. T # {}
    <3> SUFFICES ASSUME T = {} PROVE FALSE
      OBVIOUS
    <3>1. n = 0
      BY <2>2, FS_EmptySet
    <3>2. Lists([i \in 1..0 |-> i], 0, {})
      BY DEF Lists
    <3> QED
      BY <2>2, <3>1, <3>2
  <2>5. PICK x \in T : \A y \in T : x <= y
    BY <2>4, LeastNumber
  <2>6. IsFiniteSet(T \ {x}) /\ Cardinality(T \ {x}) = n - 1 /\ T \ {x} \in SUBSET Nat
    BY <2>2, FS_RemoveElement
  <2>7. n - 1 \in Nat
    BY <2>6, FS_CardinalityType
  <2>8. n - 1 \notin Bad
    BY <2>1, <2>3
  <2>9. PICK p : Lists(p, n - 1, T \ {x})
    BY <2>6, <2>7, <2>8
  <2>10. Lists([i \in 1..n |-> IF i = n THEN x ELSE p[i]], n, T)
    <3> DEFINE q == [i \in 1..n |-> IF i = n THEN x ELSE p[i]]
    <3>1. /\ p \in [1..(n - 1) -> T \ {x}] /\ (\A i, j \in 1..(n - 1) : i < j => p[i] > p[j])
          /\ \A y \in T \ {x} : \E i \in 1..(n - 1) : p[i] = y
      BY <2>9 DEF Lists
    <3>0. n \in 1..n /\ (\A i \in 1..(n - 1) : i \in 1..n /\ i # n) /\ \A i \in 1..(n - 1) : q[i] = p[i]
      BY <2>3, <2>7
    <3>2. q[n] = x /\ \A i \in 1..(n - 1) : q[i] = p[i] /\ q[i] > x /\ q[i] \in T
      <4>1. q[n] = x
        BY <3>0
      <4>2. \A i \in 1..(n - 1) : q[i] \in T \ {x}
        BY <3>0, <3>1
      <4>3. \A y \in T \ {x} : y > x
        BY <2>5
      <4> HIDE DEF q
      <4> QED
        BY <3>0, <4>1, <4>2, <4>3
    <3>3. \A i \in 1..n : i = n \/ i \in 1..(n - 1)
      BY <2>3
    <3>4. q \in [1..n -> T]
      BY <3>2, <3>3
    <3>5. \A i, j \in 1..n : i < j => q[i] > q[j]
      BY <2>3, <3>1, <3>2, <3>3
    <3>6. \A y \in T : \E i \in 1..n : q[i] = y
      <4>1. n \in 1..n /\ 1..(n - 1) \subseteq 1..n
        BY <2>3, <2>7
      <4> QED
        BY <3>1, <3>2, <4>1
    <3> HIDE DEF q
    <3> QED
      BY <3>4, <3>5, <3>6 DEF Lists, q
  <2> QED
    BY <2>2, <2>10
<1>2. Cardinality(S) \in Nat
  BY FS_CardinalityType
<1> QED
  BY <1>1, <1>2

(* T holds the first k of the list.                                        *)
Heads(q, k, T) == (\A i \in 1..k : q[i] \in T) /\ \A y \in T : \E i \in 1..k : q[i] = y

(* The first k of a list are k.                                            *)
LEMMA FirstOfList ==
    ASSUME NEW S, S \subseteq Nat, NEW n \in Nat, NEW q, Lists(q, n, S), NEW k \in Nat, k <= n,
           NEW T, Heads(q, k, T)
    PROVE  Cardinality(T) = k
<1> DEFINE f == [i \in 1..k |-> q[i]]
<1>1. \A i \in 1..k : i \in 1..n
  OBVIOUS
<1>2. \A i, j \in 1..k : i # j => q[i] # q[j]
  <2> SUFFICES ASSUME NEW i \in 1..k, NEW j \in 1..k, i # j PROVE q[i] # q[j]
    OBVIOUS
  <2>1. q[i] \in Nat /\ q[j] \in Nat /\ (i < j => q[i] > q[j]) /\ (j < i => q[j] > q[i])
    BY <1>1 DEF Lists
  <2> QED
    BY <2>1
<1>3. f \in Bijection(1..k, T)
  BY <1>2 DEF Heads, Bijection, Injection, Surjection, IsInjective
<1> QED
  BY <1>3, FS_CountingElements DEF ExistsBijection

(* Query: rows that a page leaves out are older than all of it, and then   *)
(* it is a full one.                                                       *)
LEMMA PageIsNewest ==
    ASSUME NEW S, S \subseteq Nat, IsFiniteSet(S), NEW n \in Nat
    PROVE  /\ \A x \in S \ Au!Newest(S, n) : \A y \in Au!Newest(S, n) : y > x
           /\ (\E x \in S : x \notin Au!Newest(S, n)) => Cardinality(Au!Newest(S, n)) = n
<1> DEFINE Above(i) == {j \in S : j > i}
           m == Cardinality(S)
<1>1. \A i \in S : IsFiniteSet(Above(i)) /\ Cardinality(Above(i)) \in Nat
  BY FS_Subset, FS_CardinalityType
<1>2. Au!Newest(S, n) = {i \in S : Cardinality(Above(i)) < n}
  BY AuCardinality DEF Au!Newest
<1>3. ASSUME NEW x \in S \ Au!Newest(S, n), NEW y \in Au!Newest(S, n) PROVE y > x
  <2> SUFFICES ASSUME ~(y > x) PROVE FALSE
    OBVIOUS
  <2>0. x \in S /\ y \in S /\ x \notin Au!Newest(S, n) /\ y \in Au!Newest(S, n)
    BY DEF Au!Newest
  <2>1. Above(x) \subseteq Above(y)
    <3>1. \A z \in S : z > x => z > y
      BY <2>0
    <3> QED
      BY <3>1
  <2>2. Cardinality(Above(x)) <= Cardinality(Above(y))
    BY <1>1, <2>0, <2>1, FS_Subset
  <2>3. Cardinality(Above(y)) < n /\ ~(Cardinality(Above(x)) < n)
    <3> HIDE DEF Above
    <3> QED
      BY <1>2, <2>0
  <2> QED
    BY <1>1, <2>0, <2>2, <2>3
<1>4. ASSUME NEW x \in S, x \notin Au!Newest(S, n) PROVE Cardinality(Au!Newest(S, n)) = n
  <2>1. m \in Nat
    BY FS_CardinalityType
  <2>2. PICK q : Lists(q, m, S)
    BY ListsExist
  <2> HIDE DEF m
  <2>3. \A i, j \in 1..m : (q[j] > q[i] <=> j < i) /\ q[i] \in S
    <3> SUFFICES ASSUME NEW i \in 1..m, NEW j \in 1..m PROVE (q[j] > q[i] <=> j < i) /\ q[i] \in S
      OBVIOUS
    <3>1. q[i] \in Nat /\ q[j] \in Nat /\ q[i] \in S /\ (i < j => q[i] > q[j]) /\ (j < i => q[j] > q[i])
      BY <2>2 DEF Lists
    <3> QED
      BY <3>1
  <2>4. \A i \in 1..m : Cardinality(Above(q[i])) = i - 1
    <3> SUFFICES ASSUME NEW i \in 1..m PROVE Cardinality(Above(q[i])) = i - 1
      OBVIOUS
    <3>1. \A y \in Above(q[i]) : \E j \in 1..(i - 1) : q[j] = y
      <4>1. \A j \in 1..(i - 1) : j \in 1..m /\ j < i
        BY <2>1
      <4>2. \A y \in S : \E j \in 1..m : q[j] = y
        BY <2>2 DEF Lists
      <4>3. \A j \in 1..m : j < i => j \in 1..(i - 1)
        BY <2>1
      <4> SUFFICES ASSUME NEW y \in Above(q[i]) PROVE \E j \in 1..(i - 1) : q[j] = y
        OBVIOUS
      <4> QED
        <5>1. PICK j \in 1..m : q[j] = y
          BY <4>2
        <5>2. j < i
          BY <2>3, <5>1
        <5> QED
          BY <4>3, <5>1, <5>2
    <3>4. \A j \in 1..(i - 1) : q[j] \in Above(q[i])
      <4>1. \A j \in 1..(i - 1) : j \in 1..m /\ j < i
        BY <2>1
      <4> QED
        BY <2>3, <4>1
    <3>2. i - 1 \in Nat /\ i - 1 <= m
      BY <2>1
    <3>5. Heads(q, i - 1, Above(q[i]))
      <4> HIDE DEF Above
      <4> QED
        BY <3>1, <3>4 DEF Heads
    <3>6. ASSUME NEW k \in Nat, NEW T, k <= m, Heads(q, k, T) PROVE Cardinality(T) = k
      BY <2>1, <2>2, <3>6, FirstOfList, Zenon
    <3> HIDE DEF Above
    <3> QED
      BY <3>2, <3>5, <3>6
  <2>5. PICK k \in 1..m : q[k] = x
    BY <2>2 DEF Lists
  <2>6. n < m
    BY <1>2, <1>4, <2>1, <2>4, <2>5
  <2>7. Heads(q, n, Au!Newest(S, n))
    <3>1. \A j \in 1..n : j \in 1..m /\ j - 1 < n
      BY <2>1, <2>6
    <3>2. \A y \in S : \E j \in 1..m : q[j] = y
      BY <2>2 DEF Lists
    <3>3. \A j \in 1..m : j - 1 < n => j \in 1..n
      BY <2>1
    <3>4. \A j \in 1..m : q[j] \in Au!Newest(S, n) <=> j - 1 < n
      BY <1>2, <2>3, <2>4
    <3>5. Au!Newest(S, n) \subseteq S
      BY <1>2
    <3>6. ASSUME NEW y \in Au!Newest(S, n) PROVE \E j \in 1..n : q[j] = y
      <4>1. PICK j \in 1..m : q[j] = y
        BY <3>2, <3>5
      <4> QED
        BY <3>3, <3>4, <4>1
    <3>7. ASSUME NEW j \in 1..n PROVE q[j] \in Au!Newest(S, n)
      BY <3>1, <3>4
    <3> QED
      BY <3>6, <3>7 DEF Heads
  <2>8. n <= m
    BY <2>1, <2>6
  <2> QED
    BY <2>1, <2>2, <2>7, <2>8, FirstOfList, Zenon
<1> QED
  BY <1>3, <1>4

LEMMA PageListed ==
    ASSUME NEW S, S \subseteq Nat, IsFiniteSet(S)
    PROVE  Lists(Au!Descending(S), Cardinality(S), S)
<1> DEFINE m == Cardinality(S)
           q == Au!Descending(S)
<1>1. m \in Nat
  BY FS_CardinalityType
<1>2. PICK p : Lists(p, m, S)
  BY ListsExist
<1>3. q = CHOOSE r \in [1..m -> S] : \A i, j \in 1..m : i < j => r[i] > r[j]
  BY AuCardinality DEF Au!Descending
<1>4. q \in [1..m -> S] /\ \A i, j \in 1..m : i < j => q[i] > q[j]
  BY <1>2, <1>3 DEF Lists
<1> HIDE DEF m, q
<1>5. q \in Injection(1..m, S)
  <2>1. \A i, j \in 1..m : i # j => q[i] # q[j]
    <3> SUFFICES ASSUME NEW i \in 1..m, NEW j \in 1..m, i # j PROVE q[i] # q[j]
      OBVIOUS
    <3>1. q[i] \in Nat /\ q[j] \in Nat /\ (i < j => q[i] > q[j]) /\ (j < i => q[j] > q[i])
      BY <1>4
    <3> QED
      BY <1>1, <3>1
  <2> QED
    BY <1>4, <2>1 DEF Injection, IsInjective
<1>6. IsFiniteSet(1..m) /\ Cardinality(1..m) = m
  BY <1>1, FS_Interval
<1>7. q \in Surjection(1..m, S)
  BY <1>5, <1>6, FS_Injection DEF m
<1> QED
  BY <1>4, <1>7 DEF Lists, Surjection, m, q

Shown(got) == {got[k] : k \in 1..Len(got)}
Descends(got) == \A j, k \in 1..Len(got) : j < k => got[j] > got[k]

(* Every id of M comes after what is shown; base is shown or in M; what a  *)
(* page leaves: nothing without a cursor, and else what is older.          *)
Older(M, got) == \A x \in M : \A k \in 1..Len(got) : got[k] > x
ShownOr(base, got, M) == \A x \in base : x \in Shown(got) \/ x \in M
Left(base, more, next) ==
    /\ next = 0 => base \subseteq Shown(more)
    /\ next # 0 => /\ \A k \in 1..Len(more) : more[k] >= next
                   /\ \A x \in base : x >= next => x \in Shown(more)

(* Query, and the list handlers: what a page adds to the list is older     *)
(* than all of it, and what it leaves for later is older than its cursor.  *)
LEMMA NextPage ==
    ASSUME AuConstants, NEW M, M \subseteq Nat \ {0}, IsFiniteSet(M), NEW got \in Seq(Nat), Descends(got),
           Older(M, got), NEW base, ShownOr(base, got, M),
           NEW page, page = Au!Newest(M, Limit), NEW more, more = got \o Au!Descending(page),
           NEW next, next = Au!NextCursor(page)
    PROVE  more \in Seq(Nat) /\ Descends(more) /\ next \in Nat /\ Left(base, more, next)
<1> DEFINE m == Cardinality(page)
           d == Au!Descending(page)
<1>1. page \subseteq M /\ IsFiniteSet(page) /\ page \subseteq Nat /\ M \subseteq Nat
  <2>1. page \subseteq M
    BY DEF Au!Newest
  <2> QED
    BY <2>1, FS_Subset
<1>2. m \in Nat
  BY <1>1, FS_CardinalityType
<1>3. Lists(d, m, page)
  BY <1>1, PageListed
<1>4. /\ \A x \in M \ page : \A y \in page : y > x
      /\ (\E x \in M : x \notin page) => m = Limit
  BY <1>1, PageIsNewest DEF AuConstants
<1>5. next = IF m = Limit THEN Au!Min(page) ELSE 0
  BY AuCardinality DEF Au!NextCursor
<1> HIDE DEF d, m
<1>6. d \in Seq(Nat) /\ Len(d) = m /\ \A k \in 1..m : d[k] \in page
  BY <1>1, <1>2, <1>3 DEF Lists
<1>7. more = got \o d
  BY DEF d
<1>8. /\ more \in Seq(Nat) /\ Len(more) = Len(got) + m
      /\ \A k \in 1..Len(got) : more[k] = got[k]
      /\ \A k \in 1..m : more[Len(got) + k] = d[k]
  <2>1. /\ got \o d \in Seq(Nat) /\ Len(got \o d) = Len(got) + m
        /\ \A i \in 1..(Len(got) + m) : (got \o d)[i] = IF i <= Len(got) THEN got[i] ELSE d[i - Len(got)]
    BY <1>6, ConcatProperties
  <2>2. \A k \in 1..Len(got) : k \in 1..(Len(got) + m) /\ k <= Len(got)
    BY <1>2
  <2>3. \A k \in 1..m : /\ Len(got) + k \in 1..(Len(got) + m) /\ ~(Len(got) + k <= Len(got))
                        /\ (Len(got) + k) - Len(got) = k
    BY <1>2
  <2> QED
    BY <1>7, <2>1, <2>2, <2>3
<1>9. \A k \in 1..Len(more) : \/ k \in 1..Len(got) /\ more[k] = got[k]
                              \/ k - Len(got) \in 1..m /\ more[k] = d[k - Len(got)]
  <2> SUFFICES ASSUME NEW k \in 1..Len(more), ~(k \in 1..Len(got)) PROVE k - Len(got) \in 1..m /\ more[k] = d[k - Len(got)]
    BY <1>8
  <2>1. k - Len(got) \in 1..m /\ Len(got) + (k - Len(got)) = k
    BY <1>2, <1>8
  <2> QED
    BY <1>8, <2>1
<1>10. Descends(more)
  <2> SUFFICES ASSUME NEW j \in 1..Len(more), NEW k \in 1..Len(more), j < k PROVE more[j] > more[k]
    BY DEF Descends
  <2>1. CASE k \in 1..Len(got)
    <3>1. j \in 1..Len(got)
      BY <2>1
    <3> QED
      BY <1>8, <2>1, <3>1 DEF Descends
  <2>2. CASE k \notin 1..Len(got) /\ j \in 1..Len(got)
    BY <1>1, <1>6, <1>8, <1>9, <2>2 DEF Older
  <2>3. CASE k \notin 1..Len(got) /\ j \notin 1..Len(got)
    <3>1. j - Len(got) \in 1..m /\ k - Len(got) \in 1..m /\ j - Len(got) < k - Len(got)
      BY <1>9, <2>3
    <3> QED
      BY <1>3, <1>9, <2>3, <3>1 DEF Lists
  <2> QED
    BY <2>1, <2>2, <2>3
<1>11. Shown(got) \subseteq Shown(more) /\ page \subseteq Shown(more)
  <2>1. \A k \in 1..Len(got) : k \in 1..Len(more)
    BY <1>2, <1>8
  <2>2. \A k \in 1..m : Len(got) + k \in 1..Len(more)
    BY <1>2, <1>8
  <2>3. \A x \in page : \E k \in 1..m : d[k] = x
    BY <1>3 DEF Lists
  <2>4. Shown(got) \subseteq Shown(more)
    BY <1>8, <2>1 DEF Shown
  <2>5. ASSUME NEW x \in page PROVE x \in Shown(more)
    BY <1>8, <2>2, <2>3 DEF Shown
  <2> QED
    BY <2>4, <2>5
<1>12. CASE m # Limit
  <2>1. M \subseteq page /\ next = 0
    BY <1>4, <1>5, <1>12
  <2>2. base \subseteq Shown(more)
    BY <1>11, <2>1 DEF ShownOr
  <2> QED
    BY <1>8, <1>10, <2>1, <2>2 DEF Left
<1>13. CASE m = Limit
  <2>1. page # {}
    BY <1>13, FS_EmptySet DEF AuConstants, m
  <2>2. next \in page /\ \A y \in page : next <= y
    <3>1. \E n \in page : \A y \in page : n <= y
      BY <1>1, <2>1, LeastNumber
    <3> QED
      BY <1>5, <1>13, <3>1 DEF Au!Min
  <2>3. next \in Nat /\ next # 0 /\ next \in M
    BY <1>1, <2>2
  <2>4. ASSUME NEW k \in 1..Len(more) PROVE more[k] >= next
    <3>1. CASE more[k] \in page
      BY <1>1, <2>2, <3>1
    <3>2. CASE k \in 1..Len(got) /\ more[k] = got[k]
      <4>1. got[k] \in Nat /\ got[k] > next
        BY <2>3, <3>2 DEF Older
      <4> QED
        BY <2>3, <3>2, <4>1
    <3> QED
      BY <1>6, <1>9, <3>1, <3>2
  <2>5. ASSUME NEW x \in base, x >= next PROVE x \in Shown(more)
    <3>1. CASE x \in M /\ x \notin page
      <4>1. next > x /\ x \in Nat
        BY <1>1, <1>4, <2>2, <3>1
      <4> QED
        BY <2>3, <2>5, <4>1
    <3> QED
      BY <1>11, <3>1 DEF ShownOr
  <2> QED
    BY <1>8, <1>10, <2>3, <2>4, <2>5 DEF Left
<1> QED
  BY <1>12, <1>13

AtPlain ==
    /\ atSent \in Seq(Topics) /\ atSeq \in Nat /\ atRows \subseteq [id : Nat, ev : Nat]
    /\ atBuf \in [Topics -> Seq(Nat)] /\ atTx \in [Topics -> [ev : Nat, id : Nat]]

(* Where an event of a topic is, and which ids were given.                 *)
Event(t, n) == n \in 1..Len(atSent) /\ atSent[n] = t
BufPlaced == \A t \in Topics : \A i \in 1..Len(atBuf[t]) : Event(t, atBuf[t][i])
TxPlaced == \A t \in Topics : atTx[t] # Au!NoTx => Event(t, atTx[t].ev) /\ atTx[t].id # 0 /\ atTx[t].id <= atSeq
RowPlaced == \A r \in atRows : r.ev \in 1..Len(atSent) /\ r.id \in 1..atSeq
Placed == BufPlaced /\ TxPlaced /\ RowPlaced

(* A topic's events pass from the buffer over the insert to the rows, the  *)
(* older ones first.                                                       *)
BufAscends == \A t \in Topics : \A i, j \in 1..Len(atBuf[t]) : i < j => atBuf[t][i] < atBuf[t][j]
TxFirst == \A t \in Topics : atTx[t] # Au!NoTx => \A i \in 1..Len(atBuf[t]) : atTx[t].ev < atBuf[t][i]
RowsFirst == \A t \in Topics : \A r \in atRows : atSent[r.ev] = t => \A i \in 1..Len(atBuf[t]) : r.ev < atBuf[t][i]
RowsBefore ==
    \A t \in Topics : \A r \in atRows :
       (atSent[r.ev] = t /\ atTx[t] # Au!NoTx) => r.ev < atTx[t].ev /\ r.id < atTx[t].id
InTurn == BufAscends /\ TxFirst /\ RowsFirst /\ RowsBefore /\ Au!TopicOrder

(* What the reader has been shown is newer than its cursor, and all that   *)
(* there was at first is shown or older.                                   *)
Reading ==
    /\ atRead.pc \in {"idle", "paging", "done"} /\ atRead.cursor \in Nat /\ atRead.got \in Seq(Nat)
    /\ atRead.pc = "idle" => (atRead.got = <<>> /\ atRead.cursor = 0)
    /\ atRead.pc = "paging" =>
          /\ atRead.cursor # 0 /\ atRead.base \subseteq Au!Matching(0)
          /\ \A k \in 1..Len(atRead.got) : atRead.got[k] >= atRead.cursor
          /\ \A x \in atRead.base : x >= atRead.cursor => x \in Shown(atRead.got)
    /\ Au!PagesDescend /\ Au!PagesComplete

AtInv == AtPlain /\ Placed /\ InTurn /\ Reading

LEMMA AtInit == ASSUME Au!Init PROVE AtInv
<1>1. AtPlain /\ Placed /\ Reading
  BY DEF Au!Init, AtPlain, Placed, BufPlaced, TxPlaced, RowPlaced, Event, Reading, Au!NoTx, Au!PagesDescend,
         Au!PagesComplete
<1>2. InTurn
  BY DEF Au!Init, InTurn, BufAscends, TxFirst, RowsFirst, RowsBefore, Au!NoTx, Au!TopicOrder
<1> QED
  BY <1>1, <1>2 DEF AtInv

(* The reader stays right while rows are added.                            *)
LEMMA ReadingStays ==
    ASSUME Reading, UNCHANGED atRead, Au!Matching(0) \subseteq (Au!Matching(0))'
    PROVE  Reading'
  BY DEF Reading, Shown, Au!PagesDescend, Au!PagesComplete

LEMMA PublishKeeps == ASSUME AtInv, NEW t \in Topics, Au!Publish(t) PROVE AtInv'
<1>1. AtPlain /\ Placed /\ InTurn /\ Reading
  BY DEF AtInv
<1>2. /\ atSent' = Append(atSent, t) /\ UNCHANGED <<atTx, atSeq, atRows, atRead>>
      /\ \/ UNCHANGED atBuf
         \/ atBuf' = [atBuf EXCEPT ![t] = Append(@, Len(atSent) + 1)]
  BY DEF Au!Publish
<1>3. /\ atSent' \in Seq(Topics) /\ Len(atSent') = Len(atSent) + 1 /\ Len(atSent) \in Nat
      /\ \A n \in 1..Len(atSent) : n \in 1..Len(atSent') /\ atSent'[n] = atSent[n]
      /\ atSent'[Len(atSent) + 1] = t
  BY <1>1, <1>2 DEF AtPlain
<1>4. \A r \in atRows : r.ev \in 1..Len(atSent) /\ atSent'[r.ev] = atSent[r.ev] /\ r.ev \in Nat /\ r.ev <= Len(atSent)
  BY <1>1, <1>3 DEF Placed, RowPlaced
<1>5. \A s, n : Event(s, n) => Event(s, n)' /\ n \in Nat /\ n <= Len(atSent)
  BY <1>3 DEF Event
<1>6. TxPlaced' /\ RowPlaced'
  <2>1. TxPlaced'
    BY <1>1, <1>2, <1>5 DEF Placed, TxPlaced, Au!NoTx
  <2>2. RowPlaced'
    BY <1>1, <1>2, <1>3 DEF Placed, RowPlaced
  <2> QED
    BY <2>1, <2>2
<1>7. RowsBefore' /\ Au!TopicOrder'
  <2>1. Au!TopicOrder'
    BY <1>1, <1>2, <1>4 DEF InTurn, Au!TopicOrder
  <2>2. RowsBefore'
    BY <1>1, <1>2, <1>4 DEF InTurn, RowsBefore, Au!NoTx
  <2> QED
    BY <2>1, <2>2
<1>8. Reading'
  <2>1. Au!Matching(0) \subseteq (Au!Matching(0))'
    BY <1>2, <1>4 DEF Au!Matching
  <2> QED
    BY <1>1, <1>2, <2>1, ReadingStays
<1>9. CASE UNCHANGED atBuf
  <2>1. AtPlain' /\ BufPlaced'
    BY <1>1, <1>2, <1>3, <1>5, <1>9 DEF AtPlain, Placed, BufPlaced
  <2>2. BufAscends' /\ TxFirst' /\ RowsFirst'
    BY <1>1, <1>2, <1>4, <1>9 DEF InTurn, BufAscends, TxFirst, RowsFirst, Au!NoTx
  <2> QED
    BY <1>6, <1>7, <1>8, <2>1, <2>2 DEF AtInv, Placed, InTurn
<1>10. CASE atBuf' = [atBuf EXCEPT ![t] = Append(@, Len(atSent) + 1)]
  <2>1. /\ atBuf' \in [Topics -> Seq(Nat)] /\ (\A s \in Topics : s # t => atBuf'[s] = atBuf[s])
        /\ Len(atBuf'[t]) = Len(atBuf[t]) + 1 /\ Len(atBuf[t]) \in Nat
        /\ (\A i \in 1..Len(atBuf[t]) : atBuf'[t][i] = atBuf[t][i])
        /\ atBuf'[t][Len(atBuf[t]) + 1] = Len(atSent) + 1
    BY <1>1, <1>3, <1>10 DEF AtPlain
  <2>2. \A i \in 1..Len(atBuf'[t]) : \/ /\ i \in 1..Len(atBuf[t]) /\ atBuf'[t][i] = atBuf[t][i]
                                        /\ atBuf[t][i] \in Nat /\ atBuf[t][i] <= Len(atSent)
                                     \/ i = Len(atBuf[t]) + 1 /\ atBuf'[t][i] = Len(atSent) + 1
    <3> SUFFICES ASSUME NEW i \in 1..Len(atBuf'[t])
                 PROVE  \/ /\ i \in 1..Len(atBuf[t]) /\ atBuf'[t][i] = atBuf[t][i]
                           /\ atBuf[t][i] \in Nat /\ atBuf[t][i] <= Len(atSent)
                        \/ i = Len(atBuf[t]) + 1 /\ atBuf'[t][i] = Len(atSent) + 1
      OBVIOUS
    <3>1. i \in 1..Len(atBuf[t]) \/ i = Len(atBuf[t]) + 1
      BY <2>1
    <3>2. CASE i \in 1..Len(atBuf[t])
      BY <1>1, <1>5, <2>1, <3>2 DEF Placed, BufPlaced
    <3>3. CASE i = Len(atBuf[t]) + 1
      BY <2>1, <3>3
    <3> QED
      BY <3>1, <3>2, <3>3
  <2>3. AtPlain'
    BY <1>1, <1>2, <1>3, <2>1 DEF AtPlain
  <2>4. BufPlaced'
    <3> SUFFICES ASSUME NEW s \in Topics, NEW i \in 1..Len(atBuf'[s]) PROVE Event(s, atBuf[s][i])'
      BY DEF BufPlaced
    <3>1. CASE s # t
      BY <1>1, <1>5, <2>1, <3>1 DEF Placed, BufPlaced, Event
    <3>2. CASE s = t
      <4>1. CASE i \in 1..Len(atBuf[t]) /\ atBuf'[t][i] = atBuf[t][i]
        BY <1>1, <1>5, <3>2, <4>1 DEF Placed, BufPlaced, Event
      <4>2. CASE atBuf'[t][i] = Len(atSent) + 1
        BY <1>3, <3>2, <4>2 DEF Event
      <4> QED
        BY <2>2, <3>2, <4>1, <4>2
    <3> QED
      BY <3>1, <3>2
  <2>5. BufAscends'
    <3> SUFFICES ASSUME NEW s \in Topics, NEW i \in 1..Len(atBuf'[s]), NEW j \in 1..Len(atBuf'[s]), i < j
                 PROVE  atBuf'[s][i] < atBuf'[s][j]
      BY DEF BufAscends
    <3>1. CASE s # t
      BY <1>1, <2>1, <3>1 DEF InTurn, BufAscends
    <3>2. CASE s = t
      <4>1. CASE j \in 1..Len(atBuf[t])
        <5>1. i \in 1..Len(atBuf[t])
          BY <2>1, <3>2, <4>1
        <5> QED
          BY <1>1, <2>1, <3>2, <4>1, <5>1 DEF InTurn, BufAscends
      <4>2. CASE j = Len(atBuf[t]) + 1
        <5>1. atBuf'[t][j] = Len(atSent) + 1 /\ i # Len(atBuf[t]) + 1
          BY <2>1, <4>2
        <5> QED
          BY <1>3, <2>2, <3>2, <5>1
      <4> QED
        BY <2>2, <3>2, <4>1, <4>2
    <3> QED
      BY <3>1, <3>2
  <2>6. TxFirst'
    <3> SUFFICES ASSUME NEW s \in Topics, atTx[s] # Au!NoTx, NEW i \in 1..Len(atBuf'[s]) PROVE atTx[s].ev < atBuf'[s][i]
      BY <1>2 DEF TxFirst, Au!NoTx
    <3>1. CASE s # t
      BY <1>1, <2>1, <3>1 DEF InTurn, TxFirst
    <3>2. CASE s = t
      <4>1. CASE i \in 1..Len(atBuf[t]) /\ atBuf'[t][i] = atBuf[t][i]
        BY <1>1, <3>2, <4>1 DEF InTurn, TxFirst
      <4>2. CASE atBuf'[t][i] = Len(atSent) + 1
        <5>1. atTx[s].ev \in Nat /\ atTx[s].ev <= Len(atSent)
          BY <1>1, <1>5 DEF Placed, TxPlaced
        <5> QED
          BY <1>3, <3>2, <4>2, <5>1
      <4> QED
        BY <2>2, <3>2, <4>1, <4>2
    <3> QED
      BY <3>1, <3>2
  <2>7. RowsFirst'
    <3> SUFFICES ASSUME NEW s \in Topics, NEW r \in atRows, atSent[r.ev] = s, NEW i \in 1..Len(atBuf'[s])
                 PROVE  r.ev < atBuf'[s][i]
      BY <1>2, <1>4 DEF RowsFirst
    <3>1. CASE s # t
      BY <1>1, <2>1, <3>1 DEF InTurn, RowsFirst
    <3>2. CASE s = t
      <4>1. CASE i \in 1..Len(atBuf[t]) /\ atBuf'[t][i] = atBuf[t][i]
        BY <1>1, <3>2, <4>1 DEF InTurn, RowsFirst
      <4>2. CASE atBuf'[t][i] = Len(atSent) + 1
        BY <1>3, <1>4, <3>2, <4>2
      <4> QED
        BY <2>2, <3>2, <4>1, <4>2
    <3> QED
      BY <3>1, <3>2
  <2> QED
    BY <1>6, <1>7, <1>8, <2>3, <2>4, <2>5, <2>6, <2>7 DEF AtInv, Placed, InTurn
<1> QED
  BY <1>2, <1>9, <1>10

LEMMA InsertKeeps == ASSUME AtInv, NEW t \in Topics, Au!Insert(t) PROVE AtInv'
<1>1. AtPlain /\ Placed /\ InTurn /\ Reading
  BY DEF AtInv
<1>2. /\ atTx[t] = Au!NoTx /\ atBuf[t] # <<>> /\ atSeq' = atSeq + 1
      /\ atTx' = [atTx EXCEPT ![t] = [ev |-> Head(atBuf[t]), id |-> atSeq + 1]]
      /\ atBuf' = [atBuf EXCEPT ![t] = Tail(@)] /\ UNCHANGED <<atSent, atRows, atRead>>
  BY DEF Au!Insert
<1>3. /\ atBuf' \in [Topics -> Seq(Nat)] /\ (\A s \in Topics : s # t => atBuf'[s] = atBuf[s])
      /\ Len(atBuf[t]) \in Nat /\ 1 \in 1..Len(atBuf[t])
      /\ \A i \in 1..Len(atBuf'[t]) : i + 1 \in 1..Len(atBuf[t]) /\ 1 < i + 1 /\ atBuf'[t][i] = atBuf[t][i + 1]
  BY <1>1, <1>2 DEF AtPlain
<1>4. /\ atTx' \in [Topics -> [ev : Nat, id : Nat]] /\ (\A s \in Topics : s # t => atTx'[s] = atTx[s])
      /\ atTx'[t].ev = atBuf[t][1] /\ atTx'[t].id = atSeq + 1
  BY <1>1, <1>2, <1>3 DEF AtPlain
<1>5. AtPlain'
  BY <1>1, <1>2, <1>3, <1>4 DEF AtPlain
<1>6. \A s, n : Event(s, n) <=> Event(s, n)'
  BY <1>2 DEF Event
<1>7. BufPlaced'
  <2> SUFFICES ASSUME NEW s \in Topics, NEW i \in 1..Len(atBuf'[s]) PROVE Event(s, atBuf'[s][i])
    BY <1>2 DEF BufPlaced, Event
  <2>1. CASE s = t
    BY <1>1, <1>3, <2>1 DEF Placed, BufPlaced
  <2>2. CASE s # t
    BY <1>1, <1>3, <2>2 DEF Placed, BufPlaced
  <2> QED
    BY <2>1, <2>2
<1>8. TxPlaced'
  <2> SUFFICES ASSUME NEW s \in Topics, atTx'[s] # Au!NoTx 
               PROVE  Event(s, atTx'[s].ev) /\ atTx'[s].id # 0 /\ atTx'[s].id <= atSeq'
    BY <1>2 DEF TxPlaced, Event, Au!NoTx
  <2>1. CASE s = t
    BY <1>1, <1>2, <1>3, <1>4, <2>1 DEF Placed, BufPlaced, AtPlain
  <2>2. CASE s # t
    BY <1>1, <1>2, <1>4, <2>2 DEF Placed, TxPlaced, AtPlain
  <2> QED
    BY <2>1, <2>2
<1>9. RowPlaced'
  BY <1>1, <1>2 DEF Placed, RowPlaced, AtPlain
<1>10. BufAscends'
  <2> SUFFICES ASSUME NEW s \in Topics, NEW i \in 1..Len(atBuf'[s]), NEW j \in 1..Len(atBuf'[s]), i < j
               PROVE  atBuf'[s][i] < atBuf'[s][j]
    BY DEF BufAscends
  <2>1. CASE s = t
    <3>1. i + 1 < j + 1
      OBVIOUS
    <3> QED
      BY <1>1, <1>3, <2>1, <3>1 DEF InTurn, BufAscends
  <2>2. CASE s # t
    BY <1>1, <1>3, <2>2 DEF InTurn, BufAscends
  <2> QED
    BY <2>1, <2>2
<1>11. TxFirst'
  <2> SUFFICES ASSUME NEW s \in Topics, atTx'[s] # Au!NoTx, NEW i \in 1..Len(atBuf'[s]) PROVE atTx'[s].ev < atBuf'[s][i]
    BY DEF TxFirst, Au!NoTx
  <2>1. CASE s = t
    BY <1>1, <1>3, <1>4, <2>1 DEF InTurn, BufAscends
  <2>2. CASE s # t
    BY <1>1, <1>3, <1>4, <2>2 DEF InTurn, TxFirst
  <2> QED
    BY <2>1, <2>2
<1>12. RowsFirst'
  BY <1>1, <1>2, <1>3 DEF InTurn, RowsFirst
<1>13. RowsBefore'
  <2> SUFFICES ASSUME NEW s \in Topics, NEW r \in atRows, atSent[r.ev] = s, atTx'[s] # Au!NoTx
               PROVE  r.ev < atTx'[s].ev /\ r.id < atTx'[s].id
    BY <1>2 DEF RowsBefore, Au!NoTx
  <2>1. CASE s = t
    <3>1. r.ev < atBuf[t][1]
      BY <1>1, <1>3, <2>1 DEF InTurn, RowsFirst
    <3>2. r.id \in Nat /\ r.id <= atSeq /\ atSeq \in Nat
      BY <1>1 DEF Placed, RowPlaced, AtPlain
    <3> QED
      BY <1>4, <2>1, <3>1, <3>2
  <2>2. CASE s # t
    BY <1>1, <1>4, <2>2 DEF InTurn, RowsBefore
  <2> QED
    BY <2>1, <2>2
<1>14. Au!TopicOrder' /\ Reading'
  <2>1. Au!TopicOrder'
    BY <1>1, <1>2 DEF InTurn, Au!TopicOrder
  <2>2. Reading'
    BY <1>1, <1>2, ReadingStays DEF Au!Matching
  <2> QED
    BY <2>1, <2>2
<1> QED
  BY <1>5, <1>7, <1>8, <1>9, <1>10, <1>11, <1>12, <1>13, <1>14 DEF AtInv, Placed, InTurn

LEMMA CommitKeeps == ASSUME AtInv, NEW t \in Topics, Au!Commit(t) PROVE AtInv'
<1>1. AtPlain /\ Placed /\ InTurn /\ Reading
  BY DEF AtInv
<1> DEFINE new == [id |-> atTx[t].id, ev |-> atTx[t].ev]
<1>2. /\ atTx[t] # Au!NoTx /\ atTx' = [atTx EXCEPT ![t] = Au!NoTx]
      /\ atRows' = atRows \union {new} \/ UNCHANGED atRows
      /\ UNCHANGED <<atSent, atBuf, atSeq, atRead>>
  BY DEF Au!Commit
<1>3. /\ new \in [id : Nat, ev : Nat] /\ new.id = atTx[t].id /\ new.ev = atTx[t].ev
      /\ new.ev \in 1..Len(atSent) /\ atSent[new.ev] = t /\ new.id <= atSeq
  BY <1>1, <1>2 DEF AtPlain, Placed, TxPlaced, Event
<1>4. /\ atTx' \in [Topics -> [ev : Nat, id : Nat]] /\ atTx'[t] = Au!NoTx
      /\ \A s \in Topics : s # t => atTx'[s] = atTx[s]
  BY <1>1, <1>2 DEF AtPlain, Au!NoTx
<1>5. new.id # 0
  BY <1>1, <1>2, <1>3 DEF Placed, TxPlaced
<1> HIDE DEF new
<1>6. atRows \subseteq atRows' /\ \A r \in atRows' : r \in atRows \/ r = new
  BY <1>2
<1>7. AtPlain'
  BY <1>1, <1>2, <1>3, <1>4 DEF AtPlain
<1>8. Placed'
  <2>1. BufPlaced'
    BY <1>1, <1>2 DEF Placed, BufPlaced, Event
  <2>2. TxPlaced'
    BY <1>1, <1>2, <1>4 DEF Placed, TxPlaced, Event, Au!NoTx
  <2>3. RowPlaced'
    BY <1>1, <1>2, <1>3, <1>5, <1>6 DEF Placed, RowPlaced, AtPlain
  <2> QED
    BY <2>1, <2>2, <2>3 DEF Placed
<1>9. \A r \in atRows : atSent[r.ev] = t => r.ev < new.ev /\ r.id < new.id /\ r.id \in Nat /\ r.ev \in Nat
  BY <1>1, <1>2, <1>3 DEF InTurn, RowsBefore, AtPlain
<1>10. InTurn'
  <2>1. BufAscends' /\ TxFirst'
    BY <1>1, <1>2, <1>4 DEF InTurn, BufAscends, TxFirst, Au!NoTx
  <2>2. RowsFirst'
    BY <1>1, <1>2, <1>3, <1>6 DEF InTurn, RowsFirst, TxFirst
  <2>3. RowsBefore'
    BY <1>1, <1>2, <1>3, <1>4, <1>6 DEF InTurn, RowsBefore, Au!NoTx
  <2>4. Au!TopicOrder'
    <3> SUFFICES ASSUME NEW r \in atRows', NEW q \in atRows', atSent[r.ev] = atSent[q.ev], r.id < q.id PROVE r.ev < q.ev
      BY <1>2 DEF Au!TopicOrder
    <3>1. CASE r \in atRows /\ q \in atRows
      BY <1>1, <3>1 DEF InTurn, Au!TopicOrder
    <3>2. CASE r \in atRows /\ q = new
      BY <1>3, <1>9, <3>2
    <3>3. CASE r = new /\ q \in atRows
      BY <1>3, <1>9, <3>3
    <3>4. CASE r = new /\ q = new
      BY <1>3, <3>4
    <3> QED
      BY <1>6, <3>1, <3>2, <3>3, <3>4
  <2> QED
    BY <2>1, <2>2, <2>3, <2>4 DEF InTurn
<1>11. Reading'
  <2>1. Au!Matching(0) \subseteq (Au!Matching(0))'
    BY <1>2, <1>6 DEF Au!Matching
  <2> QED
    BY <1>1, <1>2, <2>1, ReadingStays
<1> QED
  BY <1>7, <1>8, <1>10, <1>11 DEF AtInv

LEMMA ReadPageKeeps == ASSUME AuConstants, AtInv, Au!ReadPage PROVE AtInv'
<1>1. AtPlain /\ Placed /\ InTurn /\ Reading
  BY DEF AtInv
<1> DEFINE M == Au!Matching(atRead.cursor)
           page == Au!Newest(M, Limit)
           next == Au!NextCursor(page)
           more == atRead.got \o Au!Descending(page)
           base == IF atRead.pc = "idle" THEN Au!Matching(0) ELSE atRead.base
<1>2. /\ atRead.pc # "done" /\ UNCHANGED <<atSent, atBuf, atTx, atSeq, atRows>>
      /\ atRead' = [pc |-> IF next = 0 THEN "done" ELSE "paging", cursor |-> next, got |-> more, base |-> base]
  BY DEF Au!ReadPage, Au!Matching
<1>3. AtPlain' /\ Placed' /\ InTurn'
  BY <1>1, <1>2 DEF AtPlain, Placed, BufPlaced, TxPlaced, RowPlaced, Event, InTurn, BufAscends, TxFirst, RowsFirst, RowsBefore,
         Au!TopicOrder, Au!NoTx
<1>4. \A x \in Au!Matching(0) : x \in 1..atSeq
  BY <1>1 DEF Placed, RowPlaced, Au!Matching
<1>5. /\ M \subseteq Au!Matching(0) /\ (atRead.cursor = 0 => M = Au!Matching(0))
      /\ \A x \in M : atRead.cursor = 0 \/ x < atRead.cursor
      /\ \A x \in Au!Matching(0) : x < atRead.cursor => x \in M
  BY DEF Au!Matching
<1>6. M \subseteq Nat \ {0} /\ IsFiniteSet(M)
  <2>1. atSeq \in Nat /\ M \subseteq 1..atSeq
    BY <1>1, <1>4, <1>5 DEF AtPlain
  <2>2. IsFiniteSet(1..atSeq)
    BY <2>1, FS_Interval
  <2>3. IsFiniteSet(M)
    BY <2>1, <2>2, FS_Subset
  <2> QED
    BY <2>1, <2>3
<1> HIDE DEF M
<1>7. atRead.got \in Seq(Nat) /\ Descends(atRead.got) /\ atRead.cursor \in Nat /\ atRead.pc \in {"idle", "paging"}
  BY <1>1, <1>2 DEF Reading, Descends, Au!PagesDescend
<1>8. Older(M, atRead.got)
  <2>1. CASE atRead.pc = "idle"
    BY <1>1, <2>1 DEF Reading, Older
  <2>2. CASE atRead.pc = "paging"
    BY <1>1, <1>5, <1>6, <1>7, <2>2 DEF Reading, Older
  <2> QED
    BY <1>7, <2>1, <2>2
<1>9. base \subseteq Au!Matching(0) /\ ShownOr(base, atRead.got, M)
  <2>1. CASE atRead.pc = "idle"
    BY <1>1, <1>5, <2>1 DEF Reading, ShownOr
  <2>2. CASE atRead.pc = "paging"
    BY <1>1, <1>4, <1>5, <1>7, <2>2 DEF Reading, ShownOr
  <2> QED
    BY <1>7, <2>1, <2>2
<1> HIDE DEF page, next, more, base
<1>10. more \in Seq(Nat) /\ Descends(more) /\ next \in Nat /\ Left(base, more, next)
  <2>1. page = Au!Newest(M, Limit) /\ more = atRead.got \o Au!Descending(page) /\ next = Au!NextCursor(page)
    BY DEF page, next, more
  <2> QED
    BY <1>6, <1>7, <1>8, <1>9, <2>1, NextPage, Zenon
<1>11. /\ atRead'.pc = (IF next = 0 THEN "done" ELSE "paging") /\ atRead'.cursor = next /\ atRead'.got = more
       /\ atRead'.base = base
  BY <1>2
<1>12. (Au!Matching(0))' = Au!Matching(0)
  BY <1>2 DEF Au!Matching
<1>13. Reading'
  BY <1>9, <1>10, <1>11, <1>12 DEF Reading, Left, Descends, Shown, Au!PagesDescend, Au!PagesComplete
<1> QED
  BY <1>3, <1>13 DEF AtInv

LEMMA AtNext == ASSUME AuConstants, AtInv, [Au!Next]_Au!vars PROVE AtInv'
<1>1. CASE UNCHANGED Au!vars
  <2>1. UNCHANGED <<atSent, atBuf, atTx, atSeq, atRows, atRead>>
    BY <1>1 DEF Au!vars
  <2>2. Reading'
    BY <2>1, ReadingStays DEF AtInv, Au!Matching
  <2> QED
    BY <2>1, <2>2 DEF AtInv, AtPlain, Placed, BufPlaced, TxPlaced, RowPlaced, Event, InTurn, BufAscends, TxFirst, RowsFirst,
           RowsBefore, Au!TopicOrder, Au!NoTx
<1>2. CASE Au!Next
  BY <1>2, PublishKeeps, InsertKeeps, CommitKeeps, ReadPageKeeps DEF Au!Next
<1> QED
  BY <1>1, <1>2

(* Sink.run: one consumer per topic, which takes its id before its commit, *)
(* writes the rows of a topic in the order of publication, whatever the    *)
(* other topics' consumers do and whichever inserts fail.                  *)
THEOREM TopicsStayInOrder == ASSUME AuConstants PROVE Au!Spec => []Au!TopicOrder
<1>1. AtInv => Au!TopicOrder
  BY DEF AtInv, InTurn
<1>2. AtInv /\ [Au!Next]_Au!vars => AtInv'
  BY AtNext
<1>3. Au!Init => AtInv
  BY AtInit
<1> QED
  BY <1>1, <1>2, <1>3, PTL DEF Au!Spec

(* Query with its cursor: for every page size, filter and number of rows   *)
(* committed between the pages, the list descends without a repetition,    *)
(* and a reader that comes to the end was shown every row that was there   *)
(* when it began.                                                          *)
THEOREM PagingIsComplete == ASSUME AuConstants PROVE Au!Spec => [](Au!PagesDescend /\ Au!PagesComplete)
<1>1. AtInv => Au!PagesDescend /\ Au!PagesComplete
  BY DEF AtInv, Reading
<1>2. AtInv /\ [Au!Next]_Au!vars => AtInv'
  BY AtNext
<1>3. Au!Init => AtInv
  BY AtInit
<1> QED
  BY <1>1, <1>2, <1>3, PTL DEF Au!Spec

-----------------------------------------------------------------------------
(***************************************************************************)
(* Credentials, for every number of logins, changes and restarts.          *)
(***************************************************************************)

AuthTyped ==
    /\ auLogin \in [Logins -> [pc : {"idle", "verified"}, pass : Nat]]
    /\ auChange \in [Changers -> [pc : {"idle", "write", "load", "revoke"}, pass : Nat]]
    /\ auCreds \in Nat /\ auFile \in Nat /\ auPass \in Nat /\ auIssued \in Nat

(* Whoever is inside a change holds credsMu.                               *)
Locked == \A c \in Changers : auChange[c].pc # "idle" => auMu = c

(* The password a change last reported, or one whose failure left it.      *)
Accounted(p) == p = auTook \/ p \in auFailed

(* The snapshot and the file through the steps of a change: the file runs  *)
(* ahead from WriteKeyFile on, the snapshot from the swap on.              *)
Tracked ==
    /\ (\A c \in Changers : auChange[c].pc # "revoke") => Accounted(auCreds)
    /\ (\A c \in Changers : auChange[c].pc \notin {"load", "revoke"}) => Accounted(auFile)
    /\ \A c \in Changers : auChange[c].pc \in {"load", "revoke"} => auFile = auChange[c].pass
    /\ \A c \in Changers : auChange[c].pc = "revoke" => auCreds = auChange[c].pass

(* Tokens of the old password live only between the swap and the drop.     *)
Current ==
    (\A c \in Changers : auChange[c].pc # "revoke")
      => \A t \in auTokens : t[2] = auCreds \/ t[1] \in auOverlap

AuthInv == AuthTyped /\ Locked /\ (~Override => Tracked) /\ Current

(* With no key file the password is the one of config.toml.                *)
LEMMA AuthInit == Adm!Init => AuthInv
  BY DEF Adm!Init, AuthInv, AuthTyped, Locked, Tracked, Accounted, Current, Adm!Quiet

(* Logins and revocations.                                                 *)
LEMMA LoginKeeps ==
    ASSUME AuthInv, \/ \E l \in Logins : Adm!Login(l) \/ Adm!Issue(l)
                    \/ \E t \in auTokens : Adm!Revoke(t)
    PROVE  AuthInv'
<1>1. AuthTyped /\ Locked /\ (~Override => Tracked) /\ Current
  BY DEF AuthInv
<1>2. UNCHANGED <<auCreds, auFile, auPass, auChange, auMu, auTook, auFailed>>
  BY DEF Adm!Login, Adm!Issue, Adm!Revoke
<1>3. Locked' /\ (~Override => Tracked')
  BY <1>1, <1>2 DEF Locked, Tracked, Accounted
<1>4. ASSUME NEW l \in Logins, Adm!Login(l) PROVE AuthInv'
  <2>1. AuthTyped' /\ Current'
    BY <1>1, <1>2, <1>4 DEF Adm!Login, AuthTyped, Current
  <2> QED
    BY <1>3, <2>1 DEF AuthInv
<1>5. ASSUME NEW l \in Logins, Adm!Issue(l) PROVE AuthInv'
  <2>1. AuthTyped'
    BY <1>1, <1>2, <1>5 DEF Adm!Issue, AuthTyped, Adm!Quiet
  <2>2. Current'
    BY <1>1, <1>2, <1>5 DEF Adm!Issue, AuthTyped, Current
  <2> QED
    BY <1>3, <2>1, <2>2 DEF AuthInv
<1>6. ASSUME NEW t \in auTokens, Adm!Revoke(t) PROVE AuthInv'
  <2>1. AuthTyped' /\ Current'
    BY <1>1, <1>2, <1>6 DEF Adm!Revoke, AuthTyped, Current
  <2> QED
    BY <1>3, <2>1 DEF AuthInv
<1> QED
  BY <1>4, <1>5, <1>6

(* The steps of a change.                                                  *)
LEMMA ChangeKeeps ==
    ASSUME Adm!None \notin Changers, AuthInv, NEW c \in Changers,
           Adm!Change(c) \/ Adm!Write(c) \/ Adm!Load(c) \/ Adm!RevokeAll(c)
    PROVE  AuthInv'
<1>1. AuthTyped /\ Locked /\ (~Override => Tracked) /\ Current
  BY DEF AuthInv
<1>2. \A d \in Changers : d # c => auChange[d].pc = "idle"
  <2>1. auMu \in {c, Adm!None}
    BY <1>1 DEF Adm!Change, Adm!Write, Adm!Load, Adm!RevokeAll, Locked
  <2> QED
    BY <1>1, <2>1 DEF Locked
<1>3. UNCHANGED <<auLogin, auIssued, auOverlap>>
  BY DEF Adm!Change, Adm!Write, Adm!Load, Adm!RevokeAll
<1>4. CASE Adm!Change(c)
  <2>1. /\ auChange[c].pc = "idle" /\ auPass' = auPass + 1 /\ auMu' = c
        /\ auChange' = [auChange EXCEPT ![c] = [pc |-> "write", pass |-> auPass + 1]]
        /\ UNCHANGED <<auCreds, auFile, auTokens, auTook, auFailed>>
    BY <1>4 DEF Adm!Change
  <2> QED
    BY <1>1, <1>2, <1>3, <2>1 DEF AuthInv, AuthTyped, Locked, Tracked, Accounted, Current
<1>5. CASE Adm!Write(c)
  <2>1. /\ auChange[c].pc = "write" /\ UNCHANGED <<auCreds, auTokens, auPass, auTook, auFailed>>
        /\ \/ auFile' = auChange[c].pass /\ auChange' = [auChange EXCEPT ![c].pc = "load"] /\ UNCHANGED auMu
           \/ auChange' = [auChange EXCEPT ![c] = Adm!Quiet] /\ UNCHANGED auFile
    BY <1>5 DEF Adm!Write
  <2> QED
    BY <1>1, <1>2, <1>3, <2>1 DEF AuthInv, AuthTyped, Locked, Tracked, Accounted, Current, Adm!Quiet
<1>6. CASE Adm!Load(c)
  <2>1. /\ auChange[c].pc = "load" /\ UNCHANGED <<auFile, auTokens, auPass, auTook>>
        /\ \/ /\ auCreds' = Adm!LoadCreds(auFile) /\ auChange' = [auChange EXCEPT ![c].pc = "revoke"]
              /\ UNCHANGED <<auMu, auFailed>>
           \/ /\ auChange' = [auChange EXCEPT ![c] = Adm!Quiet] /\ UNCHANGED auCreds
              /\ auFailed' = auFailed \union {auChange[c].pass}
    BY <1>6 DEF Adm!Load
  <2> QED
    BY <1>1, <1>2, <1>3, <2>1 DEF AuthInv, AuthTyped, Locked, Tracked, Accounted, Current, Adm!Quiet, Adm!LoadCreds
<1>7. CASE Adm!RevokeAll(c)
  <2>1. /\ auChange[c].pc = "revoke" /\ auTokens' = {} /\ auTook' = auChange[c].pass
        /\ auChange' = [auChange EXCEPT ![c] = Adm!Quiet]
        /\ UNCHANGED <<auCreds, auFile, auPass, auFailed>>
    BY <1>7 DEF Adm!RevokeAll
  <2> QED
    BY <1>1, <1>2, <1>3, <2>1 DEF AuthInv, AuthTyped, Locked, Tracked, Accounted, Current, Adm!Quiet
<1> QED
  BY <1>4, <1>5, <1>6, <1>7

(* A restart loads the file, whatever a change left in it.                 *)
LEMMA RestartKeeps == ASSUME AuthInv, Adm!Restart PROVE AuthInv'
<1>1. AuthTyped /\ (~Override => Tracked)
  BY DEF AuthInv
<1>2. /\ auCreds' = Adm!LoadCreds(auFile) /\ auTokens' = {} /\ UNCHANGED <<auFile, auIssued, auPass, auTook>>
      /\ auFailed' = auFailed \union {auChange[c].pass : c \in {x \in Changers : auChange[x].pc \in {"load", "revoke"}}}
      /\ auLogin' = [l \in Logins |-> Adm!Quiet] /\ auChange' = [c \in Changers |-> Adm!Quiet]
  BY DEF Adm!Restart
<1>3. ~Override => Accounted(auFile)'
  BY <1>1, <1>2 DEF Tracked, Accounted
<1> QED
  BY <1>1, <1>2, <1>3 DEF AuthInv, AuthTyped, Locked, Tracked, Current, Adm!Quiet, Adm!LoadCreds, Accounted

(* The invariant is inductive.                                             *)
LEMMA AuthNext == ASSUME Adm!None \notin Changers, AuthInv, [Adm!Next]_Adm!vars PROVE AuthInv'
<1>1. CASE UNCHANGED Adm!vars
  BY <1>1 DEF Adm!vars, AuthInv, AuthTyped, Locked, Tracked, Accounted, Current
<1>2. CASE Adm!Next
  BY <1>2, LoginKeeps, ChangeKeeps, RestartKeeps DEF Adm!Next
<1> QED
  BY <1>1, <1>2

(* ChangeCredentials: between changes the password that counts is the last *)
(* one reported, or one whose change failed past WriteKeyFile, although    *)
(* writing, loading, swapping and a restart are steps of their own.        *)
THEOREM LastPasswordCounts == ASSUME Adm!None \notin Changers PROVE Adm!Spec => []Adm!LastChangeCounts
<1>1. AuthInv => Adm!LastChangeCounts
  BY DEF AuthInv, Tracked, Accounted, Adm!LastChangeCounts, Adm!Idle
<1>2. AuthInv /\ [Adm!Next]_Adm!vars => AuthInv'
  BY AuthNext
<1> QED
  BY <1>1, <1>2, AuthInit, PTL DEF Adm!Spec

(* RevokeAll and loginWithTTL: no token of an old password survives its    *)
(* change, except one whose login had compared before the swap and stored  *)
(* its token after it.                                                     *)
THEOREM OldTokensLeave == ASSUME Adm!None \notin Changers PROVE Adm!Spec => []Adm!OldTokensGone
<1>1. AuthInv => Adm!OldTokensGone
  BY DEF AuthInv, Current, Adm!OldTokensGone, Adm!Idle
<1>2. AuthInv /\ [Adm!Next]_Adm!vars => AuthInv'
  BY AuthNext
<1> QED
  BY <1>1, <1>2, AuthInit, PTL DEF Adm!Spec
=============================================================================
