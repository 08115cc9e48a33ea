------------------------------- MODULE Memory -------------------------------
(***************************************************************************)
(* The memory of a project (internal/memory): the vector store with its    *)
(* merges and its change of embedder, and the cleaner that archives what a *)
(* model finds redundant.                                                  *)
(***************************************************************************)
EXTENDS Naturals, FiniteSets

CONSTANTS
    Parts,          \* subset of {"store", "cleaner"}: what is in use
    Ids,            \* row ids 1..n, in order
    Texts,          \* texts
    Similar(_, _),  \* texts whose vectors pass the dedup threshold
    Embedders,      \* configured backends
    Callers,        \* API calls that may be under way at once
    BatchSize,      \* rows a re-embed pass takes at a time
    MaxCalls,       \* bound: stores and edits
    MaxRestarts,    \* bound: restarts of the gateway
    MaxFails,       \* bound: failures of the embedding service and of statements
    Mems,           \* memories of one project that say the same
    Runs,           \* cleaner runs: "tick" and "api"
    MaxRuns,        \* bound: runs started
    MaxBreaks,      \* bound: statements of the cleaner that fail
    Dormant         \* the project has been quiet for LifecycleDormantDays

VARIABLES
    mmRows,      \* mmRows[i]: {} or {row}
    mmEmb,       \* s.emb.Name()
    mmCall,      \* mmCall[c]: the API call in progress and its locals
    mmPass,      \* the re-embed pass in progress and its locals
    mmCalls, mmRestarts, mmFails,  \* counts of the bounded steps
    mmAcked,     \* history: texts acknowledged and neither deleted nor edited away
    mmRaced,     \* history: a row that had changed was written back as it was read
    mmProject,   \* history: rows archived with the project
    clRow,       \* clRow[m]: "active", "dup", "stale", "dormant", "operator", "gone"
    clDec,       \* decisions [mem, run, status], run numbered
    clRun,       \* clRun[r]: the run, its batch and the decision it is at
    clStarted,   \* runs started
    clBreaks,    \* statements that have failed
    clOld,       \* numbers of runs whose decisions are older than SkipIfDecidedWithin
    clRestored,  \* history: verdicts the operator undid since the last window
    clParallel,  \* history: two runs have overlapped
    clSelf,      \* history: a model named a memory as the duplicate of itself
    clLost       \* history: decisions whose closing statement failed or never came

-----------------------------------------------------------------------------
(***************************************************************************)
(* The vector memory of one project (memory/service.go, store_pgvector.go, *)
(* reembed_converge.go).  A Store embeds, looks for a near duplicate and   *)
(* merges into it or inserts; an edit embeds and overwrites; after the     *)
(* operator changes the embedder a background pass re-embeds old rows.     *)
(* Every SQL statement and every embedding call is a step of its own.  The *)
(* gatekeeper and a failed embedding end a Store before anything is        *)
(* written; merged_from is not cut at its cap; the pass started by hand    *)
(* (/reembed) is the same pass.                                            *)
(***************************************************************************)

storeVars == <<mmRows, mmEmb, mmCall, mmPass, mmCalls, mmRestarts, mmFails, mmAcked, mmRaced, mmProject>>
hist == <<mmAcked, mmRaced, mmProject>>
counts == <<mmCalls, mmRestarts, mmFails>>

(* vec is the text and the backend the vector was computed from; label the *)
(* embedder column; merged the texts in merged_from.                       *)
Row(t, emb, tier) ==
    [text |-> t, vec |-> <<t, emb>>, label |-> emb, merged |-> {}, arch |-> "", tier |-> tier, edited |-> FALSE]
Has(i) == mmRows[i] # {}
The(i) == CHOOSE r \in mmRows[i] : TRUE
Put(i, r) == [mmRows EXCEPT ![i] = {r}]
Live(i) == Has(i) /\ The(i).arch = ""
Held(c) == CHOOSE r \in mmCall[c].seen : TRUE
Goes(c, rec) == mmCall' = [mmCall EXCEPT ![c] = rec]
Said(i) == {The(i).text} \union The(i).merged
NoCall == [op |-> "none", text |-> 0, emb |-> "", tier |-> "", id |-> 0, seen |-> {}]
NoPass == [at |-> "idle", batch |-> {}, cursor |-> 0, more |-> FALSE]
Fault == mmFails < MaxFails /\ mmFails' = mmFails + 1

StoreInit ==
    /\ mmRows = [i \in Ids |-> {}] /\ mmEmb = (CHOOSE e \in Embedders : TRUE)
    /\ mmCall = [c \in Callers |-> NoCall] /\ mmPass = NoPass
    /\ mmCalls = 0 /\ mmRestarts = 0 /\ mmFails = 0 /\ mmAcked = {} /\ mmRaced = FALSE /\ mmProject = {}

(* Store: the text is embedded first.  What goes to quarantine is never    *)
(* merged.                                                                 *)
StoreEmbeds(c, t, tier) ==
    /\ mmCall[c].op = "none" /\ mmCalls < MaxCalls /\ mmCalls' = mmCalls + 1
    /\ Goes(c, [NoCall EXCEPT !.op = IF tier = "durable" THEN "search" ELSE "insert", !.text = t, !.emb = mmEmb, !.tier = tier])
    /\ UNCHANGED <<mmRows, mmEmb, mmPass, mmRestarts, mmFails, hist>>

(* The nearest active durable row of the same embedder that is near enough; *)
(* a search that fails is taken for none.                                  *)
StoreSearches(c) ==
    LET near == {i \in Ids : Live(i) /\ The(i).label = mmCall[c].emb /\ The(i).tier = "durable"
                             /\ Similar(The(i).vec[1], mmCall[c].text)} IN
    /\ mmCall[c].op = "search"
    /\ \/ near = {} /\ Goes(c, [mmCall[c] EXCEPT !.op = "insert"]) /\ UNCHANGED mmFails
       \/ Fault /\ Goes(c, [mmCall[c] EXCEPT !.op = "insert"])
       \/ \E i \in near : Goes(c, [mmCall[c] EXCEPT !.op = "merge", !.id = i, !.seen = {The(i)}]) /\ UNCHANGED mmFails
    /\ UNCHANGED <<mmCalls, mmRestarts, mmRows, mmEmb, mmPass, hist>>

(* Mutant of Merged: the absorbed text is not remembered.                  *)
MergedForgets(old, t, emb) == [old EXCEPT !.text = t, !.vec = <<t, emb>>, !.label = emb]

(* The newer text wins; the absorbed one goes to merged_from, which is     *)
(* computed from the row as the search saw it.                             *)
Merged(old, t, emb) == [old EXCEPT !.text = t, !.vec = <<t, emb>>, !.label = emb, !.merged = @ \union {old.text}]

Stale(i, old) == The(i).text # old.text \/ The(i).merged # old.merged

(* store.Update touches text, vector, metadata and label of an active row; *)
(* on an error, or no row affected, the Store falls through to an insert.  *)
StoreMerges(c) ==
    LET i == mmCall[c].id IN
    /\ mmCall[c].op = "merge"
    /\ \/ /\ Live(i) /\ Goes(c, NoCall) /\ UNCHANGED mmFails
          /\ mmRows' = Put(i, [Merged(Held(c), mmCall[c].text, mmCall[c].emb) EXCEPT !.tier = The(i).tier, !.edited = FALSE])
          /\ mmAcked' = mmAcked \union {mmCall[c].text} /\ mmRaced' = (mmRaced \/ Stale(i, Held(c)))
       \/ /\ IF Live(i) THEN Fault ELSE UNCHANGED mmFails
          /\ Goes(c, [mmCall[c] EXCEPT !.op = "insert", !.id = 0, !.seen = {}]) /\ UNCHANGED <<mmRows, mmAcked, mmRaced>>
    /\ UNCHANGED <<mmCalls, mmRestarts, mmEmb, mmPass, mmProject>>

StoreInserts(c) ==
    /\ mmCall[c].op = "insert" /\ Goes(c, NoCall)
    /\ \E i \in Ids : /\ ~Has(i) /\ \A j \in Ids : j < i => Has(j)
                      /\ mmRows' = Put(i, Row(mmCall[c].text, mmCall[c].emb, mmCall[c].tier))
    /\ mmAcked' = mmAcked \union {mmCall[c].text}
    /\ UNCHANGED <<counts, mmEmb, mmPass, mmRaced, mmProject>>

(* The insert fails and the call with it; or this instance's table is full. *)
StoreGivesUp(c) ==
    /\ mmCall[c].op = "insert" /\ Goes(c, NoCall)
    /\ IF \A i \in Ids : Has(i) THEN UNCHANGED mmFails ELSE Fault
    /\ UNCHANGED <<mmCalls, mmRestarts, mmRows, mmEmb, mmPass, hist>>

(* Update embeds the new text; the caller sends back the metadata it read, *)
(* or none.                                                                *)
EditEmbeds(c, i, t, back) ==
    /\ mmCall[c].op = "none" /\ mmCalls < MaxCalls /\ mmCalls' = mmCalls + 1 /\ Has(i)
    /\ Goes(c, [NoCall EXCEPT !.op = "edit", !.id = i, !.text = t, !.emb = mmEmb, !.seen = IF back THEN {The(i)} ELSE {}])
    /\ UNCHANGED <<mmRows, mmEmb, mmPass, mmRestarts, mmFails, hist>>

(* The vector is the current backend's, the label is left as it is; the    *)
(* metadata is the caller's.  An error or no active row changes nothing.   *)
EditWrites(c) ==
    LET i == mmCall[c].id  back == IF mmCall[c].seen = {} THEN {} ELSE Held(c).merged IN
    /\ mmCall[c].op = "edit" /\ Goes(c, NoCall)
    /\ \/ /\ Live(i) /\ UNCHANGED mmFails
          /\ mmRows' = Put(i, [The(i) EXCEPT !.text = mmCall[c].text, !.vec = <<mmCall[c].text, mmCall[c].emb>>,
                                             !.merged = back, !.edited = The(i).label # mmCall[c].emb])
          /\ mmAcked' = (mmAcked \ (Said(i) \ back)) \union {mmCall[c].text}
          /\ UNCHANGED mmRaced
       \/ (IF Live(i) THEN Fault ELSE UNCHANGED mmFails) /\ UNCHANGED <<mmRows, mmAcked, mmRaced>>
    /\ UNCHANGED <<mmCalls, mmRestarts, mmEmb, mmPass, mmProject>>

(* Reembed: a pass walks the active rows of other labels in id order, a    *)
(* batch at a time; the batch is read, embedded, and written row by row.   *)
Due(after) == {i \in Ids : Live(i) /\ The(i).label # mmEmb /\ i > after}
PassReads ==
    /\ mmPass.at = "idle" /\ (mmPass.cursor = 0 \/ mmPass.more) /\ Due(mmPass.cursor) # {}
    /\ LET due == Due(mmPass.cursor)
           batch == {i \in due : Cardinality({j \in due : j < i}) < BatchSize}
       IN  mmPass' = [mmPass EXCEPT !.at = "write", !.batch = {<<i, The(i)>> : i \in batch},
                                    !.more = Cardinality(batch) = BatchSize]
    /\ UNCHANGED <<counts, mmRows, mmEmb, mmCall, hist>>

Last == CHOOSE i \in Ids : (\E e \in mmPass.batch : e[1] = i) /\ \A e \in mmPass.batch : e[1] <= i

(* A batch that cannot be embedded is left behind by the cursor; the next  *)
(* pass starts over.                                                       *)
PassEmbedFails ==
    /\ mmPass.at = "write" /\ Fault
    /\ mmPass' = [NoPass EXCEPT !.cursor = Last, !.more = TRUE]
    /\ UNCHANGED <<mmCalls, mmRestarts, mmRows, mmEmb, mmCall, hist>>

(* Mutant of Reembedded: the label is left.                                *)
ReembeddedUnlabelled(old, now) == [now EXCEPT !.text = old.text, !.vec = <<old.text, mmEmb>>, !.merged = old.merged, !.edited = FALSE]

(* Text and metadata are written back as they were read.                   *)
Reembedded(old, now) ==
    [now EXCEPT !.text = old.text, !.vec = <<old.text, mmEmb>>, !.label = mmEmb, !.merged = old.merged, !.edited = FALSE]

(* One row after the other; one that fails is passed over.                 *)
PassWrites ==
    /\ mmPass.at = "write"
    /\ \E e \in mmPass.batch :
          LET i == e[1]  old == e[2] IN
          /\ \A f \in mmPass.batch : i <= f[1]
          /\ mmPass' = IF mmPass.batch = {e} THEN [mmPass EXCEPT !.at = "idle", !.batch = {}, !.cursor = i]
                       ELSE [mmPass EXCEPT !.batch = @ \ {e}]
          /\ \/ /\ Live(i) /\ mmRows' = Put(i, Reembedded(old, The(i))) /\ UNCHANGED mmFails
                /\ mmRaced' = (mmRaced \/ Stale(i, old))
             \/ (IF Live(i) THEN Fault ELSE UNCHANGED mmFails) /\ UNCHANGED <<mmRows, mmRaced>>
    /\ UNCHANGED <<mmCalls, mmRestarts, mmEmb, mmCall, mmAcked, mmProject>>

(* Mutant of PassEnds: the cursor of the pass is kept.                     *)
PassEndsKeepsCursor ==
    /\ mmPass.at = "idle" /\ mmPass.cursor # 0 /\ Due(0) = {} /\ mmPass' = NoPass
    /\ UNCHANGED <<counts, mmRows, mmEmb, mmCall, hist>>

(* A batch that was not full, or an empty one, ends the pass; the loop     *)
(* counts the drift again after an interval.                               *)
PassEnds ==
    /\ mmPass.at = "idle" /\ mmPass.cursor # 0 /\ (~mmPass.more \/ Due(mmPass.cursor) = {}) /\ mmPass' = NoPass
    /\ UNCHANGED <<counts, mmRows, mmEmb, mmCall, hist>>

(* The gateway restarts, with another backend when the operator set one.   *)
Restart(e) ==
    /\ mmRestarts < MaxRestarts /\ mmEmb' = e /\ mmRestarts' = mmRestarts + 1
    /\ mmCall' = [c \in Callers |-> NoCall] /\ mmPass' = NoPass /\ UNCHANGED <<mmCalls, mmRows, mmFails, hist>>

(* Archive, Restore, Quarantine and Promote of one row.                    *)
OperatorMoves(i) ==
    /\ Has(i)
    /\ \/ Live(i) /\ mmRows' = Put(i, [The(i) EXCEPT !.arch = "operator"]) /\ UNCHANGED mmProject
       \/ The(i).arch # "" /\ mmRows' = Put(i, [The(i) EXCEPT !.arch = ""]) /\ mmProject' = mmProject \ {i}
       \/ Live(i) /\ The(i).tier = "durable" /\ mmRows' = Put(i, [The(i) EXCEPT !.tier = "quarantine"]) /\ UNCHANGED mmProject
       \/ Live(i) /\ The(i).tier = "quarantine" /\ mmRows' = Put(i, [The(i) EXCEPT !.tier = "durable"]) /\ UNCHANGED mmProject
    /\ UNCHANGED <<counts, mmEmb, mmCall, mmPass, mmAcked, mmRaced>>

(* Delete of one row, DeleteByScope of all.                                *)
Delete(gone) ==
    /\ \A i \in gone : Has(i)
    /\ mmRows' = [i \in Ids |-> IF i \in gone THEN {} ELSE mmRows[i]]
    /\ mmAcked' = mmAcked \ UNION {Said(i) : i \in gone} /\ mmProject' = mmProject \ gone
    /\ UNCHANGED <<counts, mmEmb, mmCall, mmPass, mmRaced>>

(* The project is archived: every active row with one reason of its own.   *)
ArchiveProject ==
    /\ \E i \in Ids : Live(i)
    /\ mmRows' = [i \in Ids |-> IF Live(i) THEN {[The(i) EXCEPT !.arch = "project"]} ELSE mmRows[i]]
    /\ mmProject' = mmProject \union {i \in Ids : Live(i)}
    /\ UNCHANGED <<counts, mmEmb, mmCall, mmPass, mmAcked, mmRaced>>

(* Mutant of RestoreByScope: every archived row comes back.                *)
RestoreByScopeAll == {i \in Ids : Has(i) /\ The(i).arch # ""}

(* Only rows with that reason come back.                                   *)
RestoreByScope == {i \in Ids : Has(i) /\ The(i).arch = "project"}

RestoreProject ==
    /\ \E i \in Ids : Has(i) /\ The(i).arch = "project"
    /\ mmRows' = [i \in Ids |-> IF i \in RestoreByScope THEN {[The(i) EXCEPT !.arch = ""]} ELSE mmRows[i]]
    /\ mmProject' = {}
    /\ UNCHANGED <<counts, mmEmb, mmCall, mmPass, mmAcked, mmRaced>>

(* Mutant of PurgeArchived: the reason is not looked at.                   *)
PurgeArchivedAll == {i \in Ids : Has(i) /\ The(i).arch # ""}

(* The grace period deletes archived rows, but not those of a project.     *)
PurgeArchived == {i \in Ids : Has(i) /\ The(i).arch \notin {"", "project"}}

(* Both purges of a scheduler tick, for rows whose time is over.           *)
PurgeExpired(i) ==
    /\ i \in PurgeArchived \/ (Has(i) /\ The(i).tier = "quarantine")
    /\ mmRows' = [mmRows EXCEPT ![i] = {}] /\ mmAcked' = mmAcked \ Said(i)
    /\ mmProject' = IF The(i).tier = "quarantine" THEN mmProject \ {i} ELSE mmProject
    /\ UNCHANGED <<counts, mmEmb, mmCall, mmPass, mmRaced>>

Pass == PassReads \/ PassWrites \/ PassEnds

StoreNext ==
    \/ \E c \in Callers :
          \/ StoreSearches(c) \/ StoreMerges(c) \/ StoreInserts(c) \/ StoreGivesUp(c) \/ EditWrites(c)
          \/ \E t \in Texts : \/ \E tier \in {"durable", "quarantine"} : StoreEmbeds(c, t, tier)
                              \/ \E i \in Ids, back \in BOOLEAN : EditEmbeds(c, i, t, back)
    \/ Pass \/ PassEmbedFails \/ ArchiveProject \/ RestoreProject
    \/ \E e \in Embedders : Restart(e)
    \/ \E i \in Ids : OperatorMoves(i) \/ PurgeExpired(i) \/ Delete({i})
    \/ Delete({i \in Ids : Has(i)})

(* The converge loop runs again and again while the gateway is up.         *)
StoreFairness == WF_storeVars(Pass)

StoreTypeOK == mmEmb \in Embedders /\ \A i \in Ids : Cardinality(mmRows[i]) <= 1 /\ (Has(i) => The(i).label \in Embedders)

(* A stored text is never lost to deduplication or re-embedding: it is the *)
(* text of a row or among the texts a row absorbed.  Excepted is a row     *)
(* that changed while a store or a pass held the copy it writes back.      *)
NothingForgotten ==
    ~mmRaced => \A t \in mmAcked : \E i \in Ids : Has(i) /\ t \in Said(i)

(* The embedder column tells which backend the vector came from, so that   *)
(* the search compares vectors of one backend only.  Excepted is an edit   *)
(* made while the row awaited re-embedding: it keeps the old label.        *)
LabelTellsVector == \A i \in Ids : Has(i) /\ ~The(i).edited => The(i).label = The(i).vec[2]

(* While a project is archived nothing deletes the rows that were archived *)
(* with it (quarantined ones apart, which have a term of their own) ...    *)
ProjectKept == \A i \in mmProject : Has(i) /\ The(i).arch = "project"

RestoreExactStep ==
    \A i \in Ids : (Has(i) /\ The(i).arch = "operator" /\ mmProject # {} /\ mmProject' = {} /\ mmRows'[i] # {})
          => (CHOOSE r \in mmRows'[i] : TRUE).arch = "operator"

(* ... and its restore leaves archived what the operator had archived.     *)
RestoreExact == [][RestoreExactStep]_storeVars

(* A change of the backend heals by itself: an active row that carries     *)
(* another label than the current one is re-embedded, failures of the      *)
(* embedding service notwithstanding, unless it is archived first.         *)
RecallConverges ==
    \A i \in Ids : (Live(i) /\ The(i).label # mmEmb) ~> (~Live(i) \/ The(i).label = mmEmb)

-----------------------------------------------------------------------------
(***************************************************************************)
(* The memory cleaner (memory/cleaner: service.go, store.go, client.go,    *)
(* scheduler.go, handler.go).  A run lists the eligible memories of a      *)
(* project, has a model judge them in one call, and applies each verdict   *)
(* as a soft archive.  The scheduler's run and one started through the API *)
(* may overlap; the operator restores rows meanwhile.                      *)
(***************************************************************************)

cleanerVars == <<clRow, clDec, clRun, clStarted, clBreaks, clOld, clRestored, clParallel, clSelf, clLost>>
past == <<clOld, clRestored, clParallel, clSelf>>

NoRun == [pc |-> "none", n |-> 0, left |-> {}, verdict |-> <<>>, mem |-> 0]
Active(m) == clRow[m] = "active"
Broke == clBreaks < MaxBreaks /\ clBreaks' = clBreaks + 1

CleanerInit ==
    /\ clRow = [m \in Mems |-> "active"] /\ clDec = {} /\ clRun = [r \in Runs |-> NoRun]
    /\ clStarted = 0 /\ clBreaks = 0 /\ clOld = {} /\ clRestored = {} /\ clParallel = FALSE /\ clSelf = FALSE /\ clLost = {}

(* Mutant of Eligible: decisions of earlier runs are not looked for.       *)
EligibleAll == {m \in Mems : Active(m)}

(* filterEligible: active memories without a recent decision that was not  *)
(* given up.                                                               *)
Eligible == {m \in Mems : Active(m) /\ ~\E d \in clDec : d.mem = m /\ d.run \notin clOld /\ d.status # "expired"}

(* A duplicate of an id the store does not have ends as one whose survivor *)
(* cannot be looked at.                                                    *)
Verdicts == [kind : {"keep", "stale"}, into : {0}] \union [kind : {"dup"}, into : Mems]

(* Run lists and filters; age, BatchSize and later the model's reply may   *)
(* leave eligible ones out.                                                *)
Begin(r) ==
    /\ clRun[r].pc = "none" /\ clStarted < MaxRuns /\ clStarted' = clStarted + 1
    /\ \E batch \in SUBSET Eligible \ {{}} :
          clRun' = [clRun EXCEPT ![r] = [NoRun EXCEPT !.pc = "judging", !.n = clStarted + 1, !.left = batch]]
    /\ clParallel' = (clParallel \/ \E q \in Runs : clRun[q].pc # "none")
    /\ UNCHANGED <<clRow, clDec, clBreaks, clOld, clRestored, clSelf, clLost>>

(* The model's reply, which names none twice; ids that are not of the      *)
(* batch are skipped.                                                      *)
Judge(r) ==
    /\ clRun[r].pc = "judging"
    /\ \E v \in [clRun[r].left -> Verdicts] :
          /\ clRun' = [clRun EXCEPT ![r].pc = "deciding", ![r].verdict = v]
          /\ clSelf' = (clSelf \/ \E m \in clRun[r].left : v[m].into = m)
    /\ UNCHANGED <<clRow, clDec, clStarted, clBreaks, clOld, clRestored, clParallel, clLost>>

JudgeFails(r) ==
    /\ clRun[r].pc = "judging" /\ clRun' = [clRun EXCEPT ![r] = NoRun]
    /\ UNCHANGED <<clRow, clDec, clStarted, clBreaks, past, clLost>>

(* One decision after the other: the row is inserted as pending first; one *)
(* that cannot be is passed over.                                          *)
InsertDecision(r, m) ==
    /\ clRun[r].pc = "deciding" /\ m \in clRun[r].left
    /\ \/ /\ clDec' = clDec \union {[mem |-> m, run |-> clRun[r].n, status |-> "pending"]} /\ UNCHANGED clBreaks
          /\ clRun' = [clRun EXCEPT ![r].pc = "execute", ![r].mem = m, ![r].left = @ \ {m}]
       \/ Broke /\ clRun' = [clRun EXCEPT ![r].left = @ \ {m}] /\ UNCHANGED clDec
    /\ UNCHANGED <<clRow, clStarted, past, clLost>>

At(r) == <<clRun[r].mem, clRun[r].n>>
SetStatus(r, st) == clDec' = {IF <<d.mem, d.run>> = At(r) THEN [d EXCEPT !.status = st] ELSE d : d \in clDec}
Onward(r) == clRun' = [clRun EXCEPT ![r].pc = "deciding", ![r].mem = 0, ![r].verdict = [m \in clRun[r].left |-> @[m]]]
(* SetStatus from pending, its error ignored, and on to the next verdict.  *)
NextDecision(r, st) ==
    /\ Onward(r)
    /\ \/ SetStatus(r, st) /\ UNCHANGED <<clBreaks, clLost>>
       \/ Broke /\ clLost' = clLost \union {At(r)} /\ UNCHANGED clDec
(* A statement of execute fails: the decision is given up.                 *)
ExecuteFails(r) == Onward(r) /\ Broke /\ SetStatus(r, "expired") /\ UNCHANGED <<clRow, clLost>>
Archives(m, why) == clRow' = IF Active(m) THEN [clRow EXCEPT ![m] = why] ELSE clRow

(* execute: keep changes nothing, stale archives, which may fail.          *)
ExecuteKeepOrStale(r) ==
    LET v == clRun[r].verdict[clRun[r].mem].kind IN
    /\ clRun[r].pc = "execute"
    /\ \/ v = "keep" /\ UNCHANGED clRow /\ NextDecision(r, "executed")
       \/ v = "stale" /\ Archives(clRun[r].mem, "stale") /\ NextDecision(r, "executed")
       \/ v = "stale" /\ ExecuteFails(r)
    /\ UNCHANGED <<clStarted, past>>

(* Mutant of SurvivorActive: the survivor is not looked for.               *)
SurvivorActiveUnchecked(m) == TRUE

(* A duplicate is archived only while its survivor is active ...           *)
SurvivorActive(m) == Active(m)

(* Mutant of CheckSurvivor: the decision of a failed verdict is left.       *)
CheckSurvivorForgets(r) ==
    LET v == clRun[r].verdict[clRun[r].mem] IN
    /\ clRun[r].pc = "execute" /\ v.kind = "dup" /\ UNCHANGED <<clDec, clBreaks, clLost>>
    /\ IF SurvivorActive(v.into) THEN clRun' = [clRun EXCEPT ![r].pc = "archive"]
       ELSE clRun' = [clRun EXCEPT ![r].pc = "deciding", ![r].mem = 0]
    /\ UNCHANGED <<clRow, clStarted, past>>

(* ... and given up otherwise.                                             *)
CheckSurvivor(r) ==
    LET v == clRun[r].verdict[clRun[r].mem] IN
    /\ clRun[r].pc = "execute" /\ v.kind = "dup"
    /\ \/ SurvivorActive(v.into) /\ clRun' = [clRun EXCEPT ![r].pc = "archive"] /\ UNCHANGED <<clDec, clBreaks, clLost>>
       \/ ~SurvivorActive(v.into) /\ NextDecision(r, "expired")
       \/ SurvivorActive(v.into) /\ ExecuteFails(r)
    /\ UNCHANGED <<clRow, clStarted, past>>

(* The archiving is a statement of its own.                                *)
ArchiveDuplicate(r) ==
    /\ clRun[r].pc = "archive"
    /\ \/ Archives(clRun[r].mem, "dup") /\ NextDecision(r, "executed")
       \/ ExecuteFails(r)
    /\ UNCHANGED <<clStarted, past>>

RunEnds(r) ==
    /\ clRun[r].pc = "deciding" /\ clRun[r].left = {} /\ clRun' = [clRun EXCEPT ![r] = NoRun]
    /\ UNCHANGED <<clRow, clDec, clStarted, clBreaks, past, clLost>>

(* The caller of an API run goes away, or the gateway stops: the run's     *)
(* context is cancelled and every statement left fails.                    *)
RunBreaks(r) ==
    /\ clRun[r].pc \in {"deciding", "execute", "archive"} /\ Broke /\ clRun' = [clRun EXCEPT ![r] = NoRun]
    /\ clLost' = IF clRun[r].mem = 0 THEN clLost ELSE clLost \union {At(r)}
    /\ UNCHANGED <<clRow, clDec, clStarted, past>>

(* ArchiveDormant, after the run of a tick: aged rows of a quiet project   *)
(* that were never hit; what the operator restored is not told apart.      *)
ArchiveDormant(m) ==
    /\ Dormant /\ Active(m) /\ clRun["tick"].pc = "none" /\ clRow' = [clRow EXCEPT ![m] = "dormant"] /\ clRestored' = clRestored \ {m}
    /\ UNCHANGED <<clDec, clRun, clStarted, clBreaks, clOld, clParallel, clSelf, clLost>>

OperatorArchives(m) ==
    /\ Active(m) /\ clRow' = [clRow EXCEPT ![m] = "operator"] /\ clRestored' = clRestored \ {m}
    /\ UNCHANGED <<clDec, clRun, clStarted, clBreaks, clOld, clParallel, clSelf, clLost>>

OperatorRestores(m) ==
    /\ clRow[m] \notin {"active", "gone"} /\ clRow' = [clRow EXCEPT ![m] = "active"]
    /\ clRestored' = IF clRow[m] \in {"dup", "stale"} /\ \E d \in clDec : d.mem = m /\ d.run \notin clOld
                     THEN clRestored \union {m} ELSE clRestored
    /\ UNCHANGED <<clDec, clRun, clStarted, clBreaks, clOld, clParallel, clSelf, clLost>>

(* PurgeExpired, once the grace period of an archived row is over.         *)
Purge(m) ==
    /\ clRow[m] \notin {"active", "gone"} /\ clRow' = [clRow EXCEPT ![m] = "gone"]
    /\ UNCHANGED <<clDec, clRun, clStarted, clBreaks, past, clLost>>

(* SkipIfDecidedWithin passes: what those runs decided may be judged again. *)
WindowPasses(n) ==
    /\ n \in 1..clStarted \ clOld /\ \A r \in Runs : clRun[r].pc = "none" \/ clRun[r].n > n
    /\ clOld' = 1..n /\ clRestored' = {m \in clRestored : \E d \in clDec : d.mem = m /\ d.run > n}
    /\ UNCHANGED <<clRow, clDec, clRun, clStarted, clBreaks, clParallel, clSelf, clLost>>

CleanerNext ==
    \/ \E r \in Runs : \/ Begin(r) \/ Judge(r) \/ JudgeFails(r) \/ ExecuteKeepOrStale(r) \/ CheckSurvivor(r)
                       \/ ArchiveDuplicate(r) \/ RunEnds(r) \/ RunBreaks(r)
                       \/ \E m \in Mems : InsertDecision(r, m)
    \/ \E m \in Mems : ArchiveDormant(m) \/ OperatorArchives(m) \/ OperatorRestores(m) \/ Purge(m)
    \/ \E n \in 1..MaxRuns : WindowPasses(n)

CleanerTypeOK == /\ clRow \in [Mems -> {"active", "dup", "stale", "dormant", "operator", "gone"}]
          /\ clDec \subseteq [mem : Mems, run : 1..MaxRuns, status : {"pending", "executed", "expired"}]

(* Not every copy is archived as the duplicate of another one, in whatever *)
(* order the verdicts name each other, rings of them included.  Excepted   *)
(* are overlapping runs and a model that names a memory as its own copy.   *)
OneCopyLeft == (~clParallel /\ ~clSelf) => \E m \in Mems : clRow[m] # "dup"

RestoreRespectedStep == \A m \in clRestored : (Active(m) /\ clRow'[m] \in {"dup", "stale"}) => clParallel

(* A row the operator took back is not archived by the cleaner again       *)
(* before the window is over, unless two runs overlapped.                  *)
RestoreRespected == [][RestoreRespectedStep]_cleanerVars

(* Every decision is closed when its run is over, whatever verdict could   *)
(* not be applied; excepted is one whose closing statement itself failed.  *)
DecisionsClosed ==
    \A d \in clDec : (d.status = "pending" /\ <<d.mem, d.run>> \notin clLost)
                        => \E r \in Runs : clRun[r].n = d.run /\ clRun[r].mem = d.mem

-----------------------------------------------------------------------------
vars == <<storeVars, cleanerVars>>

Init == StoreInit /\ CleanerInit

(* The parts share no state: a step of one leaves the others alone.        *)
Next ==
    \/ "store" \in Parts /\ StoreNext /\ UNCHANGED <<cleanerVars>>
    \/ "cleaner" \in Parts /\ CleanerNext /\ UNCHANGED <<storeVars>>

Spec == Init /\ [][Next]_vars

TypeOK == StoreTypeOK /\ CleanerTypeOK
=============================================================================
