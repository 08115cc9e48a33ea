----------------------------- MODULE ProjectDoc -----------------------------
(***************************************************************************)
(* A project's documents (internal/projectdoc): the sections with their    *)
(* proposals, journal, mirror and embeddings, and the blueprint that says  *)
(* which sections there are.                                               *)
(***************************************************************************)
EXTENDS Naturals, FiniteSets, Sequences, SequencesExt

CONSTANTS
    Parts,            \* subset of {"doc", "blueprint"}: what is in use
    DocGlobal,        \* the section is a page of the global knowledge base
    Lines,            \* lines a text is made of
    Proposals,        \* ids of proposals
    Buffer,           \* size of the journaler's subscription
    MaxOps,           \* bound: calls of operators and agents
    MaxEvents,        \* bound: sessions that end
    MaxFails,         \* bound: failing reads, model calls, embeddings and saves
    Calls,            \* concurrent calls
    BlueprintGlobal,  \* the knowledge base instead of a project
    Defaults,         \* defaultSections or kbDefaultSections, in order
    Inputs,           \* sections an operator may send
    Answers,          \* section lists the model may answer
    MaxCalls,         \* bound: calls made
    MaxCancels        \* bound: requests cancelled or failing under way

VARIABLES
    pdDoc,             \* project_docs row: id (0: none), text, by, vec, and ver counting its writes
    pdSec,             \* blueprint: "gone" or the maintainer_mode and write_policy
    pdFrozen,          \* project_lifecycle says paused or archived
    pdProp,            \* pdProp[p]: text and decision of a proposal
    pdRem,             \* pdRem[l]: doc_line_removals row of line l
    pdFile,            \* the mirrored file, or None
    pdW,               \* pdW[w]: the call writer w is in
    pdQueue,           \* pdQueue[t]: events of topic t waiting for the journaler
    pdJour,            \* where the journaler is: "ai" and "human" are the mode it goes by
    pdOps, pdEvents, pdFails,
    pdDel,             \* history: pdDel[l], operator saves that left l out since its dismissal
    pdLogged, pdLost,  \* history: sessions logged; dropped or unreadable ones
    pdOverlap,         \* history: two calls wrote at once, or a mirror failed or found no section
    bpRows,            \* slug -> row, a partial function
    bpCall,            \* bpCall[c]: the call under way
    bpMade,            \* calls made
    bpCancels,
    bpProposal,        \* the proposal the operator sees, <<>> when none
    bpSaved,           \* history: slug -> the row last put, a partial function
    bpApplied,         \* history: applies that answered 200 undisturbed: [rows, list, pinned]
    bpRefused          \* history: sections of proposals PutSection refused

-----------------------------------------------------------------------------
(***************************************************************************)
(* One section of a project's documents (projectdoc: projectdoc.go,        *)
(* blueprint.go, journaler.go, removals.go, mirror.go, lifecycle.go,       *)
(* doc_embed_backfill.go): operators save it, agents write or propose by   *)
(* the section's policy, the journaler logs each ended session and drifts  *)
(* the section, proposals are decided, the text is embedded and mirrored   *)
(* to a file.  Nothing locks the row between a check and its write.  The   *)
(* journal's own rows, which operators and agents may add to by hand, are  *)
(* left out.                                                               *)
(***************************************************************************)

Texts == SUBSET Lines
None == {0}
Writers == {"op", "agent", "drift", "apr", "fill", "log"}
Topics == {"ended", "stopped"}

docVars == <<pdDoc, pdSec, pdFrozen, pdProp, pdRem, pdFile, pdW, pdQueue, pdJour, pdOps, pdEvents, pdFails,
          pdDel, pdLogged, pdLost, pdOverlap>>
history == <<pdDel, pdLogged, pdLost>>

NoDoc == [id |-> 0, text |-> {}, by |-> "", vec |-> None, ver |-> 0]
DocIdle == [pc |-> "idle", text |-> {}, by |-> "", ver |-> 0, id |-> 0, p |-> 0]
NoRem == [count |-> 0, status |-> "none"]

DocInit ==
    /\ pdDoc = NoDoc /\ pdSec = [mode |-> IF DocGlobal THEN "session" ELSE "ai", policy |-> "direct"] /\ pdFrozen = FALSE
    /\ pdProp = [p \in Proposals |-> [text |-> {}, decision |-> "none"]]
    /\ pdRem = [l \in Lines |-> NoRem] /\ pdFile = None /\ pdW = [w \in Writers |-> DocIdle]
    /\ pdQueue = [t \in Topics |-> 0] /\ pdJour = "idle" /\ pdOps = 0 /\ pdEvents = 0 /\ pdFails = 0
    /\ pdDel = [l \in Lines |-> 0] /\ pdLogged = 0 /\ pdLost = 0 /\ pdOverlap = FALSE

Gone == pdSec.mode = "gone"
Fail == pdFails < MaxFails /\ pdFails' = pdFails + 1
Fine == UNCHANGED pdFails
Set(w, r) == pdW' = [pdW EXCEPT ![w] = r]
Busy(w) == \E x \in Writers \ {w} : pdW[x].pc \in {"put", "embed", "mirror", "file", "fill"}
Call == pdOps < MaxOps /\ pdOps' = pdOps + 1

(* Mutant of LocksDoc: an approved text does not lock.                     *)
OnlyTypedLocks(by) == by = "operator"

(* LocksDoc: a text an operator typed or approved.                         *)
LocksDoc(by) == by \in {"operator", "approved"}

(***************************************************************************)
(* Removals.                                                               *)
(***************************************************************************)
(* The upsert of recordRemovals.                                           *)
Removed(r) ==
    CASE r.status \in {"none", "dismissed"} -> [count |-> 1, status |-> "active"]
      [] r.status = "banned"                -> r
      [] OTHER -> [count |-> r.count + 1, status |-> IF r.count + 1 >= 2 THEN "banned" ELSE "active"]

(* Rows not banned that are older than removalRetention: any of them.      *)
Expired == {e \in SUBSET Lines : \A l \in e : pdRem[l].status \in {"active", "dismissed"}}

(* Those go, and a row is written for each line that is out.               *)
Mine(by, expired, out) ==
    /\ pdRem' = [l \in Lines |-> LET r == IF l \in expired THEN NoRem ELSE pdRem[l]
                                 IN  IF l \in out THEN Removed(r) ELSE r]
    /\ pdDel' = [l \in Lines |-> (IF l \in expired THEN 0 ELSE pdDel[l]) + IF by = "operator" /\ l \in out THEN 1 ELSE 0]

(* Mutant of Mined: the texts of all authors are compared.                 *)
MinedForAll(by, next) == IF DocGlobal THEN pdDoc.text \ next ELSE {}

(* The lines of the current text an operator's save leaves out.            *)
Mined(by, next) == IF DocGlobal /\ by = "operator" THEN pdDoc.text \ next ELSE {}

(* PutDoc's recordRemovals, which may stop half way: the save goes on.     *)
RecordRemovals(by, next) ==
    \E expired \in IF DocGlobal /\ by = "operator" THEN Expired ELSE {{}} :
       \/ Fine /\ Mine(by, expired, Mined(by, next))
       \/ Fail /\ \E some \in SUBSET Mined(by, next) : Mine(by, expired, some)

DismissRemoval(l) ==
    /\ Call /\ pdRem[l].status \in {"active", "banned"}
    /\ pdRem' = [pdRem EXCEPT ![l].status = "dismissed"] /\ pdDel' = [pdDel EXCEPT ![l] = 0]
    /\ UNCHANGED <<pdDoc, pdSec, pdFrozen, pdProp, pdFile, pdW, pdQueue, pdJour, pdEvents, pdFails, pdLogged, pdLost, pdOverlap>>

(***************************************************************************)
(* Writes.                                                                 *)
(***************************************************************************)
(* Mutant of Upsert: the vector of the old text stays.                     *)
UpsertKeepsVector(by, text) ==
    pdDoc' = [id |-> IF pdDoc.id = 0 THEN 1 ELSE pdDoc.id, text |-> text, by |-> by, vec |-> pdDoc.vec, ver |-> pdDoc.ver + 1]

(* The INSERT ... ON CONFLICT of PutDoc and ApproveProposal.               *)
Upsert(by, text) ==
    pdDoc' = [id |-> IF pdDoc.id = 0 THEN 1 ELSE pdDoc.id, text |-> text, by |-> by, vec |-> None, ver |-> pdDoc.ver + 1]

(* PutDoc's check of the section, which an unreadable blueprint passes,    *)
(* and its mining of the text it reads: the upsert follows.                *)
PutDoc(w, call) ==
    /\ RecordRemovals(call.by, call.text) /\ (Gone => pdFails' # pdFails)
    /\ Set(w, [call EXCEPT !.pc = "put"])

(* A save from the panel, or of a script that says it is an agent.         *)
OperatorPut(by, text) ==
    /\ Call /\ pdW["op"].pc = "idle"
    /\ PutDoc("op", [DocIdle EXCEPT !.text = text, !.by = by])
    /\ UNCHANGED <<pdDoc, pdSec, pdFrozen, pdProp, pdFile, pdQueue, pdJour, pdEvents, pdLogged, pdLost, pdOverlap>>

(* The upsert, which may fail after the mining.                            *)
PutUpserts(w) ==
    /\ pdW[w].pc = "put"
    /\ \/ /\ Fine /\ Upsert(pdW[w].by, pdW[w].text) /\ pdOverlap' = (pdOverlap \/ Busy(w))
          /\ Set(w, [DocIdle EXCEPT !.pc = "embed", !.text = pdW[w].text, !.id = 1])
       \/ Fail /\ Set(w, DocIdle) /\ UNCHANGED <<pdDoc, pdOverlap>>
    /\ UNCHANGED <<pdSec, pdFrozen, pdProp, pdRem, pdFile, pdQueue, pdJour, pdOps, pdEvents, history>>

(* File a proposal; the caller has not seen whether the section exists.    *)
ProposeDoc(text) ==
    \E p \in Proposals :
       /\ pdProp[p].decision = "none" /\ \A q \in Proposals : q < p => pdProp[q].decision # "none"
       /\ pdProp' = [pdProp EXCEPT ![p] = [text |-> text, decision |-> "pending"]]

(* A proposal made outright.                                               *)
DocPropose(text) ==
    /\ Call /\ ~Gone /\ ProposeDoc(text)
    /\ UNCHANGED <<pdDoc, pdSec, pdFrozen, pdRem, pdFile, pdW, pdQueue, pdJour, pdEvents, pdFails, history, pdOverlap>>

(* globalKBWriteGuard and the policy: does the agent's write need a        *)
(* proposal, may it go on, or is it refused?                               *)
Route == IF Gone \/ (DocGlobal /\ pdSec.mode # "session") THEN "refused" ELSE pdSec.policy

(* SetDocByPolicy: policy and author are read first.  A failing read       *)
(* proposes (of the sections: refuses a global page).                      *)
SetCheck(text) ==
    /\ Call /\ pdW["agent"].pc = "idle" /\ Route # "refused"
    /\ \/ Fine /\ Route = "direct" /\ ~(pdDoc.id # 0 /\ LocksDoc(pdDoc.by))
          /\ Set("agent", [DocIdle EXCEPT !.pc = "check", !.text = text, !.by = "agent", !.ver = pdDoc.ver])
          /\ UNCHANGED pdProp
       \/ /\ \/ Fine /\ (Route = "proposal" \/ (pdDoc.id # 0 /\ LocksDoc(pdDoc.by)))
             \/ Fail /\ (Route = "direct" \/ ~DocGlobal)
          /\ ProposeDoc(text) /\ UNCHANGED pdW
    /\ UNCHANGED <<pdDoc, pdSec, pdFrozen, pdRem, pdFile, pdQueue, pdJour, pdEvents, history, pdOverlap>>

(* ... and then the row is written as the agent, if there is a section.    *)
DirectPut(w) ==
    /\ pdW[w].pc = "check"
    /\ \/ PutDoc(w, pdW[w])
       \/ Gone /\ Set(w, DocIdle) /\ Fine /\ UNCHANGED <<pdRem, pdDel>>
    /\ UNCHANGED <<pdDoc, pdSec, pdFrozen, pdProp, pdFile, pdQueue, pdJour, pdOps, pdEvents, pdLogged, pdLost, pdOverlap>>

(* ApproveProposal reads the undecided proposal ...                        *)
ApproveRead(p) ==
    /\ Call /\ pdW["apr"].pc = "idle" /\ pdProp[p].decision = "pending"
    /\ Set("apr", [DocIdle EXCEPT !.pc = "approve", !.text = pdProp[p].text, !.p = p])
    /\ UNCHANGED <<pdDoc, pdSec, pdFrozen, pdProp, pdRem, pdFile, pdQueue, pdJour, pdEvents, pdFails, history, pdOverlap>>

(* ... and commits the text and the decision, whatever was decided since;  *)
(* after a reset there is no row to mark, and the text lands all the same. *)
ApproveCommit ==
    LET a == pdW["apr"] IN
    /\ a.pc = "approve"
    /\ \/ /\ Fine /\ Upsert("approved", a.text) /\ pdOverlap' = (pdOverlap \/ Busy("apr"))
          /\ pdProp' = IF pdProp[a.p].decision = "none" THEN pdProp ELSE [pdProp EXCEPT ![a.p].decision = "approved"]
          /\ Set("apr", [DocIdle EXCEPT !.pc = "embed", !.text = a.text, !.id = 1])
       \/ Fail /\ Set("apr", DocIdle) /\ UNCHANGED <<pdDoc, pdProp, pdOverlap>>
    /\ UNCHANGED <<pdSec, pdFrozen, pdRem, pdFile, pdQueue, pdJour, pdOps, pdEvents, history>>

(* Mutant of RejectProposal: a decided proposal is rejected too.           *)
RejectAny(p) ==
    /\ Call /\ pdProp[p].decision # "none" /\ pdProp' = [pdProp EXCEPT ![p].decision = "rejected"]
    /\ UNCHANGED <<pdDoc, pdSec, pdFrozen, pdRem, pdFile, pdW, pdQueue, pdJour, pdEvents, pdFails, history, pdOverlap>>

RejectProposal(p) ==
    /\ Call /\ pdProp[p].decision = "pending" /\ pdProp' = [pdProp EXCEPT ![p].decision = "rejected"]
    /\ UNCHANGED <<pdDoc, pdSec, pdFrozen, pdRem, pdFile, pdW, pdQueue, pdJour, pdEvents, pdFails, history, pdOverlap>>

(***************************************************************************)
(* After a write: the vector and the file, best effort.                    *)
(***************************************************************************)
Embed(w) ==
    /\ pdW[w].pc = "embed"
    /\ pdW' = [pdW EXCEPT ![w].pc = IF DocGlobal THEN "idle" ELSE "mirror"]
    /\ \/ Fine /\ pdDoc' = [pdDoc EXCEPT !.vec = IF pdW[w].id # 0 /\ pdW[w].text # {} THEN pdW[w].text ELSE @]
       \/ Fail /\ UNCHANGED pdDoc
    /\ UNCHANGED <<pdSec, pdFrozen, pdProp, pdRem, pdFile, pdQueue, pdJour, pdOps, pdEvents, history, pdOverlap>>

(* Mutant of MirrorRead: the file is left as it is.                        *)
MirrorSkips(w) ==
    /\ pdW[w].pc = "mirror" /\ Set(w, DocIdle)
    /\ UNCHANGED <<pdDoc, pdSec, pdFrozen, pdProp, pdRem, pdFile, pdQueue, pdJour, pdOps, pdEvents, pdFails, history, pdOverlap>>

(* Mirror reads the rows and the sections; a section that is gone keeps    *)
(* its old file, unless the sections cannot be read: the defaults then.    *)
MirrorRead(w) ==
    /\ pdW[w].pc = "mirror"
    /\ \/ Fine /\ Gone /\ Set(w, DocIdle) /\ pdOverlap' = TRUE
       \/ /\ (Fine /\ ~Gone) \/ Fail
          /\ Set(w, [DocIdle EXCEPT !.pc = "file", !.text = pdDoc.text]) /\ UNCHANGED pdOverlap
       \/ Fail /\ Set(w, DocIdle) /\ pdOverlap' = TRUE
    /\ UNCHANGED <<pdDoc, pdSec, pdFrozen, pdProp, pdRem, pdFile, pdQueue, pdJour, pdOps, pdEvents, history>>

MirrorWrite(w) ==
    /\ pdW[w].pc = "file" /\ Set(w, DocIdle) /\ pdFile' = pdW[w].text
    /\ UNCHANGED <<pdDoc, pdSec, pdFrozen, pdProp, pdRem, pdQueue, pdJour, pdOps, pdEvents, pdFails, history, pdOverlap>>

(* Mutant of BackfillRead: the rows agents wrote are left out.             *)
BackfillSkipsAgents ==
    /\ pdW["fill"].pc = "idle" /\ pdDoc.id # 0 /\ pdDoc.vec = None /\ pdDoc.text # {} /\ pdDoc.by # "agent"
    /\ Set("fill", [DocIdle EXCEPT !.pc = "fill", !.text = pdDoc.text, !.id = pdDoc.id])
    /\ pdOverlap' = (pdOverlap \/ Busy("fill"))
    /\ UNCHANGED <<pdDoc, pdSec, pdFrozen, pdProp, pdRem, pdFile, pdQueue, pdJour, pdOps, pdEvents, pdFails, history>>

(* backfillDocsOneCycle: rows without a vector are read, then written.     *)
BackfillRead ==
    /\ pdW["fill"].pc = "idle" /\ pdDoc.id # 0 /\ pdDoc.vec = None /\ pdDoc.text # {}
    /\ Set("fill", [DocIdle EXCEPT !.pc = "fill", !.text = pdDoc.text, !.id = pdDoc.id])
    /\ pdOverlap' = (pdOverlap \/ Busy("fill"))
    /\ UNCHANGED <<pdDoc, pdSec, pdFrozen, pdProp, pdRem, pdFile, pdQueue, pdJour, pdOps, pdEvents, pdFails, history>>

BackfillWrite ==
    /\ pdW["fill"].pc = "fill" /\ Set("fill", DocIdle)
    /\ \/ Fine /\ pdDoc' = [pdDoc EXCEPT !.vec = IF pdW["fill"].id # 0 THEN pdW["fill"].text ELSE @]
       \/ Fail /\ UNCHANGED pdDoc
    /\ UNCHANGED <<pdSec, pdFrozen, pdProp, pdRem, pdFile, pdQueue, pdJour, pdOps, pdEvents, history, pdOverlap>>

(***************************************************************************)
(* The journaler.                                                          *)
(***************************************************************************)
SessionEnds(t) ==
    /\ ~DocGlobal /\ pdEvents < MaxEvents /\ pdEvents' = pdEvents + 1
    /\ \/ pdQueue[t] < Buffer /\ pdQueue' = [pdQueue EXCEPT ![t] = @ + 1] /\ UNCHANGED pdLost
       \/ pdQueue[t] = Buffer /\ pdLost' = pdLost + 1 /\ UNCHANGED pdQueue
    /\ UNCHANGED <<pdDoc, pdSec, pdFrozen, pdProp, pdRem, pdFile, pdW, pdJour, pdOps, pdFails, pdDel, pdLogged, pdOverlap>>

(* The journaler's own writes are over.                                    *)
JourFree(at) == pdJour \in at /\ pdW["log"].pc = "idle" /\ pdW["drift"].pc = "idle"

(* process: the session is looked up and its transcript given to a model.  *)
Process ==
    /\ JourFree({"idle"})
    /\ \E t \in Topics : pdQueue[t] > 0 /\ pdQueue' = [pdQueue EXCEPT ![t] = @ - 1]
    /\ \/ Fine /\ pdJour' = "summarise" /\ UNCHANGED pdLost
       \/ Fail /\ pdJour' = "idle" /\ pdLost' = pdLost + 1
    /\ UNCHANGED <<pdDoc, pdSec, pdFrozen, pdProp, pdRem, pdFile, pdW, pdOps, pdEvents, pdDel, pdLogged, pdOverlap>>

(* Mutant of AppendLog: without a summary nothing is logged.               *)
AppendSummarised ==
    /\ pdJour = "summarise"
    /\ \/ Fine /\ pdJour' = "drift" /\ pdLogged' = pdLogged + 1
       \/ Fail /\ pdJour' = "idle" /\ UNCHANGED pdLogged
    /\ UNCHANGED <<pdDoc, pdSec, pdFrozen, pdProp, pdRem, pdFile, pdW, pdQueue, pdOps, pdEvents, pdDel, pdLost, pdOverlap>>

(* The entry is written, with or without the summary, and mirrored with    *)
(* the sections; only with a summary does the drift follow.                *)
AppendLog ==
    /\ pdJour = "summarise"
    /\ \/ /\ \/ Fine /\ pdJour' = "drift"
             \/ Fail /\ pdJour' = "idle"
          /\ pdLogged' = pdLogged + 1 /\ Set("log", [DocIdle EXCEPT !.pc = "mirror"]) /\ UNCHANGED pdLost
          /\ pdOverlap' = (pdOverlap \/ Busy("log"))
       \/ Fail /\ pdJour' = "idle" /\ pdLost' = pdLost + 1 /\ UNCHANGED <<pdLogged, pdW, pdOverlap>>
    /\ UNCHANGED <<pdDoc, pdSec, pdFrozen, pdProp, pdRem, pdFile, pdQueue, pdOps, pdEvents, pdDel>>

(* driftBlueprintSections: the mode of the section, or that of the         *)
(* defaults when the blueprint cannot be read.                             *)
DriftList ==
    /\ JourFree({"drift"})
    /\ \/ Fine /\ pdJour' = IF pdSec.mode \in {"ai", "human"} THEN pdSec.mode ELSE "idle"
       \/ Fail /\ pdJour' = "ai"
    /\ UNCHANGED <<pdDoc, pdSec, pdFrozen, pdProp, pdRem, pdFile, pdW, pdQueue, pdOps, pdEvents, history, pdOverlap>>

(* maybeProposeDocDrift, after the sections before this one: reads status  *)
(* and text and asks the model.  A frozen project, an absent, empty or     *)
(* unreadable text needs no drift; an unreadable status is not frozen.     *)
DriftRead ==
    /\ JourFree({"ai", "human"})
    /\ \/ /\ \/ Fine /\ ~pdFrozen
             \/ Fail
          /\ pdDoc.id # 0 /\ pdDoc.text # {} /\ pdJour' = "model"
          /\ Set("drift", [DocIdle EXCEPT !.pc = IF pdJour = "ai" /\ ~LocksDoc(pdDoc.by) THEN "direct" ELSE "propose",
                                         !.by = "agent", !.ver = pdDoc.ver])
       \/ /\ \/ Fine /\ (pdFrozen \/ pdDoc.id = 0 \/ pdDoc.text = {})
             \/ Fail
          /\ pdJour' = "idle" /\ UNCHANGED pdW
    /\ UNCHANGED <<pdDoc, pdSec, pdFrozen, pdProp, pdRem, pdFile, pdQueue, pdOps, pdEvents, history, pdOverlap>>

(* The model answers minutes later: nothing, a text written by what was    *)
(* read then, or a proposal.                                               *)
DriftAnswer(text) ==
    /\ pdJour = "model" /\ pdW["drift"].pc \in {"direct", "propose"} /\ pdJour' = "idle"
    /\ \/ (Fail \/ Fine) /\ Set("drift", DocIdle) /\ UNCHANGED pdProp
       \/ Fine /\ pdW["drift"].pc = "direct" /\ UNCHANGED pdProp
          /\ Set("drift", [pdW["drift"] EXCEPT !.pc = "check", !.text = text])
       \/ Fine /\ pdW["drift"].pc = "propose" /\ Set("drift", DocIdle)
          /\ IF Gone THEN UNCHANGED pdProp ELSE ProposeDoc(text)
    /\ UNCHANGED <<pdDoc, pdSec, pdFrozen, pdRem, pdFile, pdQueue, pdOps, pdEvents, history, pdOverlap>>

(***************************************************************************)
(* Operator: blueprint, lifecycle, reset.                                  *)
(***************************************************************************)
DocPutSection(m, pol) ==
    /\ Call /\ m \in {"ai", "human", "scanner", "session"} /\ (m = "session" => DocGlobal)
    /\ pdSec' = [mode |-> m, policy |-> pol] /\ pdSec' # pdSec
    /\ UNCHANGED <<pdDoc, pdFrozen, pdProp, pdRem, pdFile, pdW, pdQueue, pdJour, pdEvents, pdFails, history, pdOverlap>>

DocDeleteSection ==
    /\ Call /\ ~Gone /\ pdSec' = [pdSec EXCEPT !.mode = "gone"]
    /\ UNCHANGED <<pdDoc, pdFrozen, pdProp, pdRem, pdFile, pdW, pdQueue, pdJour, pdEvents, pdFails, history, pdOverlap>>

SetStatus ==
    /\ Call /\ ~DocGlobal /\ pdFrozen' = ~pdFrozen
    /\ UNCHANGED <<pdDoc, pdSec, pdProp, pdRem, pdFile, pdW, pdQueue, pdJour, pdEvents, pdFails, history, pdOverlap>>

(* ResetCwd: proposals go, and so does the text of goal and plan (of       *)
(* others, too, when asked to); the file stays until the next mirror.  A   *)
(* later row has another id (here: writers in flight lose theirs).         *)
ResetCwd ==
    /\ Call /\ ~DocGlobal
    /\ pdProp' = [p \in Proposals |-> [text |-> {}, decision |-> "none"]]
    /\ \/ /\ pdDoc' = [NoDoc EXCEPT !.ver = pdDoc.ver + 1] /\ pdOverlap' = (pdOverlap \/ Busy("none"))
          /\ pdW' = [w \in Writers |-> [pdW[w] EXCEPT !.id = 0]]
       \/ UNCHANGED <<pdDoc, pdW, pdOverlap>>
    /\ UNCHANGED <<pdSec, pdFrozen, pdRem, pdFile, pdQueue, pdJour, pdEvents, pdFails, history>>

DocTail(w) == PutUpserts(w) \/ Embed(w) \/ MirrorRead(w) \/ MirrorWrite(w)
Journal == Process \/ AppendLog \/ DriftList \/ DriftRead \/ \E t \in Texts : DriftAnswer(t)

DocNext ==
    \/ \E t \in Texts : SetCheck(t) \/ DocPropose(t) \/ \E by \in {"operator", "agent"} : OperatorPut(by, t)
    \/ \E w \in Writers : DocTail(w) \/ DirectPut(w)
    \/ \E p \in Proposals : ApproveRead(p) \/ RejectProposal(p)
    \/ ApproveCommit \/ BackfillRead \/ BackfillWrite \/ Journal
    \/ \E t \in Topics : SessionEnds(t)
    \/ \E l \in Lines : DismissRemoval(l)
    \/ \E m \in {"ai", "human", "scanner", "session"}, pol \in {"direct", "proposal"} : DocPutSection(m, pol)
    \/ DocDeleteSection \/ SetStatus \/ ResetCwd

(* The calls finish, the backfill loop and the journaler go on.            *)
DocFairness ==
    /\ \A w \in Writers : WF_docVars(DocTail(w)) /\ WF_docVars(DirectPut(w))
    /\ WF_docVars(ApproveCommit) /\ WF_docVars(BackfillRead) /\ WF_docVars(BackfillWrite) /\ WF_docVars(Journal)

DocTypeOK ==
    /\ pdDoc.text \subseteq Lines /\ pdDoc.vec \in Texts \union {None} /\ pdDoc.by \in {"", "operator", "agent", "approved"}
    /\ pdSec.mode \in {"ai", "human", "scanner", "session", "gone"} /\ pdFrozen \in BOOLEAN
    /\ \A p \in Proposals : pdProp[p].decision \in {"none", "pending", "approved", "rejected"}
    /\ \A l \in Lines : pdRem[l].status \in {"none", "active", "banned", "dismissed"}
    /\ pdFile \in Texts \union {None} /\ pdQueue \in [Topics -> 0..Buffer]

(* What one step may do, for HumanTextGated.                               *)
HumanTextGatedStep ==
    (pdDoc'.by = "agent" /\ pdDoc'.ver # pdDoc.ver /\ pdDoc.by \in {"operator", "approved"}) =>
        \/ \E w \in {"agent", "drift"} : pdW[w].pc = "put" /\ pdW[w].ver # pdDoc.ver
        \/ pdW["op"].pc = "put" /\ pdW["op"].by = "agent"

(* A text an operator typed or approved is replaced by an agent's direct   *)
(* write only when it was saved between that write's check and the write:  *)
(* policies, maintainer modes, failing reads and drift never bypass the    *)
(* gate (a save from the panel that gives its author as agent does).       *)
HumanTextGated == [][HumanTextGatedStep]_docVars

(* What the comment at SetDocByPolicy says: a human edit re-gates the next *)
(* agent write, so an agent never replaces a text a person typed.          *)
NeverClobbered == [][(pdDoc'.by = "agent" /\ pdDoc'.ver # pdDoc.ver) => pdDoc.by # "operator"]_docVars

(* What one step may do, for DecidedOnce.                                  *)
DecidedOnceStep ==
    \A p \in Proposals :
        (pdProp[p].decision \in {"approved", "rejected"} /\ pdProp'[p].decision \in {"approved", "rejected"}
           /\ pdProp'[p].decision # pdProp[p].decision) => (pdW["apr"].pc = "approve" /\ pdW["apr"].p = p)

(* A decision about a proposal stands, but for an approval that had read   *)
(* the proposal before the other decision was made.                        *)
DecidedOnce == [][DecidedOnceStep]_docVars

(* Only what operators left out at least twice since they last dismissed   *)
(* it (or since it was forgotten unbanned) is banned: drafts of agents and *)
(* approvals never count.                                                  *)
RemovalsAreHuman == \A l \in Lines : pdRem[l].status = "banned" => pdDel[l] >= 2

(* Unless two writes overlapped, a vector is the one of the text.          *)
VectorOfText == pdOverlap \/ pdDoc.vec \in {None, pdDoc.text}

(* Unless two writes overlapped (or the section was gone when the file was *)
(* due), the mirrored file holds what the row holds once calls are over.   *)
MirrorTrue ==
    (~DocGlobal /\ ~pdOverlap /\ pdDoc.id # 0 /\ ~Gone /\ \A w \in Writers : pdW[w].pc \in {"idle", "check", "put", "approve", "direct", "propose"})
       => pdFile = pdDoc.text

(* Every session that ended is logged, waits for the journaler, or was     *)
(* dropped at a full buffer, a failed lookup or a failed insert; a failing *)
(* model costs no entry.                                                   *)
NoSilentSession == pdEvents = pdQueue["ended"] + pdQueue["stopped"] + pdLogged + pdLost + IF pdJour = "summarise" THEN 1 ELSE 0

(* A text that failed to embed gets a vector all the same.                 *)
VectorArrives == [](pdDoc.id # 0 /\ pdDoc.text # {} => <>(pdDoc.vec # None \/ pdDoc.id = 0 \/ pdDoc.text = {}))

-----------------------------------------------------------------------------
(***************************************************************************)
(* The section set of one project, or of the knowledge base                *)
(* (projectdoc/blueprint.go), and the AI's proposals for it                *)
(* (cortex/blueprint_proposer.go, handler.go).  The set is seeded lazily,  *)
(* one INSERT per default section and no transaction around them; every    *)
(* call lists first.  Applying a list puts section by section, lists, and  *)
(* deletes what is not in the list.                                        *)
(***************************************************************************)

blueprintVars == <<bpRows, bpCall, bpMade, bpCancels, bpProposal, bpSaved, bpApplied, bpRefused>>

BlueprintIdle == [at |-> "idle", then |-> "", seed |-> 0, todo |-> <<>>, keep |-> {}, apply |-> FALSE,
         ai |-> FALSE, existing |-> {}, disturbed |-> FALSE]

Modes == {"ai", "human", "scanner", "session"}
Reserved == {Defaults[i].slug: i \in {j \in DOMAIN Defaults: Defaults[j].pinned}}
Slugs == {s.slug: s \in Inputs} \union {Defaults[i].slug: i \in DOMAIN Defaults}
         \union UNION {{a[i].slug: i \in DOMAIN a}: a \in Answers}
Put(rows, slug, row) == [s \in DOMAIN rows \union {slug} |-> IF s = slug THEN row ELSE rows[s]]
Without(rows, slug) == [s \in DOMAIN rows \ {slug} |-> rows[s]]

(* ValidSectionSlug and ValidGlobalKBSlug, told apart by the kb flag.      *)
ValidSlug(sec) == sec.kb = BlueprintGlobal

(* What PutSection checks before it writes.                                *)
Valid(sec) ==
    /\ ValidSlug(sec) /\ sec.title # "" /\ sec.mode \in Modes
    /\ sec.policy \in {"", "direct", "proposal"}
    /\ BlueprintGlobal => sec.nature \in {"foundational", "emergent"}
    /\ ~BlueprintGlobal => sec.mode # "session" /\ ~sec.exclusions

(* What it stores: the reserved sections stay pinned, an empty policy is   *)
(* the proposal gate, a project's section has no nature.                   *)
RowOf(sec) ==
    [title |-> sec.title, mode |-> sec.mode, policy |-> IF sec.policy = "direct" THEN "direct" ELSE "proposal",
     pinned |-> sec.pinned \/ sec.slug \in Reserved, nature |-> IF BlueprintGlobal THEN sec.nature ELSE ""]

Enter(c, call) == bpCall' = [bpCall EXCEPT ![c] = call]
(* Every write disturbs the applies of the other calls.                    *)
EnterWriting(c, call) ==
    bpCall' = [d \in Calls |-> IF d = c THEN call ELSE [bpCall[d] EXCEPT !.disturbed = bpCall[d].at # "idle"]]

BlueprintInit ==
    /\ bpRows = <<>> /\ bpCall = [c \in Calls |-> BlueprintIdle] /\ bpMade = 0 /\ bpCancels = 0
    /\ bpProposal = <<>> /\ bpSaved = <<>> /\ bpApplied = {} /\ bpRefused = {}

(* Mutant of Turn: the put does not list, and so seed, first.              *)
TurnUnseeded(call) == IF Valid(call.todo[1]) THEN [call EXCEPT !.at = "put"] ELSE BlueprintIdle

(* The next section of a put or an apply: refused, or listed for.          *)
Turn(call) == IF Valid(call.todo[1]) THEN [call EXCEPT !.at = "list", !.then = "put"] ELSE BlueprintIdle
TurnRefused(call) == IF call.ai /\ ~Valid(call.todo[1]) THEN {call.todo[1]} ELSE {}

Begin(c, call) == bpCall[c] = BlueprintIdle /\ bpMade < MaxCalls /\ bpMade' = bpMade + 1 /\ Enter(c, call)

(* A reader (the panel, a spawn, a doc write's check) lists.               *)
Open(c) ==
    /\ Begin(c, [BlueprintIdle EXCEPT !.at = "list", !.then = "done"])
    /\ UNCHANGED <<bpRows, bpCancels, bpProposal, bpSaved, bpApplied, bpRefused>>

BlueprintPutSection(c, sec) ==
    /\ Begin(c, Turn([BlueprintIdle EXCEPT !.todo = <<sec>>]))
    /\ UNCHANGED <<bpRows, bpCancels, bpProposal, bpSaved, bpApplied, bpRefused>>

(* applyBlueprint with the operator's list or the proposal as it is.       *)
ApplyBlueprint(c, list, ai) ==
    LET call == [BlueprintIdle EXCEPT !.todo = list, !.apply = TRUE, !.ai = ai,
                             !.keep = {list[i].slug: i \in DOMAIN list} \union {"overview"}]
    IN  /\ list # <<>> /\ Begin(c, Turn(call)) /\ bpRefused' = bpRefused \union TurnRefused(call)
        /\ UNCHANGED <<bpRows, bpCancels, bpProposal, bpSaved, bpApplied>>

(* ListSections: a non-empty set is served, an empty one seeded first.     *)
List(c) ==
    /\ bpCall[c].at = "list"
    /\ Enter(c, IF DOMAIN bpRows = {} THEN [bpCall[c] EXCEPT !.at = "seed", !.seed = 1]
                ELSE IF bpCall[c].then = "done" THEN BlueprintIdle
                ELSE [bpCall[c] EXCEPT !.at = bpCall[c].then, !.existing = DOMAIN bpRows])
    /\ UNCHANGED <<bpRows, bpMade, bpCancels, bpProposal, bpSaved, bpApplied, bpRefused>>

(* Mutant of SeedRow: ON CONFLICT DO UPDATE.                               *)
SeedOverwrites(c) ==
    LET call == bpCall[c]  sec == Defaults[call.seed]
    IN  /\ call.at = "seed"
        /\ bpRows' = Put(bpRows, sec.slug, RowOf(sec))
        /\ EnterWriting(c, IF call.seed = Len(Defaults) THEN [call EXCEPT !.at = "relist"] ELSE [call EXCEPT !.seed = @ + 1])
        /\ UNCHANGED <<bpMade, bpCancels, bpProposal, bpSaved, bpApplied, bpRefused>>

(* seedSections: one INSERT ON CONFLICT DO NOTHING, ...                    *)
SeedRow(c) ==
    LET call == bpCall[c]  sec == Defaults[call.seed]
    IN  /\ call.at = "seed"
        /\ bpRows' = IF sec.slug \in DOMAIN bpRows THEN bpRows ELSE Put(bpRows, sec.slug, RowOf(sec))
        /\ EnterWriting(c, IF call.seed = Len(Defaults) THEN [call EXCEPT !.at = "relist"] ELSE [call EXCEPT !.seed = @ + 1])
        /\ UNCHANGED <<bpMade, bpCancels, bpProposal, bpSaved, bpApplied, bpRefused>>

(* ... and the set is read again.                                          *)
Relist(c) ==
    /\ bpCall[c].at = "relist"
    /\ Enter(c, IF bpCall[c].then = "done" THEN BlueprintIdle
                ELSE [bpCall[c] EXCEPT !.at = bpCall[c].then, !.existing = DOMAIN bpRows])
    /\ UNCHANGED <<bpRows, bpMade, bpCancels, bpProposal, bpSaved, bpApplied, bpRefused>>

(* Mutant of PutRow: nothing is swept.                                     *)
PutRowNoSweep(c) ==
    LET call == bpCall[c]
        sec  == call.todo[1]
        rest == [call EXCEPT !.todo = Tail(@)]
    IN  /\ call.at = "put"
        /\ bpRows' = Put(bpRows, sec.slug, RowOf(sec)) /\ bpSaved' = Put(bpSaved, sec.slug, RowOf(sec))
        /\ EnterWriting(c, IF rest.todo # <<>> THEN Turn(rest)
                           ELSE IF call.apply THEN [rest EXCEPT !.at = "sweep", !.existing = {}] ELSE BlueprintIdle)
        /\ bpRefused' = IF rest.todo # <<>> THEN bpRefused \union TurnRefused(rest) ELSE bpRefused
        /\ UNCHANGED <<bpMade, bpCancels, bpProposal, bpApplied>>

(* The upsert; an apply goes on with its next section and, after the last, *)
(* lists what there is.                                                    *)
PutRow(c) ==
    LET call == bpCall[c]
        sec  == call.todo[1]
        rest == [call EXCEPT !.todo = Tail(@)]
    IN  /\ call.at = "put"
        /\ bpRows' = Put(bpRows, sec.slug, RowOf(sec)) /\ bpSaved' = Put(bpSaved, sec.slug, RowOf(sec))
        /\ EnterWriting(c, IF rest.todo # <<>> THEN Turn(rest)
                           ELSE IF call.apply THEN [rest EXCEPT !.at = "list", !.then = "sweep"] ELSE BlueprintIdle)
        /\ bpRefused' = IF rest.todo # <<>> THEN bpRefused \union TurnRefused(rest) ELSE bpRefused
        /\ UNCHANGED <<bpMade, bpCancels, bpProposal, bpApplied>>

(* DELETE ... AND NOT pinned, refused for the reserved sections.           *)
Deleted(rows, slug) ==
    IF slug \in DOMAIN rows /\ slug \notin Reserved /\ ~rows[slug].pinned THEN Without(rows, slug) ELSE rows

(* The sweep of an apply: one section that is not in the list; a failing   *)
(* delete is only logged.                                                  *)
SweepOne(c) ==
    LET call == bpCall[c]
        gone == call.existing \ call.keep
    IN  /\ call.at = "sweep"
        /\ \/ \E s \in gone:
                /\ bpRows' = Deleted(bpRows, s) /\ bpSaved' = Without(bpSaved, s)
                /\ EnterWriting(c, [call EXCEPT !.existing = @ \ {s}]) /\ UNCHANGED <<bpCancels, bpApplied>>
           \/ /\ bpCancels < MaxCancels /\ bpCancels' = bpCancels + 1 /\ gone # {}
              /\ \E s \in gone : Enter(c, [call EXCEPT !.existing = @ \ {s}, !.disturbed = TRUE])
              /\ UNCHANGED <<bpRows, bpSaved, bpApplied>>
           \/ /\ gone = {} /\ Enter(c, BlueprintIdle) /\ UNCHANGED <<bpRows, bpCancels, bpSaved>>
              /\ bpApplied' = IF call.disturbed THEN bpApplied
                              ELSE bpApplied \union {[rows |-> bpRows, keep |-> call.keep]}
        /\ UNCHANGED <<bpMade, bpProposal, bpRefused>>

(* DeleteSection from the panel.                                           *)
BlueprintDeleteSection(s) ==
    /\ bpMade < MaxCalls /\ bpMade' = bpMade + 1 /\ s \in DOMAIN bpRows
    /\ bpRows' = Deleted(bpRows, s) /\ bpRows' # bpRows /\ bpSaved' = Without(bpSaved, s)
    /\ bpCall' = [c \in Calls |-> [bpCall[c] EXCEPT !.disturbed = bpCall[c].at # "idle"]]
    /\ UNCHANGED <<bpCancels, bpProposal, bpApplied, bpRefused>>

(* The request is cancelled, or a statement fails: what it wrote stays.    *)
Cancelled(c) ==
    /\ bpCall[c] # BlueprintIdle /\ bpCancels < MaxCancels /\ bpCancels' = bpCancels + 1
    /\ Enter(c, BlueprintIdle)
    /\ UNCHANGED <<bpRows, bpMade, bpProposal, bpSaved, bpApplied, bpRefused>>

(* Mutant of Cleaned: knowledge-only modes are kept.                       *)
CleanedKeepsSession(answer) == SelectSeq(answer, LAMBDA sec: ~sec.kb /\ sec.mode \in Modes)

(* Propose drops the sections a project could not save; pinned and policy  *)
(* are as the schema has them: no write policy in it.                      *)
Cleaned(answer) == SelectSeq(answer, LAMBDA sec: ~sec.kb /\ sec.mode \in Modes \ {"session"})

(* Propose lists, and so seeds, first ...                                  *)
ProposeLists(c) ==
    /\ ~BlueprintGlobal /\ Begin(c, [BlueprintIdle EXCEPT !.at = "list", !.then = "propose"])
    /\ UNCHANGED <<bpRows, bpCancels, bpProposal, bpSaved, bpApplied, bpRefused>>

(* ... and asks the model; an answer without the overview is refused.      *)
Propose(c) ==
    /\ bpCall[c].at = "propose" /\ Enter(c, BlueprintIdle)
    /\ \E a \in Answers:
        IF \E i \in DOMAIN Cleaned(a): Cleaned(a)[i].slug = Defaults[1].slug
          THEN bpProposal' = Cleaned(a) ELSE UNCHANGED bpProposal
    /\ UNCHANGED <<bpRows, bpMade, bpCancels, bpSaved, bpApplied, bpRefused>>

Lists == {<<s>>: s \in Inputs}

BlueprintNext ==
    \/ \E c \in Calls:
        \/ ProposeLists(c) \/ Propose(c)
        \/ Open(c) \/ List(c) \/ SeedRow(c) \/ Relist(c) \/ PutRow(c) \/ SweepOne(c) \/ Cancelled(c)
        \/ \E sec \in Inputs: BlueprintPutSection(c, sec)
        \/ \E l \in Lists: ApplyBlueprint(c, l, FALSE)
        \/ ApplyBlueprint(c, bpProposal, TRUE)
    \/ \E s \in Slugs: BlueprintDeleteSection(s)

(* The state has the shape the code gives it.                              *)
BlueprintTypeOK ==
    /\ DOMAIN bpRows \subseteq Slugs
    /\ \A s \in DOMAIN bpRows: bpRows[s].mode \in Modes /\ bpRows[s].policy \in {"direct", "proposal"}
    /\ \A c \in Calls: bpCall[c].at \in {"idle", "list", "seed", "relist", "put", "sweep", "propose"}

(* "idempotent - ON CONFLICT DO NOTHING" (ListSections): seeds that run    *)
(* beside the operator's calls never undo what a put stored.               *)
SavedStays == \A s \in DOMAIN bpSaved: s \in DOMAIN bpRows /\ s \notin Reserved => bpRows[s] = bpSaved[s]

(* "present in every blueprint, pinned, undeletable" (SlugOverview): from  *)
(* the first row on, whatever applies, deletes and cancelled seeds do, the *)
(* front page is there and pinned.                                         *)
FrontPageStays == DOMAIN bpRows # {} => Defaults[1].slug \in DOMAIN bpRows /\ bpRows[Defaults[1].slug].pinned

(* "replaces a project's blueprint with the given section set"             *)
(* (applyBlueprint): an apply no other call wrote beside leaves its list,  *)
(* the front page and pinned sections.                                     *)
AppliedWhole ==
    \A a \in bpApplied:
        /\ a.keep \subseteq DOMAIN a.rows
        /\ \A s \in DOMAIN a.rows: s \in a.keep \/ a.rows[s].pinned

(* "drop it here rather than surface a proposal the operator can approve   *)
(* but not save" (Propose), for sections that have a title.                *)
ProposalSavable == \A sec \in bpRefused: sec.title = ""

(* The same for every section of a proposal.                               *)
ApprovedIsSaved == bpRefused = {}

(* "every project always has a usable section set" (ListSections): once no *)
(* call is under way, the default set was seeded whole or not at all.      *)
SeedComplete ==
    (\A c \in Calls: bpCall[c] = BlueprintIdle) /\ bpSaved = <<>> /\ DOMAIN bpRows # {} /\ bpMade <= 1 =>
        {Defaults[i].slug: i \in DOMAIN Defaults} \subseteq DOMAIN bpRows

(* The one section agents write directly keeps its policy when the         *)
(* operator accepts a proposal that lists it (applyBlueprint).             *)
DirectStaysDirect ==
    [][\A s \in DOMAIN bpRows: s \in DOMAIN bpRows' /\ bpRows[s].policy = "direct" /\ bpRows'[s].policy # "direct"
          => \E c \in Calls: bpCall[c].at = "put" /\ ~bpCall[c].ai]_blueprintVars

-----------------------------------------------------------------------------
vars == <<docVars, blueprintVars>>

Init == DocInit /\ BlueprintInit

(* The parts share no state: a step of one leaves the others alone.        *)
Next ==
    \/ "doc" \in Parts /\ DocNext /\ UNCHANGED <<blueprintVars>>
    \/ "blueprint" \in Parts /\ BlueprintNext /\ UNCHANGED <<docVars>>

Spec == Init /\ [][Next]_vars

TypeOK == DocTypeOK /\ BlueprintTypeOK
=============================================================================
