----------------------------- MODULE Knowledge ------------------------------
(***************************************************************************)
(* What the gateway distils from its sessions (internal/knowledge): skills *)
(* with their switch and their curator, and the pages of the knowledge     *)
(* base that a sweep drafts.                                               *)
(***************************************************************************)
EXTENDS Naturals, FiniteSets

CONSTANTS
    Parts,          \* subset of {"skill", "draft"}: what is in use
    Sessions,       \* sessions that may be journaled
    Titles, Slug,   \* titles the model gives, and skillSlug of each
    MinRecurrence,  \* successes that make a procedure worth distilling
    MaxPerSweep,    \* model calls of one sweep
    MaxNodes,       \* bound: nodes ever created
    Ops,            \* bound: which of "age", "toggle" and "distill" happen
    MaxChanges,     \* bound: toggles, deletions, resets and restarts
    Kind,           \* "kb", a global Knowledge page, or "overview", a project's
    Lines,          \* facts, and the lines drawn from them
    Hints,          \* maintainer hints of the page's section
    Runs,           \* callers of the drafter: the sweep, the endpoint
    MaxOps,         \* bound: changes of evidence, page and settings
    MaxFails        \* bound: model calls that fail

VARIABLES
    knLog,       \* knLog[s]: "no", "ok" or "failed", in session_logs
    knSig,       \* lastSig: the feedstock of the last finished sweep
    knSweep,     \* the sweep under way: its feedstock, queue, calls and the titles it read
    knNode,      \* knowledge_nodes: playbooks and skills
    knFile,      \* knFile[g]: the skill whose SKILL.md lies under g, 0 if none
    knScript,    \* slugs that hold a run.sh
    knCall,      \* Skillify under way: the skill node, its playbook's fate read already
    knDistill,   \* DistillSkillFromAgent between its two statements
    knFiling,    \* second steps owed: <<skill, "on" | "off" | "curate">>, its file,
                 \* and <<node, "row">>, the row DeleteNode removes
    knCurate,    \* the curator's list, read at the start of its pass
    knChanges,   \* toggles, deletions, resets and restarts so far
    knReviewed,  \* history: skills the operator promoted or enabled
    knShared,    \* history: slugs that two skills have had
    knExcuse,    \* history: skills whose last change failed or died half way, or
                 \* met another one under way
    knKept,      \* history: skills the operator enabled after 90 unused days
    kbFacts,     \* the evidence the memories give
    kbPage,      \* project_docs: author, lines and the signature in the marker
    kbSet,       \* the section's maintainer mode, write policy, hint, exclusions
    kbBanned,    \* lines the operator deleted twice
    kbPend,      \* pending proposals
    kbRej,       \* signatures of rejected ones
    kbRun,       \* kbRun[r]: a draft under way
    kbOps, kbFails,
    kbCalls,     \* history: calls since evidence, page or settings changed, or a rejection
    kbFlip       \* history: runs during which the operator changed page or settings

-----------------------------------------------------------------------------
(***************************************************************************)
(* From repeated work to a skill on disk: the experience compiler of       *)
(* internal/knowledge/experience.go, promotion, the enable switch and the  *)
(* curator of service.go, and the vault the skills loader reads            *)
(* (knowledgeSkillSink in app/app.go).  An episode is a journaled session; *)
(* clustering and the model's answers are choices; a title is a value and  *)
(* the file name it gives is Slug[title].                                  *)
(***************************************************************************)

skillVars == <<knLog, knSig, knSweep, knNode, knFile, knScript, knCall, knDistill, knFiling, knCurate, knChanges,
          knReviewed, knShared, knExcuse, knKept>>
sweepVars == <<knLog, knSig, knSweep>>
vault == <<knFile, knScript>>
underWay == <<knCall, knDistill, knFiling, knCurate, knChanges>>
skillHistory == <<knReviewed, knShared, knExcuse, knKept>>

Ids == 1..MaxNodes
Slugs == {Slug[t] : t \in Titles}
Absent == [kind |-> "none"]
Idle == [on |-> FALSE, sig |-> {}, queue |-> {}, calls |-> 0, titles |-> {}]

SkillInit ==
    /\ knLog = [s \in Sessions |-> "no"] /\ knSig = {} /\ knSweep = Idle
    /\ knNode = [i \in Ids |-> Absent] /\ knFile = [g \in Slugs |-> 0]
    /\ knScript = {} /\ knCall = 0 /\ knDistill = 0 /\ knFiling = {} /\ knCurate = {} /\ knChanges = 0
    /\ knReviewed = {} /\ knShared = {} /\ knExcuse = {} /\ knKept = {}

Made == {i \in Ids : knNode[i].kind # "none"}
OfKind(k) == {i \in Ids : knNode[i].kind = k}
Playbooks == OfKind("playbook")
SkillNodes == OfKind("skill")

(* An id never used before: gone nodes keep theirs ("gone").               *)
Free == {i \in Ids : knNode[i] = Absent /\ \A j \in Ids : j < i => knNode[j] # Absent}

(* The slug SetSkillEnabled works on: the recorded one or, for a distilled *)
(* skill, the one its title gives.                                         *)
SlugOf(i) == Slug[knNode[i].title]

Feedstock == {s \in Sessions : knLog[s] # "no"}
Succeeded == {s \in Sessions : knLog[s] = "ok"}

(* The journaler writes the summary of a finished session.                 *)
Journaled(s, outcome) ==
    /\ knLog[s] = "no"
    /\ knLog' = [knLog EXCEPT ![s] = outcome]
    /\ UNCHANGED <<knSig, knSweep, knNode, vault, underWay, skillHistory>>

(* clusterEpisodes and qualify: disjoint groups of similar episodes, those *)
(* with enough distinct successful sessions.                               *)
Qualified(eps) ==
    {q \in SUBSET {c \in SUBSET eps : Cardinality(c) >= MinRecurrence} :
        \A c, d \in q : c # d => c \cap d = {}}

(* Mutant of ConsumedBy: only the very same session set counts.            *)
ConsumedByEqual(cl) == \E i \in Playbooks \union SkillNodes : knNode[i].sessions = cl

(* consumedBy: some candidate or skill already cites enough of the group.  *)
ConsumedBy(cl) ==
    \E i \in Playbooks \union SkillNodes :
        Cardinality(knNode[i].sessions \cap cl) >= MinRecurrence

(* CompileAll up to its loop: nothing for unchanged or thin feedstock.     *)
SweepBegins ==
    /\ ~knSweep.on
    /\ Cardinality(Feedstock) >= MinRecurrence /\ Feedstock # knSig
    /\ \E q \in Qualified(Succeeded) :
         knSweep' = [on |-> TRUE, sig |-> Feedstock, calls |-> 0,
                     queue |-> {c \in q : ~ConsumedBy(c)},
                     titles |-> {knNode[i].title : i \in Playbooks \union SkillNodes}]
    /\ UNCHANGED <<knLog, knSig, knNode, vault, underWay, skillHistory>>

Taken(c) == [knSweep EXCEPT !.queue = @ \ {c}, !.calls = @ + 1]

(* compileCluster in vain: the model fails or declines, repeats a title it *)
(* was shown, or its quotes do not span enough episodes (rejectExperience).*)
ClusterRejected(c) ==
    /\ knSweep.on /\ c \in knSweep.queue /\ knSweep.calls < MaxPerSweep
    /\ knSweep' = Taken(c)
    /\ UNCHANGED <<knLog, knSig, knNode, vault, underWay, skillHistory>>

(* compileCluster stores a candidate that cites the group's sessions.      *)
CompileCluster(c) ==
    /\ knSweep.on /\ c \in knSweep.queue /\ knSweep.calls < MaxPerSweep
    /\ \E i \in Free, t \in Titles \ knSweep.titles, script \in BOOLEAN :
         /\ knNode' = [knNode EXCEPT ![i] =
              [kind |-> "playbook", title |-> t, sessions |-> c, script |-> script,
               enabled |-> TRUE, source |-> "compiler", old |-> FALSE]]
         /\ knSweep' = [Taken(c) EXCEPT !.titles = @ \union {t}]
    /\ UNCHANGED <<knLog, knSig, vault, underWay, skillHistory>>

(* The cap, or the end of the queue: the feedstock counts as done.         *)
SweepEnds ==
    /\ knSweep.on /\ (knSweep.queue = {} \/ knSweep.calls = MaxPerSweep)
    /\ knSig' = knSweep.sig /\ knSweep' = Idle
    /\ UNCHANGED <<knLog, knNode, vault, underWay, skillHistory>>

NewSkill(t, sessions, script, source) ==
    [kind |-> "skill", title |-> t, sessions |-> sessions, script |-> script,
     enabled |-> TRUE, source |-> source, old |-> FALSE]

(* Another skill has, or had, this file name.                              *)
SharedWith(t) ==
    IF \E j \in Ids : knNode[j].kind \in {"skill", "gone"} /\ Slug[knNode[j].title] = Slug[t]
    THEN knShared \union {Slug[t]} ELSE knShared

(* Skillify up to the model's answer: the skill node, on by default.       *)
SkillifyBegins(pb) ==
    /\ knCall = 0 /\ pb \in Playbooks
    /\ \E i \in Free :
         /\ knNode' = [knNode EXCEPT ![i] = NewSkill(knNode[pb].title, knNode[pb].sessions,
                                                     knNode[pb].script, "skillify")]
         /\ knCall' = i /\ knReviewed' = knReviewed \union {i}
    /\ knShared' = SharedWith(knNode[pb].title)
    /\ UNCHANGED <<sweepVars, knChanges, vault, knDistill, knFiling, knCurate, knExcuse, knKept>>

(* materialiseCompiledForm: run.sh beside SKILL.md; its custom task, which *)
(* nothing ever removes, is left out.                                      *)
Materialise(i) ==
    IF knNode[i].script THEN knScript' = knScript \union {SlugOf(i)} ELSE UNCHANGED knScript

(* Mutant of SwitchFile: the run.sh is deleted, the SKILL.md is not.       *)
SwitchFileKeeps(i, on) ==
    IF on THEN knFile' = [knFile EXCEPT ![SlugOf(i)] = i] /\ Materialise(i)
    ELSE knScript' = knScript \ {SlugOf(i)} /\ UNCHANGED knFile

(* The vault's half of a change: render SKILL.md and run.sh, or remove the *)
(* directory, ...                                                          *)
SwitchFile(i, on) ==
    IF on THEN knFile' = [knFile EXCEPT ![SlugOf(i)] = i] /\ Materialise(i)
    ELSE knFile' = [knFile EXCEPT ![SlugOf(i)] = 0] /\ knScript' = knScript \ {SlugOf(i)}

(* ... or it fails, half done or not at all.                               *)
SwitchFails(i, on) ==
    /\ knFile' \in {knFile, [knFile EXCEPT ![SlugOf(i)] = IF on THEN i ELSE 0]}
    /\ knScript' \in {knScript} \union (IF on THEN {} ELSE {knScript \ {SlugOf(i)}})

Excused(i) == knExcuse \union ({i} \intersect SkillNodes)

(* Skillify after the model's answer: the file is written whatever became  *)
(* of the node meanwhile; a write that fails is reported.                  *)
SkillifyWrites ==
    /\ knCall # 0 /\ knCall' = 0
    /\ \/ SwitchFile(knCall, TRUE) /\ UNCHANGED knExcuse
       \/ SwitchFails(knCall, TRUE) /\ knExcuse' = Excused(knCall)
    /\ UNCHANGED <<sweepVars, knChanges, knNode, knDistill, knFiling, knCurate, knReviewed, knShared, knKept>>

Bounded == knChanges < MaxChanges /\ knChanges' = knChanges + 1

UnderWay(i) == i \in {knCall, knDistill} \/ \E f \in knFiling : f[1] = i

(* A change that begins while another one is under way races with it; one  *)
(* that begins alone brings row and vault together again.                  *)
ChangeBegins(i, step) ==
    /\ <<i, step>> \notin knFiling /\ knFiling' = knFiling \union {<<i, step>>}
    /\ knExcuse' = IF UnderWay(i) THEN knExcuse \union {i} ELSE knExcuse \ {i}

(* SetSkillEnabled, the toggle of the workbench, writes the row ...        *)
SetSkillEnabled(i, on) ==
    /\ "toggle" \in Ops /\ Bounded /\ i \in SkillNodes /\ ChangeBegins(i, IF on THEN "on" ELSE "off")
    /\ knNode' = [knNode EXCEPT ![i].enabled = on]
    /\ knReviewed' = IF on THEN knReviewed \union {i} ELSE knReviewed
    /\ knKept' = IF on /\ knNode[i].old THEN knKept \union {i} ELSE knKept \ {i}
    /\ UNCHANGED <<sweepVars, vault, knCall, knDistill, knCurate, knShared>>

(* ... and then the file, which may fail.                                  *)
SkillFiled(i, step) ==
    /\ step # "row" /\ <<i, step>> \in knFiling /\ knFiling' = knFiling \ {<<i, step>>}
    /\ \/ SwitchFile(i, step = "on") /\ UNCHANGED knExcuse
       \/ SwitchFails(i, step = "on") /\ knExcuse' = Excused(i)
    /\ UNCHANGED <<sweepVars, knChanges, knNode, knCall, knDistill, knCurate, knReviewed, knShared, knKept>>

(* The curator lists the enabled skills 90 days without a use, ...         *)
CuratorLists ==
    /\ knCurate = {} /\ \A i \in Ids : <<i, "curate">> \notin knFiling
    /\ knCurate' = {i \in SkillNodes : knNode[i].enabled /\ knNode[i].old} /\ knCurate' # {}
    /\ UNCHANGED <<sweepVars, knNode, vault, knCall, knDistill, knFiling, knChanges, skillHistory>>

(* ... and CurateSkills switches them off one by one, whatever became of   *)
(* them since.  The lifecycle label it also keeps decides nothing.         *)
CurateSkills(i) ==
    /\ i \in knCurate /\ knCurate' = knCurate \ {i} /\ \A j \in Ids : <<j, "curate">> \notin knFiling
    /\ IF i \in SkillNodes
         THEN ChangeBegins(i, "curate") /\ knNode' = [knNode EXCEPT ![i].enabled = FALSE]
         ELSE UNCHANGED <<knNode, knFiling, knExcuse>>
    /\ UNCHANGED <<sweepVars, knChanges, vault, knCall, knDistill, knReviewed, knShared, knKept>>

(* Mutant of DistillSkillFromAgent: rendered at once.                      *)
DistillRenders(t) ==
    /\ knDistill = 0
    /\ \E i \in Free :
         /\ knNode' = [knNode EXCEPT ![i] = NewSkill(t, {}, FALSE, "agent")]
         /\ knDistill' = i
         /\ knFile' = [knFile EXCEPT ![Slug[t]] = i]
    /\ knShared' = SharedWith(t)
    /\ UNCHANGED <<sweepVars, knChanges, knScript, knCall, knFiling, knCurate, knReviewed, knExcuse, knKept>>

(* DistillSkillFromAgent: the node, on by the column's default ...         *)
DistillSkillFromAgent(t) ==
    /\ "distill" \in Ops /\ knDistill = 0
    /\ \E i \in Free :
         /\ knNode' = [knNode EXCEPT ![i] = NewSkill(t, {}, FALSE, "agent")]
         /\ knDistill' = i
    /\ knShared' = SharedWith(t)
    /\ UNCHANGED <<sweepVars, knChanges, vault, knCall, knFiling, knCurate, knReviewed, knExcuse, knKept>>

(* ... and off at once, until the operator's click; the statement may      *)
(* fail.                                                                   *)
DistillDisables ==
    /\ knDistill # 0 /\ knDistill' = 0
    /\ \/ /\ knNode' = IF knDistill \in SkillNodes THEN [knNode EXCEPT ![knDistill].enabled = FALSE] ELSE knNode
          /\ UNCHANGED knExcuse
       \/ knExcuse' = Excused(knDistill) /\ UNCHANGED knNode
    /\ UNCHANGED <<sweepVars, knChanges, vault, knCall, knFiling, knCurate, knReviewed, knShared, knKept>>

(* What a change under way still holds of a deleted node.                  *)
Gone(i) == [kind |-> "gone", title |-> knNode[i].title, script |-> knNode[i].script]

(* DeleteNode removes the directory of a skill that records its slug, and  *)
(* ignores a failure, ...                                                  *)
DeleteNode(i) ==
    /\ i \in Playbooks \union SkillNodes /\ Bounded /\ ChangeBegins(i, "row")
    /\ IF knNode[i].kind = "skill" /\ knNode[i].source = "skillify"
         THEN SwitchFile(i, FALSE) \/ SwitchFails(i, FALSE)
         ELSE UNCHANGED vault
    /\ UNCHANGED <<sweepVars, knNode, knCall, knDistill, knCurate, knReviewed, knShared, knKept>>

(* ... and then the row, which may fail too.                               *)
RowDeleted(i) ==
    /\ <<i, "row">> \in knFiling /\ knFiling' = knFiling \ {<<i, "row">>}
    /\ \/ /\ i \in Playbooks \union SkillNodes /\ knNode' = [knNode EXCEPT ![i] = Gone(i)]
          /\ knExcuse' = knExcuse \ {i} /\ knKept' = knKept \ {i}
       \/ knExcuse' = Excused(i) /\ UNCHANGED <<knNode, knKept>>
    /\ UNCHANGED <<sweepVars, knChanges, vault, knCall, knDistill, knCurate, knReviewed, knShared>>

(* Reset truncates the tables; files and lastSig stay.                     *)
Reset ==
    /\ Bounded /\ \E i \in Made : knNode[i].kind # "gone"
    /\ knNode' = [i \in Ids |-> IF i \in Made THEN Gone(i) ELSE Absent]
    /\ knExcuse' = {} /\ knKept' = {}
    /\ UNCHANGED <<sweepVars, vault, knCall, knDistill, knFiling, knCurate, knReviewed, knShared>>

(* RecordSkillUsage: a transcript names the skill.                         *)
RecordSkillUsage(i) ==
    /\ i \in SkillNodes /\ knNode[i].old
    /\ knNode' = [knNode EXCEPT ![i].old = FALSE]
    /\ knKept' = knKept \ {i}
    /\ UNCHANGED <<sweepVars, vault, underWay, knReviewed, knShared, knExcuse>>

(* Ninety days pass without a use.                                         *)
GrowsOld(i) ==
    /\ "age" \in Ops /\ i \in SkillNodes /\ ~knNode[i].old
    /\ ~UnderWay(i)
    /\ knNode' = [knNode EXCEPT ![i].old = TRUE]
    /\ UNCHANGED <<sweepVars, vault, underWay, skillHistory>>

(* The gateway stops: the sweep, its memory and calls under way are gone.  *)
Restart ==
    /\ Bounded /\ (knSig # {} \/ knSweep.on \/ knCurate # {} \/ \E i \in Ids : UnderWay(i))
    /\ knSig' = {} /\ knSweep' = Idle /\ knCall' = 0 /\ knDistill' = 0 /\ knFiling' = {} /\ knCurate' = {}
    /\ knExcuse' = knExcuse \union {i \in SkillNodes : UnderWay(i)}
    /\ UNCHANGED <<knLog, knNode, vault, knReviewed, knShared, knKept>>

SkillNext ==
    \/ \E s \in Sessions, o \in {"ok", "failed"} : Journaled(s, o)
    \/ SweepBegins \/ SweepEnds \/ \E c \in knSweep.queue : CompileCluster(c) \/ ClusterRejected(c)
    \/ CuratorLists \/ \E i \in Ids : SkillifyBegins(i) \/ CurateSkills(i) \/ DeleteNode(i) \/ RowDeleted(i)
                      \/ RecordSkillUsage(i) \/ GrowsOld(i)
                      \/ \E on \in BOOLEAN : SetSkillEnabled(i, on)
    \/ \E f \in knFiling : SkillFiled(f[1], f[2])
    \/ SkillifyWrites \/ DistillDisables \/ \E t \in Titles : DistillSkillFromAgent(t)
    \/ Reset \/ Restart

SkillTypeOK ==
    /\ knLog \in [Sessions -> {"no", "ok", "failed"}] /\ knSig \subseteq Sessions
    /\ \A i \in Ids : knNode[i].kind \in {"none", "gone", "playbook", "skill"}
    /\ knFile \in [Slugs -> {0} \union Ids] /\ knScript \subseteq Slugs
    /\ knCall \in {0} \union Ids /\ knDistill \in {0} \union Ids /\ knCurate \subseteq Ids
    /\ knFiling \subseteq Ids \X {"on", "off", "curate", "row"}

(* One procedure is distilled once: no two candidates in the workbench     *)
(* rest on the same repeated sessions, however the clusters shift as new   *)
(* episodes arrive, candidates are promoted and the gateway restarts.      *)
OncePerEvidence ==
    \A i, j \in Playbooks :
        i # j => Cardinality(knNode[i].sessions \cap knNode[j].sessions) < MinRecurrence

(* The vault follows the switch: a skill of a file name of its own has its *)
(* SKILL.md exactly when it is enabled, a compiled one with its run.sh,    *)
(* once no change of it is under way, unless the last one failed, was cut  *)
(* short or met another: toggling it again repairs it.                     *)
VaultFollowsSwitch ==
    \A i \in SkillNodes \ knExcuse :
        ~UnderWay(i) /\ SlugOf(i) \notin knShared =>
            /\ knFile[SlugOf(i)] = i <=> knNode[i].enabled
            /\ SlugOf(i) \in knScript <=> knNode[i].enabled /\ knNode[i].script

(* What SetSkillEnabled's comment (service.go:276) promises of every       *)
(* skill: "disabled removes its SKILL.md from the vault".                  *)
DisabledLeavesVault ==
    \A i \in SkillNodes : ~UnderWay(i) /\ ~knNode[i].enabled => knFile[SlugOf(i)] # i

(* The curator's rule, "90d unused" (service.go:393), when it switches     *)
(* off.                                                                    *)
OnlyUnusedRetiredStep ==
    \A i \in Ids : <<i, "curate">> \in knFiling' \ knFiling => knNode[i].old
OnlyUnusedRetired == [][OnlyUnusedRetiredStep]_skillVars

(* What an agent distilled is in no session's vault before the operator    *)
(* reviewed it: the enable click is the approval.                          *)
ReviewedFirst ==
    \A g \in Slugs : knFile[g] # 0 => knFile[g] \in knReviewed

(* What the curator's comment says: its automatic switch-off is "fully     *)
(* reversible via the workbench toggle".                                   *)
ReenabledStays ==
    \A i \in SkillNodes : i \in knKept => knNode[i].enabled

(* What DeleteNode's comment says: "For skills it also deletes the         *)
(* rendered SKILL.md".                                                     *)
DeletedLeavesNoFile ==
    [][\A i \in Ids : i \in SkillNodes /\ RowDeleted(i) /\ knNode' # knNode
           => \A g \in Slugs : knFile'[g] # i]_skillVars

-----------------------------------------------------------------------------
(***************************************************************************)
(* The upkeep of one machine-drafted page: draftOrPropose of               *)
(* internal/knowledge/kb.go with exclude.go, as the consolidation sweep    *)
(* and the manual draft endpoint call it, over the page, settings and      *)
(* proposals the sinks of app/app.go read.  A line of the page is the fact *)
(* it was drawn from; an exclusion list is the set of lines it hits; the   *)
(* model answers with any lines.                                           *)
(***************************************************************************)

draftVars == <<kbFacts, kbPage, kbSet, kbBanned, kbPend, kbRej, kbRun, kbOps, kbFails, kbCalls, kbFlip>>

NoSig == [feed |-> {}, hint |-> "", excl |-> {}]
Quiet == [on |-> FALSE, sig |-> NoSig, excl |-> {}, banned |-> {}, gated |-> FALSE]

DraftInit ==
    /\ kbFacts = {} /\ kbBanned = {} /\ kbPend = {} /\ kbRej = {}
    /\ kbPage = [author |-> "none", lines |-> {}, sig |-> NoSig]
    /\ kbSet = [mode |-> "ai", policy |-> "direct", hint |-> "", excl |-> {}]
    /\ kbRun = [r \in Runs |-> Quiet] /\ kbOps = 0 /\ kbFails = 0 /\ kbCalls = 0 /\ kbFlip = {}

Busy == {r \in Runs : kbRun[r].on}

(* scrub: the lines an exclusion list hits are dropped.                    *)
Scrub(lines, excl) == lines \ excl

(* Mutant of Sig: the exclusion list is left out.                          *)
SigWithoutExclusions ==
    [feed |-> Scrub(kbFacts, kbSet.excl), hint |-> kbSet.hint, excl |-> {}]

(* The signature of what the page would be drafted from now.               *)
Sig == [feed |-> Scrub(kbFacts, kbSet.excl), hint |-> kbSet.hint, excl |-> kbSet.excl]

(* Mutant of Locked: an approved page is free.                             *)
LockedByEdit == kbPage.author = "operator"

(* LocksDoc: the operator wrote the page, or approved what is on it.       *)
Locked == kbPage.author \in {"operator", "approved"}

(* A write goes through a proposal.                                        *)
Gated == Locked \/ kbSet.policy = "proposal"

(* Mutant of Refused: a rejection is forgotten.                            *)
RefusedPending == kbPend # {}

(* skipped-pending and skipped-rejected.                                   *)
Refused == kbPend # {} \/ Sig \in kbRej

(* Mutant of Unchanged: the marker is not found again.                     *)
MarkerLost == FALSE

(* Mutant of Unchanged: a page drafted once is not drafted again.          *)
DraftedOnce == kbPage.author = "agent"

(* skipped-unchanged.                                                      *)
Unchanged == kbPage.author # "none" /\ kbPage.sig = Sig

(* draftOrPropose up to the model call: nothing to do without evidence, on *)
(* a page the operator maintains, for an unchanged signature, or while a   *)
(* gated page has its answer or waits for it.                              *)
DraftBegins(r) ==
    /\ ~kbRun[r].on
    /\ kbSet.mode # "human"
    /\ Scrub(kbFacts, kbSet.excl) # {}
    /\ ~Unchanged
    /\ Gated => ~Refused
    /\ kbRun' = [kbRun EXCEPT ![r] = [on |-> TRUE, sig |-> Sig, excl |-> kbSet.excl,
                                      banned |-> kbBanned, gated |-> Gated]]
    /\ kbCalls' = kbCalls + 1 /\ kbFlip' = kbFlip \ {r}
    /\ UNCHANGED <<kbFacts, kbPage, kbSet, kbBanned, kbPend, kbRej, kbOps, kbFails>>

(* draftPageBody on the model's answer, scrubbed of what was excluded and  *)
(* banned when the draft began.                                            *)
Body(r, answer) == Scrub(answer, kbRun[r].excl) \ kbRun[r].banned

(* PutKBDoc: the page is overwritten in place.                             *)
DraftPut(r) ==
    /\ kbRun[r].on /\ ~kbRun[r].gated
    /\ \E answer \in SUBSET Lines :
         /\ Body(r, answer) # {}
         /\ kbPage' = [author |-> "agent", lines |-> Body(r, answer), sig |-> kbRun[r].sig]
    /\ kbRun' = [kbRun EXCEPT ![r] = Quiet]
    /\ UNCHANGED <<kbFacts, kbSet, kbBanned, kbPend, kbRej, kbOps, kbFails, kbCalls, kbFlip>>

(* ProposeKBDoc: the draft is filed for the operator.                      *)
DraftProposed(r) ==
    /\ kbRun[r].on /\ kbRun[r].gated
    /\ \E answer \in SUBSET Lines :
         /\ Body(r, answer) # {}
         /\ kbPend' = kbPend \union {[lines |-> Body(r, answer), sig |-> kbRun[r].sig]}
    /\ kbRun' = [kbRun EXCEPT ![r] = Quiet]
    /\ UNCHANGED <<kbFacts, kbPage, kbSet, kbBanned, kbRej, kbOps, kbFails, kbCalls, kbFlip>>

(* The model fails, or nothing is left of its answer.                      *)
DraftFails(r) ==
    /\ kbRun[r].on /\ kbFails < MaxFails
    /\ kbFails' = kbFails + 1
    /\ kbRun' = [kbRun EXCEPT ![r] = Quiet]
    /\ kbCalls' = IF kbCalls = 0 THEN 0 ELSE kbCalls - 1
    /\ UNCHANGED <<kbFacts, kbPage, kbSet, kbBanned, kbPend, kbRej, kbOps, kbFlip>>

(* Evidence, page or settings change: a new question.                      *)
Changed == kbOps < MaxOps /\ kbOps' = kbOps + 1 /\ kbCalls' = 0

(* A memory is stored, or forgotten.                                       *)
FactChanges(l) ==
    /\ Changed
    /\ kbFacts' = IF l \in kbFacts THEN kbFacts \ {l} ELSE kbFacts \union {l}
    /\ UNCHANGED <<kbPage, kbSet, kbBanned, kbPend, kbRej, kbRun, kbFails, kbFlip>>

(* The operator edits the section (only global pages have these controls). *)
SectionChanges(new) ==
    /\ Kind = "kb" /\ Changed /\ new # kbSet
    /\ kbSet' = new /\ kbFlip' = kbFlip \union Busy
    /\ UNCHANGED <<kbFacts, kbPage, kbBanned, kbPend, kbRej, kbRun, kbFails>>

Settings ==
    [mode : {"ai", "human"}, policy : {"direct", "proposal"}, hint : Hints, excl : SUBSET Lines]

(* One control at a time.                                                  *)
OneStep(old, new) == Cardinality({f \in DOMAIN old : old[f] # new[f]}) = 1

(* The operator saves the page.  On a global page the hidden marker is     *)
(* carried over, and a second deletion of a line bans it.                  *)
OperatorSaves(l) ==
    /\ Changed /\ kbPage.author # "none"
    /\ kbPage' = [kbPage EXCEPT !.author = "operator",
                                !.lines = IF l \in @ THEN @ \ {l} ELSE @ \union {l},
                                !.sig = IF Kind = "kb" THEN @ ELSE NoSig]
    /\ \/ UNCHANGED kbBanned
       \/ l \in kbPage.lines /\ Kind = "kb" /\ kbBanned' = kbBanned \union {l}
    /\ kbFlip' = kbFlip \union Busy
    /\ UNCHANGED <<kbFacts, kbSet, kbPend, kbRej, kbRun, kbFails>>

(* The operator answers a proposal: approved text locks the page.          *)
Approve(p) ==
    /\ p \in kbPend /\ kbPend' = kbPend \ {p}
    /\ kbPage' = [author |-> "approved", lines |-> p.lines, sig |-> p.sig]
    /\ kbFlip' = kbFlip \union Busy
    /\ kbCalls' = IF p.sig = Sig THEN kbCalls ELSE 0
    /\ UNCHANGED <<kbFacts, kbSet, kbBanned, kbRej, kbRun, kbOps, kbFails>>

(* RejectedSigs reads the signature back from the rejected text.           *)
Reject(p) ==
    /\ p \in kbPend /\ kbPend' = kbPend \ {p}
    /\ kbRej' = kbRej \union {p.sig} /\ kbCalls' = 0
    /\ UNCHANGED <<kbFacts, kbPage, kbSet, kbBanned, kbRun, kbOps, kbFails, kbFlip>>

Draft(r) == DraftBegins(r) \/ DraftPut(r) \/ DraftProposed(r)

DraftNext ==
    \/ \E r \in Runs : DraftBegins(r) \/ DraftPut(r) \/ DraftProposed(r) \/ DraftFails(r)
    \/ \E l \in Lines : FactChanges(l) \/ OperatorSaves(l)
    \/ \E new \in Settings : OneStep(kbSet, new) /\ SectionChanges(new)
    \/ \E p \in kbPend : Approve(p) \/ Reject(p)

(* The sweep comes round every 15 minutes and a model call ends; nobody    *)
(* has to edit or decide.                                                  *)
DraftFairness == \A r \in Runs : WF_draftVars(Draft(r))

DraftTypeOK ==
    /\ kbFacts \subseteq Lines /\ kbBanned \subseteq Lines /\ kbSet \in Settings
    /\ kbPage.author \in {"none", "agent", "operator", "approved"} /\ kbPage.lines \subseteq Lines
    /\ \A r \in Runs : kbRun[r].on \in BOOLEAN /\ kbRun[r].excl \subseteq Lines

(* A rejected refresh stays rejected: with one drafter at work no proposal *)
(* for evidence, hint and exclusions the operator already said no to waits *)
(* for an answer again, however the settings went back and forth.          *)
RejectedStaysRejected ==
    Cardinality(Runs) = 1 => \A p \in kbPend : p.sig \notin kbRej

(* The page costs at most one model call for each change of its evidence,  *)
(* text or settings, or rejection of the last draft.                       *)
OneCallPerChange == Cardinality(Runs) = 1 => kbCalls <= 1

(* A page the drafter would leave as unchanged carries nothing the current *)
(* exclusion list hits, unless the operator wrote it.                      *)
UnchangedIsClean ==
    kbPage.author \in {"agent", "approved"} /\ kbPage.sig = Sig => kbPage.lines \cap kbSet.excl = {}

HandsOffStep ==
    \A r \in Runs : kbRun[r].on /\ kbPage' # kbPage /\ kbPage'.author = "agent" /\ ~kbRun'[r].on
          => r \in kbFlip \/ (kbPage.author \in {"none", "agent"} /\ kbSet.policy = "direct")

(* The drafter rewrites no page that is the operator's, by edit, approval  *)
(* or policy, unless it became so while the model was answering.           *)
HandsOff == [][HandsOffStep]_draftVars

(* There is evidence to draft from, and it stays.                          *)
Settled ==
    /\ kbFacts \ kbSet.excl # {} /\ Lines \ (kbSet.excl \union kbBanned) # {}
    /\ kbSet.mode = "ai" /\ kbOps = MaxOps

(* Evidence reaches its page: once nothing changes any more, a page nobody *)
(* gates is drafted from what is known, and a gated one has its proposal.  *)
RefreshArrives == Settled ~> kbPage.sig = Sig \/ kbPend # {} \/ Sig \in kbRej

(* What the document sink's comment says of an edited page: it is reported *)
(* HumanLocked "so the drafter never overwrites it".                       *)
NeverOverwritten ==
    [][kbPage.author = "operator" => kbPage'.author # "agent"]_draftVars

-----------------------------------------------------------------------------
vars == <<skillVars, draftVars>>

Init == SkillInit /\ DraftInit

(* The parts share no state: a step of one leaves the others alone.        *)
Next ==
    \/ "skill" \in Parts /\ SkillNext /\ UNCHANGED <<draftVars>>
    \/ "draft" \in Parts /\ DraftNext /\ UNCHANGED <<skillVars>>

Spec == Init /\ [][Next]_vars

TypeOK == SkillTypeOK /\ DraftTypeOK
=============================================================================
