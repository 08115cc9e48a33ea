------------------------------ MODULE VaultGit -------------------------------
(***************************************************************************)
(* The notes vault as a git repository (vaultgit/syncer.go, handler.go):   *)
(* the auto-sync loop pulls, commits and pushes, the operator does the     *)
(* same by hand, aborts a stopped rebase or resets to the remote, and      *)
(* agents go on saving notes.  A version of the vault is the set of edits  *)
(* it holds; git itself is external and modelled by what each command does *)
(* to branch, index, working tree, stash and origin's ref.  A command may  *)
(* fail, by an error of its own or by the timeout of its caller.           *)
(***************************************************************************)
EXTENDS Naturals, FiniteSets

CONSTANTS
    Edits,       \* edits made here
    Theirs,      \* edits another machine pushes
    Conflicts,   \* whether a rebase or an autostash may conflict
    Configs,     \* settings of the loop, subsets of {"enabled", "push", "pull"}
    MaxTicks,    \* bound: passes of the sync loop, none when 0
    MaxHand,     \* bound: the operator's commands
    MaxFails     \* bound: commands that fail (network, lock, disk)

VARIABLES
    vgHead,      \* edits in HEAD
    vgRemote,    \* edits in the remote branch
    vgRef,       \* edits in origin's ref of it, as last fetched or pushed
    vgMod,       \* edits of tracked files that are not committed
    vgNew,       \* edits in untracked files
    vgIndex,     \* staged edits, of vgMod or vgNew
    vgRebase,    \* the stopped rebase [on, orig, auto, marks, added], the last two
                 \* being vgMarks and vgConflict = "added" from before
    vgConflict,  \* conflicting files, of the rebase or of an autostash: "none",
                 \* "open" (unmerged) or "added", with their markers
    vgMarks,     \* HEAD holds a file with conflict markers
    vgBad,       \* the remote does
    vgStash, vgRefs,   \* what stashes and rescue branches hold
    vgCfg, vgDue,      \* vault_sync_config, and the intervals that elapsed
    vgSync,      \* steps the pass of the loop has before it
    vgCommit,    \* the operator's commit has staged its files
    vgReset,     \* resetToRemote: [pc, confirm, commits, dirty]
    vgTicks, vgHand, vgFails,
    vgDuring,    \* history: edits made, staged or committed while a rebase was stopped
    vgRaced,     \* history: edits saved, committed or taken out of a rebase by another
                 \* command while a reset was under way, or whose count or rescue failed
    vgClash      \* history: the markers of an autostash were committed

vars == <<vgHead, vgRemote, vgRef, vgMod, vgNew, vgIndex, vgRebase, vgConflict, vgMarks, vgBad, vgStash, vgRefs, vgCfg, vgDue,
          vgSync, vgReset, vgCommit, vgTicks, vgHand, vgFails, vgDuring, vgRaced, vgClash>>
tree == <<vgMod, vgNew, vgIndex>>
rebase == <<vgRebase, vgConflict>>
remote == <<vgRemote, vgBad>>
kept == <<vgStash, vgRefs>>
loop == <<vgCfg, vgDue, vgSync, vgTicks>>
hand == <<vgReset, vgCommit, vgHand>>
history == <<vgDuring, vgRaced, vgClash>>

NoRebase == [on |-> FALSE, orig |-> {}, auto |-> {}, marks |-> FALSE, added |-> FALSE]
NoReset == [pc |-> "idle", confirm |-> FALSE, commits |-> {}, dirty |-> FALSE]

Init ==
    /\ vgHead = {} /\ vgRemote = {} /\ vgRef = {} /\ vgMod = {} /\ vgNew = {} /\ vgIndex = {}
    /\ vgRebase = NoRebase /\ vgConflict = "none" /\ vgMarks = FALSE /\ vgBad = FALSE /\ vgStash = {} /\ vgRefs = {}
    /\ vgCfg \in Configs /\ vgDue = {"pull", "commit"} /\ vgSync = {} /\ vgReset = NoReset /\ vgCommit = FALSE
    /\ vgTicks = 0 /\ vgHand = 0 /\ vgFails = 0 /\ vgDuring = {} /\ vgRaced = {} /\ vgClash = FALSE

Fails == vgFails < MaxFails /\ vgFails' = vgFails + 1
Works == UNCHANGED vgFails

(* A note is saved: an edit of a tracked file or a new file.               *)
Save(e) ==
    /\ e \notin vgHead \union vgMod \union vgNew \union vgStash \union vgRefs \union vgDuring \union vgRaced \union vgRebase.orig
    /\ \/ vgMod' = vgMod \union {e} /\ UNCHANGED vgNew
       \/ vgNew' = vgNew \union {e} /\ UNCHANGED vgMod
    /\ vgDuring' = IF vgRebase.on THEN vgDuring \union {e} ELSE vgDuring
    /\ vgRaced' = IF vgReset.pc = "idle" THEN vgRaced ELSE vgRaced \union {e}
    /\ UNCHANGED <<vgHead, vgRef, vgIndex, rebase, vgMarks, remote, kept, loop, hand, vgFails, vgClash>>

(* Another machine pushes.                                                 *)
TheyPush(e) ==
    /\ e \notin vgRemote /\ vgRemote' = vgRemote \union {e}
    /\ UNCHANGED <<vgHead, vgRef, tree, rebase, vgMarks, vgBad, kept, loop, hand, vgFails, history>>

(* git pull --rebase --autostash goes through.  Its autostash may conflict *)
(* with what was pulled: git keeps it in the stash, leaves the conflicting *)
(* files c unmerged with their markers, stages the others, and exits 0.    *)
PullApplies ==
    /\ ~vgRebase.on /\ vgConflict # "open" /\ Works /\ vgRef' = vgRemote /\ vgHead' = vgHead \union vgRemote
    /\ \/ UNCHANGED <<tree, vgStash, vgConflict>>
       \/ /\ Conflicts /\ vgRemote \ vgHead # {} /\ vgStash' = vgStash \union vgMod /\ vgConflict' = "open"
          /\ \E c \in SUBSET vgMod \ {{}} : vgMod' = vgMod \ c /\ vgIndex' = (vgIndex \ c) \union vgMod'
          /\ UNCHANGED vgNew
    /\ vgMarks' = (vgMarks \/ vgBad) /\ UNCHANGED vgRebase

(* It stops on a conflict, with HEAD detached at the remote, ...           *)
PullStops ==
    /\ ~vgRebase.on /\ vgConflict # "open" /\ Conflicts /\ vgHead \ vgRemote # {} /\ vgRemote \ vgHead # {} /\ Works
    /\ vgRebase' = [on |-> TRUE, orig |-> vgHead, auto |-> vgMod \union (vgIndex \intersect vgNew),
                    marks |-> vgMarks, added |-> vgConflict = "added"]
    /\ vgConflict' = "open" /\ vgRef' = vgRemote /\ vgHead' = vgRemote /\ vgMarks' = vgBad
    /\ vgMod' = {} /\ vgNew' = vgNew \ vgIndex /\ vgIndex' = {} /\ UNCHANGED vgStash

(* ... refuses while a rebase is stopped, with unmerged files even to      *)
(* fetch, or fails.                                                        *)
PullRefused ==
    /\ \/ (vgRebase.on \/ vgConflict = "open") /\ Works /\ vgRef' = IF vgConflict = "open" THEN vgRef ELSE vgRemote
       \/ Fails /\ vgRef' \in {vgRef, vgRemote}
    /\ UNCHANGED <<vgHead, tree, rebase, vgMarks, vgStash>>

(* git add of the files; the conflicting ones among them count as          *)
(* resolved.                                                               *)
GitAdd(files, resolves) ==
    \/ /\ Works /\ vgIndex' = vgIndex \union files
       /\ vgConflict' = IF resolves /\ vgConflict = "open" THEN "added" ELSE vgConflict
       /\ vgDuring' = IF vgRebase.on THEN vgDuring \union files ELSE vgDuring
    \/ Fails /\ UNCHANGED <<vgIndex, vgConflict, vgDuring>>

(* git commit of the index: it needs something to commit and no unmerged   *)
(* file.                                                                   *)
Committable == vgConflict # "open" /\ (vgIndex # {} \/ vgConflict = "added")
CommitDone ==
    /\ Committable /\ Works
    /\ vgHead' = vgHead \union vgIndex /\ vgMod' = vgMod \ vgIndex /\ vgNew' = vgNew \ vgIndex /\ vgIndex' = {}
    /\ vgMarks' = (vgMarks \/ vgConflict = "added") /\ vgConflict' = "none"
    /\ vgDuring' = IF vgRebase.on THEN vgDuring \union vgIndex ELSE vgDuring
    /\ vgRaced' = IF vgReset.pc = "idle" THEN vgRaced ELSE vgRaced \union vgIndex
    /\ vgClash' = (vgClash \/ (vgConflict = "added" /\ ~vgRebase.on))
CommitFailed ==
    /\ Fails \/ (Works /\ ~Committable)
    /\ UNCHANGED <<vgHead, tree, vgConflict, vgMarks, history>>

(* Mutants of GitPush: --force, and a refspec that names the branch.       *)
GitPushForce ==
    \/ /\ ~vgRebase.on /\ Works /\ vgRemote' = vgHead /\ vgRef' = vgHead /\ vgBad' = vgMarks
    \/ /\ Fails \/ (Works /\ vgRebase.on)
       /\ UNCHANGED <<remote, vgRef>>
GitPushToMain ==
    \/ /\ vgRemote \subseteq vgHead /\ Works /\ vgRemote' = vgHead /\ vgRef' = vgHead /\ vgBad' = (vgBad \/ vgMarks)
    \/ /\ Fails \/ (Works /\ ~(vgRemote \subseteq vgHead))
       /\ UNCHANGED <<remote, vgRef>>

(* git push -u origin HEAD: refused from the detached HEAD of a stopped    *)
(* rebase and when the remote is ahead; its answer may be lost.            *)
GitPush ==
    \/ /\ ~vgRebase.on /\ vgRemote \subseteq vgHead /\ vgRemote' = vgHead /\ vgBad' = (vgBad \/ vgMarks)
       /\ \/ Works /\ vgRef' = vgHead
          \/ Fails /\ UNCHANGED vgRef
    \/ /\ Fails \/ (Works /\ (vgRebase.on \/ ~(vgRemote \subseteq vgHead)))
       /\ UNCHANGED <<remote, vgRef>>

(* git rebase --abort: HEAD, index and tracked files go back, the          *)
(* autostash is applied, untracked files stay.                             *)
GitAbort ==
    /\ Works /\ vgRebase' = NoRebase /\ vgConflict' = IF vgRebase.added THEN "added" ELSE "none"
    /\ vgHead' = vgRebase.orig /\ vgMod' = vgRebase.auto /\ vgNew' = vgNew \ vgIndex /\ vgIndex' = {} /\ vgMarks' = vgRebase.marks

(* An interval of the loop elapses.                                        *)
Elapse(k) ==
    /\ k \notin vgDue /\ vgDue' = vgDue \union {k}
    /\ UNCHANGED <<vgHead, vgRef, tree, rebase, vgMarks, remote, kept, vgCfg, vgSync, vgTicks, hand, vgFails, history>>

Hand == vgHand < MaxHand /\ vgHand' = vgHand + 1

(* Syncer.write stores settings; the next pass reads them.                 *)
Configure(cfg) ==
    /\ Hand /\ vgCfg' = cfg
    /\ UNCHANGED <<vgHead, vgRef, tree, rebase, vgMarks, remote, kept, vgDue, vgSync, vgTicks, vgReset, vgCommit, vgFails, history>>

(* Syncer.tick reads the settings: a pull when one is due, then a commit   *)
(* when one is, and a push only after the commit.                          *)
Plan == (vgDue \intersect (vgCfg \union {"commit"})) \union (IF "commit" \in vgDue THEN vgCfg \intersect {"push"} ELSE {})
TickBegins ==
    /\ vgSync = {} /\ "enabled" \in vgCfg /\ vgDue # {} /\ (MaxTicks = 0 \/ vgTicks < MaxTicks)
    /\ vgTicks' = (IF MaxTicks = 0 THEN 0 ELSE vgTicks + 1) /\ vgSync' = Plan
    /\ UNCHANGED <<vgHead, vgRef, tree, rebase, vgMarks, remote, kept, vgCfg, vgDue, hand, vgFails, history>>

RunPull ==
    /\ "pull" \in vgSync /\ vgSync' = vgSync \ {"pull"}
    /\ \/ PullApplies /\ vgDue' = vgDue \ {"pull"}
       \/ (PullStops \/ PullRefused) /\ UNCHANGED vgDue
    /\ UNCHANGED <<remote, vgRefs, vgCfg, vgTicks, hand, history>>

Dirty == vgMod \union vgNew # {} \/ vgConflict # "none"

(* Mutant of RunCommit: a clean tree ends the pass.                        *)
RunCommitEnds ==
    /\ "commit" \in vgSync /\ "pull" \notin vgSync
    /\ \/ ~Dirty /\ Works /\ vgSync' = {} /\ vgDue' = vgDue \ {"commit"} /\ UNCHANGED <<vgIndex, vgConflict, vgDuring>>
       \/ /\ Dirty /\ GitAdd(vgMod \union vgNew, TRUE) /\ UNCHANGED vgDue
          /\ vgSync' = (vgSync \ {"commit"}) \union (IF vgFails' = vgFails THEN {"commit2"} ELSE {})
    /\ UNCHANGED <<vgHead, vgMod, vgNew, vgRebase, vgRef, vgMarks, remote, kept, vgCfg, vgTicks, hand, vgRaced, vgClash>>

(* runCommit skips a clean tree, else git add . and git commit; a failure  *)
(* of either does not keep the pass from pushing.  A failing git status    *)
(* passes for a clean tree.                                                *)
RunCommit ==
    /\ "commit" \in vgSync /\ "pull" \notin vgSync
    /\ \/ /\ (~Dirty /\ Works) \/ Fails
          /\ vgSync' = vgSync \ {"commit"} /\ vgDue' = vgDue \ {"commit"} /\ UNCHANGED <<vgIndex, vgConflict, vgDuring>>
       \/ /\ Dirty /\ GitAdd(vgMod \union vgNew, TRUE) /\ UNCHANGED vgDue
          /\ vgSync' = (vgSync \ {"commit"}) \union (IF vgFails' = vgFails THEN {"commit2"} ELSE {})
    /\ UNCHANGED <<vgHead, vgMod, vgNew, vgRebase, vgRef, vgMarks, remote, kept, vgCfg, vgTicks, hand, vgRaced, vgClash>>
RunCommit2 ==
    /\ "commit2" \in vgSync /\ vgSync' = vgSync \ {"commit2"}
    /\ \/ CommitDone /\ vgDue' = vgDue \ {"commit"}
       \/ CommitFailed /\ UNCHANGED vgDue
    /\ UNCHANGED <<vgRebase, vgRef, remote, kept, vgCfg, vgTicks, hand>>
RunPush ==
    /\ vgSync = {"push"} /\ vgSync' = {} /\ GitPush
    /\ UNCHANGED <<vgHead, tree, rebase, vgMarks, kept, vgCfg, vgDue, vgTicks, hand, history>>

(* Handlers.pull, push and commit: the operator's own, of chosen files or  *)
(* of all.                                                                 *)
HandPull ==
    /\ Hand /\ (PullApplies \/ PullStops \/ PullRefused)
    /\ UNCHANGED <<remote, vgRefs, loop, vgReset, vgCommit, history>>
HandPush ==
    /\ Hand /\ GitPush
    /\ UNCHANGED <<vgHead, tree, rebase, vgMarks, kept, loop, vgReset, vgCommit, history>>
HandStage(files, resolves) ==
    /\ Hand /\ ~vgCommit /\ files \subseteq (vgMod \union vgNew) /\ GitAdd(files, resolves)
    /\ vgCommit' = (vgFails' = vgFails)
    /\ UNCHANGED <<vgHead, vgRef, vgMod, vgNew, vgRebase, vgMarks, remote, kept, loop, vgReset, vgRaced, vgClash>>
HandCommit ==
    /\ vgCommit /\ vgCommit' = FALSE /\ (CommitDone \/ CommitFailed)
    /\ UNCHANGED <<vgRebase, vgRef, remote, kept, loop, vgReset, vgHand>>

(* Handlers.abort refuses when nothing is stopped.                         *)
Abort ==
    /\ Hand /\ vgRebase.on
    /\ \/ /\ GitAbort
          /\ vgRaced' = IF vgReset.pc = "idle" THEN vgRaced ELSE vgRaced \union vgRebase.auto \union vgRebase.orig
       \/ Fails /\ UNCHANGED <<vgHead, tree, rebase, vgMarks, vgRaced>>
    /\ UNCHANGED <<vgRef, remote, kept, loop, vgReset, vgCommit, vgDuring, vgClash>>

(* resetToRemote aborts what is stopped, whether that works or not, ...    *)
ResetBegins(confirm) ==
    /\ Hand /\ vgReset.pc = "idle" /\ vgReset' = [NoReset EXCEPT !.pc = "fetch", !.confirm = confirm]
    /\ \/ vgRebase.on /\ GitAbort
       \/ (IF vgRebase.on THEN Fails ELSE Works) /\ UNCHANGED <<vgHead, tree, rebase, vgMarks>>
    /\ UNCHANGED <<vgRef, remote, kept, loop, vgCommit, history>>

(* ... fetches, ...                                                        *)
ResetFetch ==
    /\ vgReset.pc = "fetch"
    /\ \/ Works /\ vgRef' = vgRemote /\ vgReset' = [vgReset EXCEPT !.pc = "count"]
       \/ Fails /\ vgReset' = NoReset /\ UNCHANGED vgRef
    /\ UNCHANGED <<vgHead, tree, rebase, vgMarks, remote, kept, loop, vgCommit, vgHand, history>>

(* ... and counts the commits and the files only this machine has; a       *)
(* command that fails counts none.                                         *)
ResetCount ==
    /\ vgReset.pc = "count"
    /\ \/ Works /\ vgReset' = [vgReset EXCEPT !.pc = "files", !.commits = vgHead \ vgRef] /\ UNCHANGED vgRaced
       \/ Fails /\ vgReset' = [vgReset EXCEPT !.pc = "files"] /\ vgRaced' = vgRaced \union (vgHead \ vgRef)
    /\ UNCHANGED <<vgHead, vgRef, tree, rebase, vgMarks, remote, kept, loop, vgCommit, vgHand, vgDuring, vgClash>>
ResetFiles ==
    /\ vgReset.pc = "files"
    /\ \/ Works /\ vgReset' = [vgReset EXCEPT !.pc = "decide", !.dirty = Dirty] /\ UNCHANGED vgRaced
       \/ Fails /\ vgReset' = [vgReset EXCEPT !.pc = "decide"] /\ vgRaced' = vgRaced \union vgMod \union vgNew
    /\ UNCHANGED <<vgHead, vgRef, tree, rebase, vgMarks, remote, kept, loop, vgCommit, vgHand, vgDuring, vgClash>>

(* Mutant of ResetDecide: the loss is not asked about.                     *)
ResetDecideBlind ==
    /\ vgReset.pc = "decide" /\ vgReset' = [vgReset EXCEPT !.pc = "reset"]
    /\ UNCHANGED <<vgHead, vgRef, tree, rebase, vgMarks, remote, kept, loop, vgCommit, vgHand, vgFails, history>>

(* It refuses when there is a loss and no confirmation; ...                *)
ResetDecide ==
    /\ vgReset.pc = "decide"
    /\ vgReset' = CASE vgReset.commits = {} /\ ~vgReset.dirty -> [vgReset EXCEPT !.pc = "reset"]
                    [] (vgReset.commits # {} \/ vgReset.dirty) /\ ~vgReset.confirm -> NoReset
                    [] OTHER -> [vgReset EXCEPT !.pc = "branch"]
    /\ UNCHANGED <<vgHead, vgRef, tree, rebase, vgMarks, remote, kept, loop, vgCommit, vgHand, vgFails, history>>

(* ... parks unpushed commits on a branch ...                              *)
RescueBranch ==
    /\ vgReset.pc = "branch" /\ vgReset' = [vgReset EXCEPT !.pc = "stash"]
    /\ IF vgReset.commits = {} THEN Works /\ UNCHANGED <<vgRefs, vgRaced>>
       ELSE \/ Works /\ vgRefs' = vgRefs \union vgHead /\ UNCHANGED vgRaced
            \/ Fails /\ vgRaced' = vgRaced \union vgHead /\ UNCHANGED vgRefs
    /\ UNCHANGED <<vgHead, vgRef, tree, rebase, vgMarks, remote, vgStash, loop, vgCommit, vgHand, vgDuring, vgClash>>

(* Mutant of RescueStash: a stash without untracked files.                 *)
RescueStashTracked ==
    /\ vgReset.pc = "stash" /\ vgReset' = [vgReset EXCEPT !.pc = "reset"]
    /\ Works /\ vgStash' = vgStash \union vgMod /\ vgMod' = {} /\ vgIndex' = {} /\ UNCHANGED <<vgNew, vgRaced>>
    /\ UNCHANGED <<vgHead, vgRef, rebase, vgMarks, remote, vgRefs, loop, vgCommit, vgHand, vgDuring, vgClash>>

(* ... and the working tree, untracked files too, in a stash, which        *)
(* unmerged files prevent; ...                                             *)
RescueStash ==
    /\ vgReset.pc = "stash" /\ vgReset' = [vgReset EXCEPT !.pc = "reset"]
    /\ IF ~vgReset.dirty THEN Works /\ UNCHANGED <<tree, vgConflict, vgStash, vgRaced>>
       ELSE \/ /\ Works /\ vgConflict # "open" /\ vgStash' = vgStash \union vgMod \union vgNew
               /\ vgMod' = {} /\ vgNew' = {} /\ vgIndex' = {} /\ vgConflict' = "none" /\ UNCHANGED vgRaced
            \/ /\ Fails \/ (Works /\ vgConflict = "open")
               /\ vgRaced' = vgRaced \union vgMod \union vgNew /\ UNCHANGED <<tree, vgConflict, vgStash>>
    /\ UNCHANGED <<vgHead, vgRef, vgRebase, vgMarks, remote, vgRefs, loop, vgCommit, vgHand, vgDuring, vgClash>>

(* ... then git reset --hard, which a commit of the sync loop may have     *)
(* preceded, and git clean -fd, whose failure is ignored.                  *)
ResetHard ==
    /\ vgReset.pc = "reset"
    /\ \/ /\ Works /\ vgReset' = [vgReset EXCEPT !.pc = "clean"]
          /\ vgHead' = vgRef /\ vgMod' = {} /\ vgNew' = vgNew \ vgIndex /\ vgIndex' = {}
          /\ vgMarks' = vgBad /\ vgConflict' = "none"
       \/ Fails /\ vgReset' = NoReset /\ UNCHANGED <<vgHead, tree, vgMarks, vgConflict>>
    /\ UNCHANGED <<vgRef, vgRebase, remote, kept, loop, vgCommit, vgHand, history>>
ResetClean ==
    /\ vgReset.pc = "clean" /\ vgReset' = NoReset
    /\ \/ Works /\ vgNew' = vgNew \intersect vgIndex
       \/ Fails /\ UNCHANGED vgNew
    /\ UNCHANGED <<vgHead, vgRef, vgMod, vgIndex, rebase, vgMarks, remote, kept, loop, vgCommit, vgHand, history>>

SyncStep == RunPull \/ RunCommit \/ RunCommit2 \/ RunPush
ResetStep == ResetFetch \/ ResetCount \/ ResetFiles \/ ResetDecide \/ RescueBranch \/ RescueStash \/ ResetHard \/ ResetClean

Next ==
    \/ \E e \in Edits : Save(e)
    \/ \E e \in Theirs : TheyPush(e)
    \/ \E k \in {"pull", "commit"} : Elapse(k)
    \/ HandPull \/ HandPush \/ HandCommit \/ Abort \/ \E cfg \in Configs : Configure(cfg)
    \/ \E files \in SUBSET (Edits \union Theirs), resolves \in BOOLEAN : HandStage(files, resolves)
    \/ TickBegins \/ SyncStep \/ ResetStep
    \/ \E confirm \in BOOLEAN : ResetBegins(confirm)

Spec == Init /\ [][Next]_vars

(* The loop ticks and finishes its passes, and its intervals elapse.       *)
FairSpec == Spec /\ WF_vars(TickBegins) /\ WF_vars(SyncStep) /\ WF_vars(Elapse("pull")) /\ WF_vars(Elapse("commit"))

TypeOK ==
    /\ vgIndex \subseteq (vgMod \union vgNew) /\ vgConflict \in {"none", "open", "added"}
    /\ vgSync \subseteq {"pull", "commit", "commit2", "push"}
    /\ vgReset.pc \in {"idle", "fetch", "count", "files", "decide", "branch", "stash", "reset", "clean"}

Somewhere == vgHead \union vgRemote \union vgMod \union vgNew \union vgStash \union vgRefs
             \union vgRebase.orig \union vgRebase.auto

Seen == vgDuring \union vgRaced

NothingLostStep == \A e \in Edits : e \in Somewhere => e \in Somewhere' \/ e \in (vgDuring' \union vgRaced')

(* An edit that reached the working tree stays somewhere, in the tree, a   *)
(* commit, the remote, a stash or a rescue branch, whatever the loop and   *)
(* the operator do: only one made while a rebase was stopped, or while a   *)
(* reset was under way, or whose count or rescue failed, can be lost.      *)
NothingLost == [][NothingLostStep]_vars

RemoteOnlyGrowsStep == vgRemote \subseteq vgRemote'

(* The remote never loses an edit, be it of another machine.               *)
RemoteOnlyGrows == [][RemoteOnlyGrowsStep]_vars

(* The conflict markers of a stopped rebase, which the loop commits on the *)
(* detached HEAD, never reach the remote.  Those of an autostash that did  *)
(* not apply do: nothing is stopped, and the loop commits and pushes them. *)
NoMarkersUpstream == vgBad => vgClash

(* The same of every conflict.  git exits 0 on the autostash's, so runPull *)
(* (syncer.go:202) notes a pull that worked and runCommit adds the files.  *)
NeverMarkersUpstream == ~vgBad

UnconfirmedTakesNothingStep ==
    vgReset.pc = "reset" /\ ~vgReset.confirm /\ vgReset'.pc = "clean"
          => ((vgHead \ vgRef) \union vgMod) \subseteq vgRaced'

(* A reset that was not confirmed leaves alone what it counted.            *)
UnconfirmedTakesNothing == [][UnconfirmedTakesNothingStep]_vars

(* Without conflicts, and when commands fail only so often, an edit        *)
(* reaches the remote while the loop goes on.                              *)
EditArrives == \A e \in Edits : (e \in vgHead \union vgMod \union vgNew) ~> (e \in vgRemote \/ e \in vgStash \union vgRefs \union Seen)

(* handler.go:334: "Anything that exists only locally has to be counted,   *)
(* named, and explicitly confirmed", whenever it was written.              *)
NothingLostUncountedStep ==
    vgReset.pc = "reset" /\ ~vgReset.confirm /\ vgReset'.pc = "clean" => (vgHead \ vgRef) \union vgMod = {}
NothingLostUncounted == [][NothingLostUncountedStep]_vars
=============================================================================
