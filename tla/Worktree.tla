------------------------------ MODULE Worktree ------------------------------
(***************************************************************************)
(* Isolated sessions (workspace/workspace.go, resolver.go and the create   *)
(* and remove paths of session/manager.go).  Session "p" asks for a        *)
(* worktree of its own, session "c" is created as its child and works in   *)
(* the same one.  Creating and removing run concurrently; git commands,    *)
(* the row store and the in-memory reservations are separate steps.  What  *)
(* has no effect on the tree is left out: a child whose parent has no row  *)
(* runs in the project itself, and a refused create leaves nothing.        *)
(***************************************************************************)
EXTENDS Naturals

CONSTANTS MaxCreates, MaxEdits   \* bounds: creates of a session, edits in the tree

VARIABLES
    wtRows,       \* sessions that have a row and work in the tree
    wtTree,       \* directory of the worktree: "none", "clean", "dirty"
    wtBranch,     \* its branch: "none", "merged", "ahead"
    wtPending,    \* wtPending[root]: creates in flight
    wtReclaiming, \* root is in wtReclaiming
    wtReg,        \* root in the resolver: "yes", "no", or "lost": in use and missing
    wtCall,       \* wtCall[x]: step of the create of "p" or "c", or of the remove of "p"
    wtCreates,    \* creates so far
    wtEdits,      \* edits so far
    wtLost,       \* history: work that was nowhere else is deleted
    wtLate,       \* history: the tree changed after its status was taken
    wtBlind,      \* history: the list of sessions could not be read
    wtByHand,     \* history: someone at a shell deleted the directory
    wtKept        \* history: a reclaim left the tree, or the gateway died over it

vars == <<wtRows, wtTree, wtBranch, wtPending, wtReclaiming, wtReg, wtCall,
          wtCreates, wtEdits, wtLost, wtLate, wtBlind, wtByHand, wtKept>>
held == <<wtPending, wtReclaiming>>
disk == <<wtTree, wtBranch>>
bounds == <<wtCreates, wtEdits>>

Idle == [x \in {"p", "c", "remove"} |-> "idle"]
Goes(x, step) == wtCall' = [wtCall EXCEPT ![x] = step]

Init ==
    /\ wtRows = {} /\ wtTree = "none" /\ wtBranch = "none" /\ wtPending = 0 /\ wtReclaiming = FALSE /\ wtReg = "no"
    /\ wtCall = Idle /\ wtCreates = 0 /\ wtEdits = 0
    /\ wtLost = FALSE /\ wtLate = FALSE /\ wtBlind = FALSE /\ wtByHand = FALSE /\ wtKept = FALSE

(* resolveWorkspace for "p": workspace.Create adds tree and branch, both   *)
(* named by the session id, which is never used again.                     *)
WorkspaceCreate ==
    /\ wtCreates = 0 /\ wtCreates' = 1
    /\ wtTree' = "clean" /\ wtBranch' = "merged" /\ Goes("p", "added")
    /\ UNCHANGED <<wtRows, held, wtReg, wtEdits, wtLost, wtLate, wtBlind, wtByHand, wtKept>>

RegisterAndHold ==
    /\ wtCall["p"] = "added" /\ wtReg' = "yes" /\ wtPending' = wtPending + 1 /\ Goes("p", "held")
    /\ UNCHANGED <<wtRows, disk, wtReclaiming, bounds, wtLost, wtLate, wtBlind, wtByHand, wtKept>>

(* resolveWorkspace for "c": the row of the parent is read first ...       *)
GetParent ==
    /\ wtCall["c"] = "idle" /\ "c" \notin wtRows /\ "p" \in wtRows
    /\ wtCreates < MaxCreates /\ wtCreates' = wtCreates + 1 /\ Goes("c", "parent")
    /\ UNCHANGED <<wtRows, disk, held, wtReg, wtEdits, wtLost, wtLate, wtBlind, wtByHand, wtKept>>

(* Mutant of HoldWorktree: a reclaim in progress is not looked for.        *)
HoldWorktreeAlways == wtPending' = wtPending + 1 /\ Goes("c", "held")

(* ... and then its tree is held, unless it is being reclaimed.            *)
HoldWorktree ==
    IF wtReclaiming THEN Goes("c", "idle") /\ UNCHANGED wtPending
    ELSE wtPending' = wtPending + 1 /\ Goes("c", "held")

ChildHolds ==
    /\ wtCall["c"] = "parent" /\ HoldWorktree
    /\ UNCHANGED <<wtRows, disk, wtReclaiming, wtReg, bounds, wtLost, wtLate, wtBlind, wtByHand, wtKept>>

(* spawn refuses a working directory that does not exist, ...              *)
SpawnStat(s) ==
    /\ wtCall[s] = "held" /\ Goes(s, IF wtTree = "none" THEN "failed" ELSE "spawning")
    /\ UNCHANGED <<wtRows, disk, held, wtReg, bounds, wtLost, wtLate, wtBlind, wtByHand, wtKept>>

(* ... and may fail later, or store the row.                               *)
SpawnFails(s) ==
    /\ wtCall[s] = "spawning" /\ Goes(s, "failed")
    /\ UNCHANGED <<wtRows, disk, held, wtReg, bounds, wtLost, wtLate, wtBlind, wtByHand, wtKept>>

RowStored(s) ==
    /\ wtCall[s] = "spawning" /\ wtRows' = wtRows \union {s} /\ Goes(s, "returning")
    /\ UNCHANGED <<disk, held, wtReg, bounds, wtLost, wtLate, wtBlind, wtByHand, wtKept>>

(* Mutant of AfterFailure: the tree of the failed create is left.          *)
AfterFailureLeaves(s) == Goes(s, "returning")

(* A failed spawn reclaims the tree it made; a child leaves the tree of    *)
(* its parent alone.                                                       *)
AfterFailure(s) == Goes(s, IF s = "p" THEN "reclaim" ELSE "returning")

CreateFailed(s) ==
    /\ wtCall[s] = "failed" /\ AfterFailure(s)
    /\ UNCHANGED <<wtRows, disk, held, wtReg, bounds, wtLost, wtLate, wtBlind, wtByHand, wtKept>>

(* The hold is released when Create returns.                               *)
CreateReturns(s) ==
    /\ wtCall[s] = "returning" /\ wtPending' = wtPending - 1 /\ Goes(s, "idle")
    /\ UNCHANGED <<wtRows, disk, wtReclaiming, wtReg, bounds, wtLost, wtLate, wtBlind, wtByHand, wtKept>>

(* Work in the tree, by an agent that has a row, or by someone at a shell, *)
(* who may also delete the directory.                                      *)
Edit ==
    /\ wtTree # "none" /\ wtEdits < MaxEdits /\ wtEdits' = wtEdits + 1
    /\ \/ wtTree = "clean" /\ wtTree' = "dirty" /\ UNCHANGED <<wtBranch, wtByHand>>
       \/ wtTree = "dirty" /\ wtTree' = "clean" /\ wtBranch' = "ahead" /\ UNCHANGED wtByHand
       \/ wtBranch = "ahead" /\ wtBranch' = "merged" /\ UNCHANGED <<wtTree, wtByHand>>
       \/ wtTree' = "none" /\ wtByHand' = TRUE /\ UNCHANGED wtBranch
    /\ wtLate' = (wtLate \/ \E x \in {"p", "remove"} : wtCall[x] = "clear")
    /\ UNCHANGED <<wtRows, held, wtReg, wtCall, wtCreates, wtLost, wtBlind, wtKept>>

(* Remove of a child: it owns no branch, so its row is all that goes.      *)
RemoveChild ==
    /\ "c" \in wtRows /\ wtRows' = wtRows \ {"c"}
    /\ UNCHANGED <<disk, held, wtReg, wtCall, bounds, wtLost, wtLate, wtBlind, wtByHand, wtKept>>

(* Remove of the owner: the process is stopped and the row deleted first.  *)
RemoveOwner ==
    /\ "p" \in wtRows /\ wtRows' = wtRows \ {"p"} /\ Goes("remove", "deleted")
    /\ UNCHANGED <<disk, held, wtReg, bounds, wtLost, wtLate, wtBlind, wtByHand, wtKept>>

(* reclaimWorktree reserves the root, or leaves it to the create that is   *)
(* in flight.                                                              *)
Reserve ==
    /\ wtCall["remove"] = "deleted"
    /\ IF wtPending > 0 THEN Goes("remove", "idle") /\ wtKept' = TRUE /\ UNCHANGED wtReclaiming
       ELSE wtReclaiming' = TRUE /\ Goes("remove", "reserved") /\ UNCHANGED wtKept
    /\ UNCHANGED <<wtRows, disk, wtPending, wtReg, bounds, wtLost, wtLate, wtBlind, wtByHand>>

(* The other rows are listed; an error counts as no other row.             *)
ListOthers ==
    /\ wtCall["remove"] = "reserved"
    /\ \/ wtRows # {} /\ Goes("remove", "idle") /\ wtReclaiming' = FALSE /\ wtKept' = TRUE /\ UNCHANGED wtBlind
       \/ wtRows = {} /\ Goes("remove", "reclaim") /\ UNCHANGED <<wtReclaiming, wtBlind, wtKept>>
       \/ Goes("remove", "reclaim") /\ wtBlind' = TRUE /\ UNCHANGED <<wtReclaiming, wtKept>>
    /\ UNCHANGED <<wtRows, disk, wtPending, wtReg, bounds, wtLost, wtLate, wtByHand>>

(* Mutant of StatusKeeps: only the files are looked at.                    *)
StatusKeepsDirty == wtTree = "dirty"

(* Status: uncommitted files, or commits that HEAD does not contain.       *)
StatusKeeps == wtTree = "dirty" \/ wtBranch = "ahead"

(* Reclaim, by a remove or by a create that failed: a directory that is    *)
(* gone has its bookkeeping pruned and its branch preserved; the tree is   *)
(* kept with its work, or when git cannot tell.                            *)
ReclaimStatus(x) ==
    /\ wtCall[x] = "reclaim"
    /\ \/ wtTree = "none" /\ Goes(x, "disposed") /\ UNCHANGED wtKept
       \/ wtTree # "none" /\ StatusKeeps /\ Goes(x, "disposed") /\ wtKept' = TRUE
       \/ wtTree # "none" /\ ~StatusKeeps /\ Goes(x, "clear") /\ UNCHANGED wtKept
       \/ Goes(x, "undisposed") /\ wtKept' = TRUE
    /\ UNCHANGED <<wtRows, disk, held, wtReg, bounds, wtLost, wtLate, wtBlind, wtByHand>>

(* git refuses to remove a tree with uncommitted files, and may fail.      *)
RemoveTree(x) ==
    /\ wtCall[x] = "clear"
    /\ \/ wtTree = "clean" /\ wtTree' = "none" /\ Goes(x, "treeGone") /\ UNCHANGED wtKept
       \/ Goes(x, "undisposed") /\ wtKept' = TRUE /\ UNCHANGED wtTree
    /\ UNCHANGED <<wtRows, wtBranch, held, wtReg, bounds, wtLost, wtLate, wtBlind, wtByHand>>

(* branch -D asks no question; when it fails the branch stays behind.      *)
DeleteBranch(x) ==
    /\ wtCall[x] = "treeGone" /\ Goes(x, "disposed")
    /\ \/ wtBranch' = "none" /\ wtLost' = (wtLost \/ wtBranch = "ahead")
       \/ UNCHANGED <<wtBranch, wtLost>>
    /\ UNCHANGED <<wtRows, wtTree, held, wtReg, bounds, wtLate, wtBlind, wtByHand, wtKept>>

(* The resolver forgets the root unless the reclaim failed, and the        *)
(* reservation goes in any case.  A child that read its parent before may  *)
(* take hold of a tree that was kept: from then on its entry is missing.   *)
RemoveEnds ==
    /\ wtCall["remove"] \in {"disposed", "undisposed"} /\ Goes("remove", "idle") /\ wtReclaiming' = FALSE
    /\ wtReg' = IF wtCall["remove"] = "undisposed" THEN wtReg ELSE IF wtTree = "none" THEN "no" ELSE "lost"
    /\ UNCHANGED <<wtRows, disk, wtPending, bounds, wtLost, wtLate, wtBlind, wtByHand, wtKept>>

(* A failed create forgets the root even when its tree could not go.       *)
FailedCreateUnregisters ==
    /\ wtCall["p"] \in {"disposed", "undisposed"} /\ Goes("p", "returning") /\ wtReg' = "no"
    /\ UNCHANGED <<wtRows, disk, held, bounds, wtLost, wtLate, wtBlind, wtByHand, wtKept>>

(* Mutant of Rebuilt: the resolver is not rebuilt.                         *)
RebuiltNot == "no"

(* ReconcileStartup registers every row, also those of ended sessions.     *)
Rebuilt == IF wtRows # {} THEN "yes" ELSE "no"

(* The gateway dies and starts.  The list of rows may fail, which is       *)
(* logged.                                                                 *)
Restart ==
    /\ wtCall' = Idle /\ wtPending' = 0 /\ wtReclaiming' = FALSE
    /\ wtKept' = (wtKept \/ \E x \in {"p", "remove"} : wtCall[x] # "idle")
    /\ wtReg' \in {Rebuilt, "lost"}
    /\ UNCHANGED <<wtRows, disk, bounds, wtLost, wtLate, wtBlind, wtByHand>>

CreateStep(s) == SpawnStat(s) \/ SpawnFails(s) \/ RowStored(s) \/ CreateFailed(s) \/ CreateReturns(s)
ReclaimStep(x) == ReclaimStatus(x) \/ RemoveTree(x) \/ DeleteBranch(x)

Next ==
    \/ WorkspaceCreate \/ RegisterAndHold \/ GetParent \/ ChildHolds \/ FailedCreateUnregisters
    \/ \E s \in {"p", "c"} : CreateStep(s)
    \/ \E x \in {"p", "remove"} : ReclaimStep(x)
    \/ Edit \/ RemoveChild \/ RemoveOwner \/ Reserve \/ ListOthers \/ RemoveEnds \/ Restart

Spec == Init /\ [][Next]_vars

Steps == {"idle", "added", "parent", "held", "spawning", "failed", "returning", "deleted", "reserved",
          "reclaim", "clear", "treeGone", "disposed", "undisposed"}
TypeOK ==
    /\ wtRows \subseteq {"p", "c"} /\ wtPending \in 0..2 /\ wtReclaiming \in BOOLEAN
    /\ wtTree \in {"none", "clean", "dirty"} /\ wtBranch \in {"none", "merged", "ahead"}
    /\ wtReg \in {"yes", "no", "lost"} /\ wtCall \in [{"p", "c", "remove"} -> Steps]

(* A session whose row says it works in the tree has a tree, in every      *)
(* interleaving of a child's create with the owner's remove; excepted is a *)
(* remove that could not list the other sessions, and a directory deleted  *)
(* at a shell.                                                             *)
TreeUnderSession == (wtRows # {} /\ ~wtBlind /\ ~wtByHand) => wtTree # "none"

(* No commit and no file that exists only in the tree is deleted by the    *)
(* gateway, unless it was made after the status was taken.                 *)
NoWorkLost == wtLost => wtLate

(* A tree without sessions, creates or removes was left by a reclaim that  *)
(* had a reason: work in it, a child, a git that failed, a crash.          *)
NoAbandonedTree ==
    (wtTree # "none" /\ wtRows = {} /\ wtCall = Idle) => wtKept

(* The resolver maps the tree of every stored session to its project, also *)
(* after a restart.  Excepted is a child whose create overtakes a remove   *)
(* that keeps the tree, which drops the entry all the same, and a restart  *)
(* that could not list the rows.                                           *)
ResolverKnows == (wtRows # {} /\ ~wtBlind /\ ~wtByHand) => wtReg # "no"
=============================================================================
