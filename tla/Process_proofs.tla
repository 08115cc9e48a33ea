-------------------------- MODULE Process_proofs ----------------------------
(***************************************************************************)
(* Theorems about what surrounds the sessions of the gateway: the worktrees*)
(* they work in, the accounts they run on, the machine that must not sleep *)
(* under them, and the update and the end of the gateway itself.  Every    *)
(* component is an instance with variables of its own; its section states an*)
(* inductive invariant, proves that each action keeps it, and derives the  *)
(* theorems.  What is assumed of the constants has a name (FlConstants, ...)*)
(* and is a hypothesis of every theorem that needs it.                     *)
(***************************************************************************)
EXTENDS Naturals, Sequences, TLAPS, FiniteSetTheorems, SequenceTheorems

CONSTANTS
    MaxCreates, MaxEdits,                                      \* Worktree
    Sessions, Accounts, Day, Lengths, MaxHours, MaxHits, MaxCalls,  \* RateLimitFailover
    Requests, Recent, Linger, MaxFails,                        \* KeepAwake
    Admins, MaxVersion, MaxAsks, MaxWorld, MaxCrashes,         \* SelfUpdate
    Reqs, Sockets, Workers, WaitOrder, Queue, Budget, KillAfter  \* Shutdown

VARIABLES
    wtRows, wtTree, wtBranch, wtPending, wtReclaiming, wtReg, wtCall,
    wtCreates, wtEdits, wtLost, wtLate, wtBlind, wtByHand, wtKept,
    flNow, flLimit, flUntil, flRow, flRun, flCalls, flHits, flStale,
    kaMode, kaReq, kaCount, kaLast, kaPc, kaSup, kaCancelled, kaIdle,
    kaCtx, kaFails, kaQuiet,
    suLatest, suSums, suIn, suTarget, suNew, suNext, suDirty, suKept,
    suDaemon, suLive, suFile, suReq, suUpd, suAsks, suWorld, suFails, suCrashes, suDone,
    suRaced, suShared, suBlind, suCut, suDeaf, suOlder, suEarly,
    sdPc, sdCtx, sdTime, sdDrained, sdReq, sdCalls, sdClosed, sdQueued,
    sdLogged, sdFailed, sdSess, sdTermAt, sdOut, sdEvents, sdAudited, sdBg,
    sdNext, sdGaveUp, sdLate

Wt == INSTANCE Worktree
Fl == INSTANCE RateLimitFailover
Ka == INSTANCE KeepAwake
Su == INSTANCE SelfUpdate
Sd == INSTANCE Shutdown

-----------------------------------------------------------------------------
(***************************************************************************)
(* Worktrees: created, shared, left and reclaimed by concurrent calls.     *)
(***************************************************************************)

CreateSteps == {"held", "spawning", "failed", "reclaim", "clear", "treeGone", "disposed", "undisposed"}
ReclaimSteps == {"reclaim", "clear", "treeGone", "disposed", "undisposed"}

WtCalls ==
    /\ wtCall \in [{"p", "c", "remove"} -> Wt!Steps]
    /\ wtCall["p"] \in {"idle", "added", "returning"} \union CreateSteps
    /\ wtCall["c"] \in {"idle", "parent", "held", "spawning", "failed", "returning"}
    /\ wtCall["remove"] \in {"idle", "deleted", "reserved"} \union ReclaimSteps

WtFlags ==
    /\ wtReclaiming \in BOOLEAN /\ wtLost \in BOOLEAN /\ wtLate \in BOOLEAN /\ wtBlind \in BOOLEAN
    /\ wtByHand \in BOOLEAN /\ wtKept \in BOOLEAN

WtDisk ==
    /\ wtRows \subseteq {"p", "c"} /\ wtCreates \in Nat /\ wtReg \in {"yes", "no", "lost"}
    /\ wtTree \in {"none", "clean", "dirty"} /\ wtBranch \in {"none", "merged", "ahead"}

Holds(s) == IF wtCall[s] \in CreateSteps \union {"returning"} THEN 1 ELSE 0

(* The reservations count the calls that hold the tree, a reclaim excludes *)
(* them, and the owner is created before and removed after all others.     *)
Guarded ==
    /\ wtPending = Holds("p") + Holds("c")
    /\ wtReclaiming <=> wtCall["remove"] \in {"reserved"} \union ReclaimSteps
    /\ wtReclaiming => Holds("p") = 0 /\ Holds("c") = 0
    /\ (wtCreates = 0 \/ wtCall["p"] \in {"added"} \union CreateSteps)
          => wtRows = {} /\ wtCall["c"] = "idle" /\ wtCall["remove"] = "idle"
    /\ wtCreates = 0 => wtTree = "none" /\ wtCall["p"] = "idle"
    /\ "p" \in wtRows => wtCall["remove"] = "idle"

(* A tree in use is there: a reclaim has seen that no session is left, and *)
(* none can come.                                                          *)
TreesThere ==
    /\ (wtCall["remove"] \in ReclaimSteps /\ ~wtBlind) => wtRows = {}
    /\ (~wtByHand /\ (wtCall["p"] = "spawning" \/ wtCall["c"] = "spawning")) => wtTree # "none"
    /\ (wtRows # {} /\ ~wtBlind /\ ~wtByHand) => wtTree # "none"

(* What is about to be deleted was found clear, and nothing was added.     *)
WorkSafe ==
    /\ wtLost => wtLate
    /\ \A x \in {"p", "remove"} :
         /\ wtCall[x] \in {"clear", "treeGone"} /\ ~wtLate => wtBranch # "ahead"
         /\ wtCall[x] = "treeGone" => wtTree = "none"

(* A tree without its owner is about to be reclaimed, or was kept.         *)
TreesAccounted ==
    (wtTree # "none" /\ "p" \notin wtRows /\ ~wtKept)
      => \/ wtCall["p"] \in {"added", "held", "spawning", "failed", "reclaim", "clear"}
         \/ wtCall["remove"] \in {"deleted", "reserved", "reclaim", "clear"}

(* The root is registered while its owner lives or leaves, and afterwards  *)
(* as long as a child can come to a row.                                   *)
RootRegistered ==
    wtReg = "no" =>
      /\ "p" \notin wtRows /\ wtCall["remove"] = "idle" /\ wtCall["p"] \notin CreateSteps
      /\ (wtCall["c"] \in {"parent", "held", "spawning"} \/ "c" \in wtRows) => wtTree = "none"

WtInv == WtCalls /\ WtFlags /\ WtDisk /\ Guarded /\ TreesThere /\ WorkSafe /\ TreesAccounted /\ RootRegistered

LEMMA WtInit == ASSUME Wt!Init PROVE WtInv
<1> USE DEF Wt!Init, WtInv,
      WtCalls, WtFlags, WtDisk, Guarded, TreesThere, WorkSafe, TreesAccounted, RootRegistered,
      Holds, CreateSteps, ReclaimSteps, Wt!Steps, Wt!Goes, Wt!held, Wt!disk, Wt!bounds, Wt!Idle
<1>1. WtCalls
  OBVIOUS
<1>2. WtFlags
  OBVIOUS
<1>3. WtDisk
  OBVIOUS
<1>4. Guarded
  OBVIOUS
<1>5. TreesThere
  OBVIOUS
<1>6. WorkSafe
  OBVIOUS
<1>7. TreesAccounted
  OBVIOUS
<1>8. RootRegistered
  OBVIOUS
<1> QED
  BY <1>1, <1>2, <1>3, <1>4, <1>5, <1>6, <1>7, <1>8

LEMMA WorkspaceCreateKeeps == ASSUME WtInv, Wt!WorkspaceCreate PROVE WtInv'
<1> USE DEF Wt!WorkspaceCreate, WtInv,
      WtCalls, WtFlags, WtDisk, Guarded, TreesThere, WorkSafe, TreesAccounted, RootRegistered,
      Holds, CreateSteps, ReclaimSteps, Wt!Steps, Wt!Goes, Wt!held, Wt!disk, Wt!bounds, Wt!Idle
<1> QED
  OBVIOUS

LEMMA RegisterAndHoldKeeps == ASSUME WtInv, Wt!RegisterAndHold PROVE WtInv'
<1> USE DEF Wt!RegisterAndHold, WtInv,
      WtCalls, WtFlags, WtDisk, Guarded, TreesThere, WorkSafe, TreesAccounted, RootRegistered,
      Holds, CreateSteps, ReclaimSteps, Wt!Steps, Wt!Goes, Wt!held, Wt!disk, Wt!bounds, Wt!Idle
<1>1. WtCalls'
  OBVIOUS
<1>2. WtFlags'
  OBVIOUS
<1>3. WtDisk'
  OBVIOUS
<1>4. Guarded'
  OBVIOUS
<1>5. TreesThere'
  OBVIOUS
<1>6. WorkSafe'
  OBVIOUS
<1>7. TreesAccounted'
  OBVIOUS
<1>8. RootRegistered'
  OBVIOUS
<1> QED
  BY <1>1, <1>2, <1>3, <1>4, <1>5, <1>6, <1>7, <1>8

LEMMA GetParentKeeps == ASSUME WtInv, Wt!GetParent PROVE WtInv'
<1> USE DEF Wt!GetParent, WtInv,
      WtCalls, WtFlags, WtDisk, Guarded, TreesThere, WorkSafe, TreesAccounted, RootRegistered,
      Holds, CreateSteps, ReclaimSteps, Wt!Steps, Wt!Goes, Wt!held, Wt!disk, Wt!bounds, Wt!Idle
<1> QED
  OBVIOUS

LEMMA ChildHoldsKeeps == ASSUME WtInv, Wt!ChildHolds PROVE WtInv'
<1> USE DEF Wt!ChildHolds, Wt!HoldWorktree, WtInv,
      WtCalls, WtFlags, WtDisk, Guarded, TreesThere, WorkSafe, TreesAccounted, RootRegistered,
      Holds, CreateSteps, ReclaimSteps, Wt!Steps, Wt!Goes, Wt!held, Wt!disk, Wt!bounds, Wt!Idle
<1> QED
  OBVIOUS

LEMMA FailedCreateUnregistersKeeps == ASSUME WtInv, Wt!FailedCreateUnregisters PROVE WtInv'
<1> USE DEF Wt!FailedCreateUnregisters, WtInv,
      WtCalls, WtFlags, WtDisk, Guarded, TreesThere, WorkSafe, TreesAccounted, RootRegistered,
      Holds, CreateSteps, ReclaimSteps, Wt!Steps, Wt!Goes, Wt!held, Wt!disk, Wt!bounds, Wt!Idle
<1> QED
  OBVIOUS

LEMMA EditKeeps == ASSUME WtInv, Wt!Edit PROVE WtInv'
<1> USE DEF Wt!Edit, WtInv,
      WtCalls, WtFlags, WtDisk, Guarded, TreesThere, WorkSafe, TreesAccounted, RootRegistered,
      Holds, CreateSteps, ReclaimSteps, Wt!Steps, Wt!Goes, Wt!held, Wt!disk, Wt!bounds, Wt!Idle
<1>1. WtCalls'
  OBVIOUS
<1>2. WtFlags'
  OBVIOUS
<1>3. WtDisk'
  OBVIOUS
<1>4. Guarded'
  OBVIOUS
<1>5. TreesThere'
  OBVIOUS
<1>6. WorkSafe'
  OBVIOUS
<1>7. TreesAccounted'
  OBVIOUS
<1>8. RootRegistered'
  OBVIOUS
<1> QED
  BY <1>1, <1>2, <1>3, <1>4, <1>5, <1>6, <1>7, <1>8

LEMMA RemoveChildKeeps == ASSUME WtInv, Wt!RemoveChild PROVE WtInv'
<1> USE DEF Wt!RemoveChild, WtInv,
      WtCalls, WtFlags, WtDisk, Guarded, TreesThere, WorkSafe, TreesAccounted, RootRegistered,
      Holds, CreateSteps, ReclaimSteps, Wt!Steps, Wt!Goes, Wt!held, Wt!disk, Wt!bounds, Wt!Idle
<1> QED
  OBVIOUS

LEMMA RemoveOwnerKeeps == ASSUME WtInv, Wt!RemoveOwner PROVE WtInv'
<1> USE DEF Wt!RemoveOwner, WtInv,
      WtCalls, WtFlags, WtDisk, Guarded, TreesThere, WorkSafe, TreesAccounted, RootRegistered,
      Holds, CreateSteps, ReclaimSteps, Wt!Steps, Wt!Goes, Wt!held, Wt!disk, Wt!bounds, Wt!Idle
<1> QED
  OBVIOUS

LEMMA ReserveKeeps == ASSUME WtInv, Wt!Reserve PROVE WtInv'
<1> USE DEF Wt!Reserve, WtInv,
      WtCalls, WtFlags, WtDisk, Guarded, TreesThere, WorkSafe, TreesAccounted, RootRegistered,
      Holds, CreateSteps, ReclaimSteps, Wt!Steps, Wt!Goes, Wt!held, Wt!disk, Wt!bounds, Wt!Idle
<1>1. WtCalls'
  OBVIOUS
<1>2. WtFlags'
  OBVIOUS
<1>3. WtDisk'
  OBVIOUS
<1>4. Guarded'
  OBVIOUS
<1>5. TreesThere'
  OBVIOUS
<1>6. WorkSafe'
  OBVIOUS
<1>7. TreesAccounted'
  OBVIOUS
<1>8. RootRegistered'
  OBVIOUS
<1> QED
  BY <1>1, <1>2, <1>3, <1>4, <1>5, <1>6, <1>7, <1>8

LEMMA ListOthersKeeps == ASSUME WtInv, Wt!ListOthers PROVE WtInv'
<1> USE DEF Wt!ListOthers, WtInv,
      WtCalls, WtFlags, WtDisk, Guarded, TreesThere, WorkSafe, TreesAccounted, RootRegistered,
      Holds, CreateSteps, ReclaimSteps, Wt!Steps, Wt!Goes, Wt!held, Wt!disk, Wt!bounds, Wt!Idle
<1>1. WtCalls'
  OBVIOUS
<1>2. WtFlags'
  OBVIOUS
<1>3. WtDisk'
  OBVIOUS
<1>4. Guarded'
  OBVIOUS
<1>5. TreesThere'
  OBVIOUS
<1>6. WorkSafe'
  OBVIOUS
<1>7. TreesAccounted'
  OBVIOUS
<1>8. RootRegistered'
  OBVIOUS
<1> QED
  BY <1>1, <1>2, <1>3, <1>4, <1>5, <1>6, <1>7, <1>8

LEMMA RemoveEndsKeeps == ASSUME WtInv, Wt!RemoveEnds PROVE WtInv'
<1> USE DEF Wt!RemoveEnds, WtInv,
      WtCalls, WtFlags, WtDisk, Guarded, TreesThere, WorkSafe, TreesAccounted, RootRegistered,
      Holds, CreateSteps, ReclaimSteps, Wt!Steps, Wt!Goes, Wt!held, Wt!disk, Wt!bounds, Wt!Idle
<1>1. WtCalls'
  OBVIOUS
<1>2. WtFlags'
  OBVIOUS
<1>3. WtDisk'
  OBVIOUS
<1>4. Guarded'
  OBVIOUS
<1>5. TreesThere'
  OBVIOUS
<1>6. WorkSafe'
  OBVIOUS
<1>7. TreesAccounted'
  OBVIOUS
<1>8. RootRegistered'
  OBVIOUS
<1> QED
  BY <1>1, <1>2, <1>3, <1>4, <1>5, <1>6, <1>7, <1>8

LEMMA WtRestartKeeps == ASSUME WtInv, Wt!Restart PROVE WtInv'
<1> USE DEF Wt!Restart, Wt!Rebuilt, WtInv,
      WtCalls, WtFlags, WtDisk, Guarded, TreesThere, WorkSafe, TreesAccounted, RootRegistered,
      Holds, CreateSteps, ReclaimSteps, Wt!Steps, Wt!Goes, Wt!held, Wt!disk, Wt!bounds, Wt!Idle
<1>1. WtCalls'
  OBVIOUS
<1>2. WtFlags'
  OBVIOUS
<1>3. WtDisk'
  OBVIOUS
<1>4. Guarded'
  OBVIOUS
<1>5. TreesThere'
  OBVIOUS
<1>6. WorkSafe'
  OBVIOUS
<1>7. TreesAccounted'
  OBVIOUS
<1>8. RootRegistered'
  OBVIOUS
<1> QED
  BY <1>1, <1>2, <1>3, <1>4, <1>5, <1>6, <1>7, <1>8

LEMMA SpawnStatKeeps == ASSUME WtInv, NEW x \in {"p", "c"}, Wt!SpawnStat(x) PROVE WtInv'
<1> USE DEF Wt!SpawnStat, WtInv,
      WtCalls, WtFlags, WtDisk, Guarded, TreesThere, WorkSafe, TreesAccounted, RootRegistered,
      Holds, CreateSteps, ReclaimSteps, Wt!Steps, Wt!Goes, Wt!held, Wt!disk, Wt!bounds, Wt!Idle
<1> QED
  OBVIOUS

LEMMA SpawnFailsKeeps == ASSUME WtInv, NEW x \in {"p", "c"}, Wt!SpawnFails(x) PROVE WtInv'
<1> USE DEF Wt!SpawnFails, WtInv,
      WtCalls, WtFlags, WtDisk, Guarded, TreesThere, WorkSafe, TreesAccounted, RootRegistered,
      Holds, CreateSteps, ReclaimSteps, Wt!Steps, Wt!Goes, Wt!held, Wt!disk, Wt!bounds, Wt!Idle
<1> QED
  OBVIOUS

LEMMA RowStoredKeeps == ASSUME WtInv, NEW x \in {"p", "c"}, Wt!RowStored(x) PROVE WtInv'
<1> USE DEF Wt!RowStored, WtInv,
      WtCalls, WtFlags, WtDisk, Guarded, TreesThere, WorkSafe, TreesAccounted, RootRegistered,
      Holds, CreateSteps, ReclaimSteps, Wt!Steps, Wt!Goes, Wt!held, Wt!disk, Wt!bounds, Wt!Idle
<1>1. WtCalls'
  OBVIOUS
<1>2. WtFlags'
  OBVIOUS
<1>3. WtDisk'
  OBVIOUS
<1>4. Guarded'
  OBVIOUS
<1>5. TreesThere'
  OBVIOUS
<1>6. WorkSafe'
  OBVIOUS
<1>7. TreesAccounted'
  OBVIOUS
<1>8. RootRegistered'
  OBVIOUS
<1> QED
  BY <1>1, <1>2, <1>3, <1>4, <1>5, <1>6, <1>7, <1>8

LEMMA CreateFailedKeeps == ASSUME WtInv, NEW x \in {"p", "c"}, Wt!CreateFailed(x) PROVE WtInv'
<1> USE DEF Wt!CreateFailed, Wt!AfterFailure, WtInv,
      WtCalls, WtFlags, WtDisk, Guarded, TreesThere, WorkSafe, TreesAccounted, RootRegistered,
      Holds, CreateSteps, ReclaimSteps, Wt!Steps, Wt!Goes, Wt!held, Wt!disk, Wt!bounds, Wt!Idle
<1> QED
  OBVIOUS

LEMMA CreateReturnsKeeps == ASSUME WtInv, NEW x \in {"p", "c"}, Wt!CreateReturns(x) PROVE WtInv'
<1> USE DEF Wt!CreateReturns, WtInv,
      WtCalls, WtFlags, WtDisk, Guarded, TreesThere, WorkSafe, TreesAccounted, RootRegistered,
      Holds, CreateSteps, ReclaimSteps, Wt!Steps, Wt!Goes, Wt!held, Wt!disk, Wt!bounds, Wt!Idle
<1> QED
  OBVIOUS

LEMMA ReclaimStatusKeeps == ASSUME WtInv, NEW x \in {"p", "remove"}, Wt!ReclaimStatus(x) PROVE WtInv'
<1> USE DEF Wt!ReclaimStatus, Wt!StatusKeeps, WtInv,
      WtCalls, WtFlags, WtDisk, Guarded, TreesThere, WorkSafe, TreesAccounted, RootRegistered,
      Holds, CreateSteps, ReclaimSteps, Wt!Steps, Wt!Goes, Wt!held, Wt!disk, Wt!bounds, Wt!Idle
<1>1. WtCalls'
  OBVIOUS
<1>2. WtFlags'
  OBVIOUS
<1>3. WtDisk'
  OBVIOUS
<1>4. Guarded'
  OBVIOUS
<1>5. TreesThere'
  OBVIOUS
<1>6. WorkSafe'
  OBVIOUS
<1>7. TreesAccounted'
  OBVIOUS
<1>8. RootRegistered'
  OBVIOUS
<1> QED
  BY <1>1, <1>2, <1>3, <1>4, <1>5, <1>6, <1>7, <1>8

LEMMA RemoveTreeKeeps == ASSUME WtInv, NEW x \in {"p", "remove"}, Wt!RemoveTree(x) PROVE WtInv'
<1> USE DEF Wt!RemoveTree, WtInv,
      WtCalls, WtFlags, WtDisk, Guarded, TreesThere, WorkSafe, TreesAccounted, RootRegistered,
      Holds, CreateSteps, ReclaimSteps, Wt!Steps, Wt!Goes, Wt!held, Wt!disk, Wt!bounds, Wt!Idle
<1>1. WtCalls'
  OBVIOUS
<1>2. WtFlags'
  OBVIOUS
<1>3. WtDisk'
  OBVIOUS
<1>4. Guarded'
  OBVIOUS
<1>5. TreesThere'
  <2>1. wtCall["c"] # "spawning" /\ (wtRows = {} \/ wtBlind)
    OBVIOUS
  <2>2. UNCHANGED <<wtRows, wtBlind, wtByHand>> /\ wtCall'["c"] = wtCall["c"] /\ wtCall'["p"] # "spawning"
    OBVIOUS
  <2>3. (wtCall'["remove"] \in ReclaimSteps /\ ~wtBlind) => wtRows = {}
    OBVIOUS
  <2>4. wtCall'["p"] # "spawning" /\ wtCall'["c"] # "spawning"
    BY <2>1, <2>2
  <2>5. (wtRows' # {} /\ ~wtBlind' /\ ~wtByHand') => wtTree' # "none"
    <3> HIDE DEF Wt!RemoveTree, WtInv, WtCalls, WtFlags, WtDisk, Guarded, TreesThere, Wt!Goes, Wt!held
    <3> QED
      BY <2>1, <2>2
  <2> HIDE DEF Wt!RemoveTree, WtInv, Wt!Goes
  <2> QED
    BY <2>2, <2>3, <2>4, <2>5
<1>6. WorkSafe'
  OBVIOUS
<1>7. TreesAccounted'
  OBVIOUS
<1>8. RootRegistered'
  OBVIOUS
<1> QED
  BY <1>1, <1>2, <1>3, <1>4, <1>5, <1>6, <1>7, <1>8

LEMMA DeleteBranchKeeps == ASSUME WtInv, NEW x \in {"p", "remove"}, Wt!DeleteBranch(x) PROVE WtInv'
<1> USE DEF Wt!DeleteBranch, WtInv,
      WtCalls, WtFlags, WtDisk, Guarded, TreesThere, WorkSafe, TreesAccounted, RootRegistered,
      Holds, CreateSteps, ReclaimSteps, Wt!Steps, Wt!Goes, Wt!held, Wt!disk, Wt!bounds, Wt!Idle
<1> QED
  OBVIOUS

LEMMA WtNext == ASSUME WtInv, [Wt!Next]_Wt!vars PROVE WtInv'
<1>1. CASE UNCHANGED Wt!vars
  BY <1>1 DEF Wt!vars, WtInv, WtCalls, WtFlags, WtDisk, Guarded, TreesThere, WorkSafe, TreesAccounted, RootRegistered, Holds
<1>2. ASSUME NEW x \in {"p", "c"}, Wt!CreateStep(x) PROVE WtInv'
  BY <1>2, SpawnStatKeeps, SpawnFailsKeeps, RowStoredKeeps, CreateFailedKeeps, CreateReturnsKeeps DEF Wt!CreateStep
<1>3. ASSUME NEW x \in {"p", "remove"}, Wt!ReclaimStep(x) PROVE WtInv'
  BY <1>3, ReclaimStatusKeeps, RemoveTreeKeeps, DeleteBranchKeeps DEF Wt!ReclaimStep
<1>4. CASE Wt!Next
  BY <1>2, <1>3, <1>4, WorkspaceCreateKeeps, RegisterAndHoldKeeps, GetParentKeeps, ChildHoldsKeeps, FailedCreateUnregistersKeeps, EditKeeps, RemoveChildKeeps, RemoveOwnerKeeps, ReserveKeeps, ListOthersKeeps, RemoveEndsKeeps, WtRestartKeeps DEF Wt!Next
<1> QED
  BY <1>1, <1>4

(* Manager.Create and reclaimWorktree: whatever create of a child crosses  *)
(* the remove of its owner, whatever fails, and through restarts, the tree *)
(* of a stored session is not taken away by the gateway.                   *)
THEOREM SessionsHaveTrees == Wt!Spec => []Wt!TreeUnderSession
<1>1. WtInv => Wt!TreeUnderSession
  BY DEF WtInv, WtCalls, WtFlags, WtDisk, Guarded, TreesThere, WorkSafe, TreesAccounted, RootRegistered, Wt!TreeUnderSession
<1>2. WtInv /\ [Wt!Next]_Wt!vars => WtInv'
  BY WtNext
<1> QED
  BY <1>1, <1>2, WtInit, PTL DEF Wt!Spec

(* workspace.Manager.Reclaim: no work that was there when git status ran   *)
(* is deleted with the tree or its branch.                                 *)
THEOREM WorkIsNotDeleted == Wt!Spec => []Wt!NoWorkLost
<1>1. WtInv => Wt!NoWorkLost
  BY DEF WtInv, WtCalls, WtFlags, WtDisk, Guarded, TreesThere, WorkSafe, TreesAccounted, RootRegistered, Wt!NoWorkLost
<1>2. WtInv /\ [Wt!Next]_Wt!vars => WtInv'
  BY WtNext
<1> QED
  BY <1>1, <1>2, WtInit, PTL DEF Wt!Spec

(* reclaimWorktree and the failure path of Create: a tree that no session  *)
(* uses and no call is about to reclaim was kept for a reason.             *)
THEOREM TreesAreReclaimed == Wt!Spec => []Wt!NoAbandonedTree
<1>1. WtInv => Wt!NoAbandonedTree
  BY DEF WtInv, WtCalls, WtFlags, WtDisk, Guarded, TreesThere, WorkSafe, TreesAccounted, RootRegistered, Wt!NoAbandonedTree, Wt!Idle, CreateSteps
<1>2. WtInv /\ [Wt!Next]_Wt!vars => WtInv'
  BY WtNext
<1> QED
  BY <1>1, <1>2, WtInit, PTL DEF Wt!Spec

(* Resolver.Register and ReconcileStartup: the root of a stored session's  *)
(* tree is known to the resolver, except as ResolverKnows says.            *)
THEOREM RootsStayRegistered == Wt!Spec => []Wt!ResolverKnows
<1>1. WtInv => Wt!ResolverKnows
  BY DEF WtInv, WtCalls, WtFlags, WtDisk, Guarded, TreesThere, WorkSafe, TreesAccounted, RootRegistered, Wt!ResolverKnows
<1>2. WtInv /\ [Wt!Next]_Wt!vars => WtInv'
  BY WtNext
<1> QED
  BY <1>1, <1>2, WtInit, PTL DEF Wt!Spec

-----------------------------------------------------------------------------
(***************************************************************************)
(* Failover: the limits of accounts, the banners that tell of them, and the*)
(* calls that move a session.                                              *)
(***************************************************************************)

(* Accounts are numbered from 1, a limit ends within a day.                *)
FlConstants == Day \in Nat \ {0} /\ Lengths \subseteq 1..Day /\ Accounts \subseteq Nat \ {0}

(* A banner tells no later hour than the provider's, which is at most a    *)
(* day ahead.                                                              *)
WindowsTrue ==
    \A s \in Sessions : \A i \in 1..Len(flRun[s].window) : flRun[s].window[i] <= flLimit[flRun[s].acct]
LimitsNear == \A a \in Fl!Bindings : flLimit[a] <= flNow + Day

(* What a call holds of the limit is true, or from a stale banner; what it *)
(* holds of the free accounts was true, and later marks are noted.         *)
CallTrue(c) ==
    /\ c.pc = "found" => c.acct \in flStale \/ c.reset <= flLimit[c.acct]
    /\ c.pc = "listed" => \A a \in Accounts \ c.excluded : Fl!Throttled(a) => a \in c.late
    /\ c.pc = "picked" => c.to \in Accounts /\ (Fl!Throttled(c.to) => c.to \in c.late)
CallsTrue == \A c \in flCalls : CallTrue(c)
MarksTrue == \A a \in Accounts \ flStale : flUntil[a] <= flLimit[a]

FlInv == Fl!TypeOK /\ WindowsTrue /\ LimitsNear /\ CallsTrue /\ MarksTrue

LEMMA Remainder == ASSUME NEW n \in Nat, NEW d \in Nat \ {0} PROVE n % d \in Nat /\ n % d <= n
<1> DEFINE p == n \div d  r == n % d
<1>1. n = d * p + r /\ r \in 0..d-1 /\ p \in Nat
  OBVIOUS
<1>2. d * p >= 0
  BY <1>1
<1> HIDE DEF p
<1> QED
  BY <1>1, <1>2

(* An hour of the coming day is found again from its time of day.          *)
LEMMA SameHour ==
    ASSUME NEW now \in Nat, NEW hour \in Nat, NEW d \in Nat \ {0}, now < hour, hour <= now + d
    PROVE  LET today == (now - (now % d)) + (hour % d)
           IN  hour = IF today > now THEN today ELSE today + d
<1> DEFINE p == now \div d  q == hour \div d  r == now % d  t == hour % d
<1>1. now = d * p + r /\ r \in 0..d-1 /\ p \in Nat
  OBVIOUS
<1>2. hour = d * q + t /\ t \in 0..d-1 /\ q \in Nat
  OBVIOUS
<1>3. q >= p
  <2>1. ASSUME p >= q + 1 PROVE FALSE
    <3>1. d * p >= d * (q + 1)
      BY <1>1, <1>2, <2>1
    <3>2. d * (q + 1) = d * q + d
      BY <1>1, <1>2
    <3> HIDE DEF p, q, r, t
    <3> QED
      BY <1>1, <1>2, <3>1, <3>2
  <2> HIDE DEF p, q, r, t
  <2> QED
    BY <1>1, <1>2, <2>1
<1>4. q <= p + 1
  <2>1. ASSUME q >= p + 2 PROVE FALSE
    <3>1. d * q >= d * (p + 2)
      BY <1>1, <1>2, <2>1
    <3>2. d * (p + 2) = d * p + d + d
      BY <1>1, <1>2
    <3> HIDE DEF p, q, r, t
    <3> QED
      BY <1>1, <1>2, <3>1, <3>2
  <2> HIDE DEF p, q, r, t
  <2> QED
    BY <1>1, <1>2, <2>1
<1>5. d * (p + 1) = d * p + d
  BY <1>1
<1> HIDE DEF p, q, r, t
<1>6. CASE q = p
  BY <1>1, <1>2, <1>6 DEF r, t
<1>7. CASE q = p + 1
  BY <1>1, <1>2, <1>5, <1>7 DEF r, t
<1> QED
  BY <1>1, <1>2, <1>3, <1>4, <1>6, <1>7

LEMMA FlInit == ASSUME FlConstants, Fl!Init PROVE FlInv
  BY DEF FlConstants, Fl!Init, FlInv, Fl!TypeOK, WindowsTrue, LimitsNear, CallsTrue, MarksTrue, Fl!Bindings, Fl!NoRun

(* What a call knows stays true while marks, limits and time stay.         *)
LEMMA CallsStay ==
    ASSUME FlInv, UNCHANGED <<flNow, flLimit, flUntil, flStale>>,
           NEW s \in Sessions, flCalls' \subseteq flCalls \union Fl!Disowned(s, flCalls)
    PROVE  CallsTrue' /\ MarksTrue' /\ LimitsNear' /\ flCalls' \subseteq Fl!Call
<1>1. flCalls \subseteq Fl!Call
  BY DEF FlInv, Fl!TypeOK
<1>2. ASSUME NEW c \in Fl!Disowned(s, flCalls)
      PROVE  c \in Fl!Call /\ \E d \in flCalls : /\ c.pc = d.pc /\ c.acct = d.acct /\ c.reset = d.reset /\ c.to = d.to
                                                 /\ c.excluded = d.excluded /\ c.late = d.late
  BY <1>1 DEF Fl!Disowned, Fl!Call
<1>3. ASSUME NEW c \in flCalls' PROVE c \in Fl!Call /\ CallTrue(c)'
  <2>1. \A d \in flCalls : CallTrue(d)
    BY DEF FlInv, CallsTrue
  <2>2. CASE c \in flCalls
    BY <1>1, <2>1, <2>2 DEF CallTrue, Fl!Throttled
  <2>3. CASE c \in Fl!Disowned(s, flCalls)
    BY <1>2, <2>1, <2>3 DEF CallTrue, Fl!Throttled
  <2> QED
    BY <2>2, <2>3
<1> QED
  BY <1>3 DEF CallsTrue, FlInv, MarksTrue, LimitsNear

(* A run that begins has read nothing, one that ends has nothing left.     *)
LEMMA RunsStay ==
    ASSUME FlInv, NEW s \in Sessions, NEW r \in [live : BOOLEAN, acct : Fl!Bindings, window : {<<>>}],
           flRun' = [flRun EXCEPT ![s] = r], UNCHANGED flLimit
    PROVE  WindowsTrue' /\ flRun' \in [Sessions -> [live : BOOLEAN, acct : Fl!Bindings, window : Seq(Nat)]]
<1>1. flRun \in [Sessions -> [live : BOOLEAN, acct : Fl!Bindings, window : Seq(Nat)]]
  BY DEF FlInv, Fl!TypeOK
<1>2. r.window = <<>> /\ Len(r.window) = 0 /\ r \in [live : BOOLEAN, acct : Fl!Bindings, window : Seq(Nat)]
  <2>1. <<>> \in Seq(Nat)
    OBVIOUS
  <2>2. {<<>>} \subseteq Seq(Nat)
    BY <2>1
  <2> QED
    BY <2>2
<1>3. \A x \in Sessions : flRun'[x] = IF x = s THEN r ELSE flRun[x]
  BY <1>1
<1>4. WindowsTrue'
  BY <1>2, <1>3 DEF FlInv, WindowsTrue
<1> QED
  BY <1>1, <1>2, <1>4

LEMMA CreateKeeps ==
    ASSUME FlConstants, FlInv, NEW s \in Sessions, NEW a \in Fl!Bindings, Fl!Create(s, a)
    PROVE  FlInv'
<1>1. /\ flRun' = [flRun EXCEPT ![s] = [live |-> TRUE, acct |-> a, window |-> <<>>]]
      /\ UNCHANGED <<flNow, flLimit, flHits, flUntil, flCalls, flStale>>
  BY DEF Fl!Create, Fl!Spawn, Fl!provider
<1>2. CallsTrue' /\ MarksTrue' /\ LimitsNear' /\ flCalls' \subseteq Fl!Call
  BY <1>1, CallsStay
<1>3. WindowsTrue' /\ flRun' \in [Sessions -> [live : BOOLEAN, acct : Fl!Bindings, window : Seq(Nat)]]
  BY <1>1, RunsStay
<1>4. flRow' \in [Sessions -> [acct : Fl!Bindings, state : {"none", "running", "ended"}]]
  BY DEF Fl!Create, FlInv, Fl!TypeOK
<1> QED
  BY <1>1, <1>2, <1>3, <1>4 DEF FlInv, Fl!TypeOK

LEMMA StartKeeps == ASSUME FlConstants, FlInv, NEW s \in Sessions, Fl!Start(s) PROVE FlInv'
<1>1. /\ flRun' = [flRun EXCEPT ![s] = [live |-> TRUE, acct |-> flRow[s].acct, window |-> <<>>]]
      /\ flRow[s].acct \in Fl!Bindings
      /\ UNCHANGED <<flNow, flLimit, flHits, flUntil, flCalls, flStale>>
  BY DEF Fl!Start, Fl!Spawn, Fl!provider, FlInv, Fl!TypeOK
<1>2. CallsTrue' /\ MarksTrue' /\ LimitsNear' /\ flCalls' \subseteq Fl!Call
  BY <1>1, CallsStay
<1>3. WindowsTrue' /\ flRun' \in [Sessions -> [live : BOOLEAN, acct : Fl!Bindings, window : Seq(Nat)]]
  BY <1>1, RunsStay
<1>4. flRow' \in [Sessions -> [acct : Fl!Bindings, state : {"none", "running", "ended"}]]
  BY DEF Fl!Start, FlInv, Fl!TypeOK
<1> QED
  BY <1>1, <1>2, <1>3, <1>4 DEF FlInv, Fl!TypeOK

LEMMA RunEndsKeeps == ASSUME FlConstants, FlInv, NEW s \in Sessions, Fl!RunEnds(s) PROVE FlInv'
<1>1. /\ flRun' = [flRun EXCEPT ![s] = [live |-> FALSE, acct |-> 0, window |-> <<>>]]
      /\ flCalls' = Fl!Disowned(s, flCalls)
      /\ UNCHANGED <<flNow, flLimit, flHits, flUntil, flStale>>
  BY DEF Fl!RunEnds, Fl!Stopped, Fl!NoRun, Fl!provider
<1>2. CallsTrue' /\ MarksTrue' /\ LimitsNear' /\ flCalls' \subseteq Fl!Call
  BY <1>1, CallsStay
<1>3. WindowsTrue' /\ flRun' \in [Sessions -> [live : BOOLEAN, acct : Fl!Bindings, window : Seq(Nat)]]
  BY <1>1, RunsStay DEF Fl!Bindings
<1>4. flRow' \in [Sessions -> [acct : Fl!Bindings, state : {"none", "running", "ended"}]]
  BY DEF Fl!RunEnds, Fl!Stopped, FlInv, Fl!TypeOK
<1> QED
  BY <1>1, <1>2, <1>3, <1>4 DEF FlInv, Fl!TypeOK

LEMMA SwitchToKeeps ==
    ASSUME FlConstants, FlInv, NEW s \in Sessions, NEW a \in Fl!Bindings, NEW calls \in SUBSET flCalls,
           Fl!SwitchTo(s, a, calls), UNCHANGED <<flNow, flLimit, flHits, flUntil, flStale>>
    PROVE  FlInv'
<1>1. flCalls' \subseteq flCalls \union Fl!Disowned(s, flCalls)
  BY DEF Fl!SwitchTo, Fl!Disowned
<1>2. CallsTrue' /\ MarksTrue' /\ LimitsNear' /\ flCalls' \subseteq Fl!Call
  BY <1>1, CallsStay
<1>3. \/ UNCHANGED flRun
      \/ flRun' = [flRun EXCEPT ![s] = [live |-> FALSE, acct |-> 0, window |-> <<>>]]
      \/ flRun' = [flRun EXCEPT ![s] = [live |-> TRUE, acct |-> a, window |-> <<>>]]
  BY DEF Fl!SwitchTo, Fl!Stopped, Fl!Spawn, Fl!NoRun
<1>4. WindowsTrue' /\ flRun' \in [Sessions -> [live : BOOLEAN, acct : Fl!Bindings, window : Seq(Nat)]]
  <2>1. CASE UNCHANGED flRun
    BY <2>1 DEF FlInv, WindowsTrue, Fl!TypeOK
  <2> QED
    BY <1>3, <2>1, RunsStay DEF Fl!Bindings
<1>5. flRow' \in [Sessions -> [acct : Fl!Bindings, state : {"none", "running", "ended"}]]
  <2>1. \/ UNCHANGED flRow
        \/ flRow' = [flRow EXCEPT ![s].state = "ended"]
        \/ \E kept \in Fl!Bindings : flRow' = [flRow EXCEPT ![s] = [acct |-> kept, state |-> "running"]]
    BY DEF Fl!SwitchTo, Fl!Stopped, FlInv, Fl!TypeOK
  <2>2. flRow \in [Sessions -> [acct : Fl!Bindings, state : {"none", "running", "ended"}]]
    BY DEF FlInv, Fl!TypeOK
  <2>3. CASE flRow' = [flRow EXCEPT ![s].state = "ended"]
    BY <2>2, <2>3
  <2>4. ASSUME NEW kept \in Fl!Bindings, flRow' = [flRow EXCEPT ![s] = [acct |-> kept, state |-> "running"]]
        PROVE  flRow' \in [Sessions -> [acct : Fl!Bindings, state : {"none", "running", "ended"}]]
    BY <2>2, <2>4
  <2> QED
    BY <2>1, <2>2, <2>3, <2>4
<1> QED
  BY <1>2, <1>4, <1>5 DEF FlInv, Fl!TypeOK

LEMMA HourPassesKeeps == ASSUME FlConstants, FlInv, Fl!HourPasses PROVE FlInv'
<1>1. flNow \in Nat /\ flNow' = flNow + 1 /\ UNCHANGED <<flLimit, flUntil, flRow, flRun, flCalls, flHits, flStale>>
  BY DEF Fl!HourPasses, FlInv, Fl!TypeOK
<1>2. \A a \in Accounts : Fl!Throttled(a)' => Fl!Throttled(a)
  BY <1>1 DEF Fl!Throttled, FlInv, Fl!TypeOK
<1>3. CallsTrue'
  BY <1>1, <1>2 DEF FlInv, CallsTrue, CallTrue
<1>4. LimitsNear'
  BY <1>1 DEF FlInv, LimitsNear, FlConstants, Fl!TypeOK
<1> QED
  BY <1>1, <1>3, <1>4 DEF FlInv, Fl!TypeOK, WindowsTrue, MarksTrue

(* A limit that is reached anew ends later than the one before.            *)
LEMMA BannerPrintedKeeps == ASSUME FlConstants, FlInv, NEW s \in Sessions, Fl!BannerPrinted(s) PROVE FlInv'
<1> DEFINE a == flRun[s].acct
<1>1. /\ a \in Fl!Bindings /\ flNow \in Nat /\ flLimit \in [Fl!Bindings -> Nat] /\ flUntil \in [Accounts -> Nat]
      /\ flRun \in [Sessions -> [live : BOOLEAN, acct : Fl!Bindings, window : Seq(Nat)]]
  BY DEF FlInv, Fl!TypeOK
<1>2. /\ flRun' = [flRun EXCEPT ![s].window = Append(@, flLimit'[a])]
      /\ UNCHANGED <<flNow, flUntil, flRow, flCalls, flStale>>
  BY DEF Fl!BannerPrinted
<1>3. /\ flLimit' \in [Fl!Bindings -> Nat] /\ flLimit'[a] \in Nat /\ flLimit'[a] <= flNow + Day
      /\ \A b \in Fl!Bindings : flLimit[b] <= flLimit'[b] /\ flLimit'[b] <= flNow + Day
  <2>1. \A b \in Fl!Bindings : flLimit[b] <= flNow + Day
    BY DEF FlInv, LimitsNear
  <2>2. \/ flLimit' = flLimit
        \/ flLimit[a] <= flNow /\ \E h \in Lengths : flLimit' = [flLimit EXCEPT ![a] = flNow + h]
    BY DEF Fl!BannerPrinted
  <2>3. CASE flLimit' = flLimit
    BY <1>1, <2>1, <2>3
  <2>4. ASSUME flLimit[a] <= flNow, NEW h \in Lengths, flLimit' = [flLimit EXCEPT ![a] = flNow + h]
        PROVE  /\ flLimit' \in [Fl!Bindings -> Nat] /\ flLimit'[a] \in Nat /\ flLimit'[a] <= flNow + Day
               /\ \A b \in Fl!Bindings : flLimit[b] <= flLimit'[b] /\ flLimit'[b] <= flNow + Day
    <3>1. h \in 1..Day /\ Day \in Nat
      BY DEF FlConstants
    <3> QED
      BY <1>1, <2>1, <2>4, <3>1
  <2> QED
    BY <2>2, <2>3, <2>4
<1>4. WindowsTrue'
  <2> SUFFICES ASSUME NEW x \in Sessions, NEW i \in 1..Len(flRun'[x].window)
               PROVE  flRun'[x].window[i] <= flLimit'[flRun'[x].acct]
    BY DEF WindowsTrue
  <2>1. flRun'[x].acct = flRun[x].acct /\ flRun[x].acct \in Fl!Bindings
    BY <1>1, <1>2
  <2>2. CASE x = s
    <3>1. flRun'[s].window = Append(flRun[s].window, flLimit'[a]) /\ flRun[s].window \in Seq(Nat)
      BY <1>1, <1>2
    <3>2. CASE i = Len(flRun[s].window) + 1
      BY <1>3, <2>1, <2>2, <3>1, <3>2
    <3>3. CASE i # Len(flRun[s].window) + 1
      <4>1. i \in 1..Len(flRun[s].window) /\ flRun'[s].window[i] = flRun[s].window[i] /\ flRun[s].window[i] \in Nat
        BY <2>2, <3>1, <3>3
      <4> QED
        BY <1>1, <1>3, <2>1, <2>2, <4>1 DEF FlInv, WindowsTrue
    <3> QED
      BY <3>2, <3>3
  <2>3. CASE x # s
    <3>1. flRun'[x] = flRun[x] /\ flRun[x].window[i] \in Nat
      BY <1>1, <1>2, <2>3
    <3> QED
      BY <1>1, <1>3, <2>1, <3>1 DEF FlInv, WindowsTrue
  <2> QED
    BY <2>2, <2>3
<1>5. CallsTrue'
  <2>1. flCalls \subseteq Fl!Call
    BY DEF FlInv, Fl!TypeOK
  <2>2. \A c \in flCalls : c.acct \in Fl!Bindings /\ c.reset \in Nat
    BY <2>1 DEF Fl!Call, Fl!Bindings
  <2> QED
    BY <1>1, <1>2, <1>3, <2>2 DEF FlInv, CallsTrue, CallTrue, Fl!Throttled
<1>6. MarksTrue' /\ LimitsNear'
  BY <1>1, <1>2, <1>3 DEF FlInv, MarksTrue, LimitsNear, Fl!Bindings, FlConstants
<1>7. Fl!TypeOK'
  <2>1. flHits' \in Nat
    BY DEF Fl!BannerPrinted, FlInv, Fl!TypeOK
  <2>2. flRun' \in [Sessions -> [live : BOOLEAN, acct : Fl!Bindings, window : Seq(Nat)]]
    <3>1. flRun[s].window \in Seq(Nat) /\ Append(flRun[s].window, flLimit'[a]) \in Seq(Nat)
      BY <1>1, <1>3
    <3> QED
      BY <1>1, <1>2, <3>1
  <2> QED
    BY <1>2, <1>3, <2>1, <2>2 DEF FlInv, Fl!TypeOK
<1> QED
  BY <1>4, <1>5, <1>6, <1>7 DEF FlInv

LEMMA WindowSlidesKeeps == ASSUME FlConstants, FlInv, NEW s \in Sessions, Fl!WindowSlides(s) PROVE FlInv'
<1>1. /\ flRun \in [Sessions -> [live : BOOLEAN, acct : Fl!Bindings, window : Seq(Nat)]]
      /\ flRun[s].window # <<>> /\ flRun' = [flRun EXCEPT ![s].window = Tail(@)]
      /\ UNCHANGED <<flNow, flLimit, flHits, flUntil, flRow, flCalls, flStale>>
  BY DEF FlInv, Fl!TypeOK, Fl!WindowSlides, Fl!provider
<1>2. CallsTrue' /\ MarksTrue' /\ LimitsNear' /\ flCalls' \subseteq Fl!Call
  BY <1>1, CallsStay
<1>3. WindowsTrue' /\ flRun' \in [Sessions -> [live : BOOLEAN, acct : Fl!Bindings, window : Seq(Nat)]]
  <2> DEFINE w == flRun[s].window
  <2>1. w \in Seq(Nat) /\ Tail(w) \in Seq(Nat) /\ Len(Tail(w)) = Len(w) - 1
        /\ \A i \in 1..Len(Tail(w)) : Tail(w)[i] = w[i + 1] /\ i + 1 \in 1..Len(w)
    BY <1>1
  <2>2. \A x \in Sessions : flRun'[x].acct = flRun[x].acct /\ flRun'[x].window = IF x = s THEN Tail(w) ELSE flRun[x].window
    BY <1>1
  <2>3. flRun' \in [Sessions -> [live : BOOLEAN, acct : Fl!Bindings, window : Seq(Nat)]]
    BY <1>1, <2>1
  <2>4. WindowsTrue'
    <3> SUFFICES ASSUME NEW x \in Sessions, NEW i \in 1..Len(flRun'[x].window)
                 PROVE  flRun'[x].window[i] <= flLimit[flRun[x].acct]
      BY <1>1, <2>2 DEF WindowsTrue
    <3> HIDE DEF w
    <3>1. CASE x = s
      <4>1. i + 1 \in 1..Len(w) /\ flRun'[x].window[i] = w[i + 1]
        BY <2>1, <2>2, <3>1
      <4> QED
        BY <3>1, <4>1 DEF w, FlInv, WindowsTrue
    <3>2. CASE x # s
      BY <2>2, <3>2 DEF FlInv, WindowsTrue
    <3> QED
      BY <3>1, <3>2
  <2> QED
    BY <2>3, <2>4
<1> QED
  BY <1>1, <1>2, <1>3 DEF FlInv, Fl!TypeOK

(* The banner's hour is its provider's, unless it has come already.        *)
LEMMA ScanKeeps == ASSUME FlConstants, FlInv, NEW s \in Sessions, Fl!Scan(s) PROVE FlInv'
<1> DEFINE a == flRun[s].acct
           hour == Head(flRun[s].window)
<1>0. PICK c : c = [sess |-> s, own |-> TRUE, acct |-> a, reset |-> Fl!ParseResetTime(hour % Day),
                    pc |-> "found", excluded |-> {}, to |-> 0, late |-> {}]
  OBVIOUS
<1>1. /\ flRun[s] \in [live : BOOLEAN, acct : Fl!Bindings, window : Seq(Nat)] /\ flRun[s].window # <<>> /\ a # 0
      /\ flNow \in Nat /\ flLimit \in [Fl!Bindings -> Nat] /\ flUntil \in [Accounts -> Nat]
      /\ flCalls' = flCalls \union {c} /\ flStale' = (IF hour <= flNow THEN flStale \union {a} ELSE flStale)
      /\ UNCHANGED <<flNow, flLimit, flHits, flUntil, flRow, flRun>>
  BY <1>0 DEF FlInv, Fl!TypeOK, Fl!Scan, Fl!provider
<1>2. a \in Accounts /\ a \in Fl!Bindings /\ hour \in Nat /\ hour = flRun[s].window[1] /\ 1 \in 1..Len(flRun[s].window)
  BY <1>1 DEF Fl!Bindings
<1>3. hour <= flLimit[a] /\ flLimit[a] <= flNow + Day /\ flLimit[a] \in Nat
  BY <1>1, <1>2 DEF FlInv, WindowsTrue, LimitsNear
<1>4. c.reset \in Nat
  <2>1. hour % Day \in Nat /\ flNow % Day \in Nat /\ flNow % Day <= flNow
    BY <1>1, <1>2, Remainder DEF FlConstants
  <2> QED
    BY <1>0, <1>1, <2>1 DEF Fl!ParseResetTime, FlConstants
<1>5. c.acct \in flStale' \/ c.reset <= flLimit[c.acct]
  <2>1. CASE hour <= flNow
    BY <1>0, <1>1, <2>1
  <2>2. CASE flNow < hour
    <3>1. hour <= flNow + Day /\ Day \in Nat \ {0}
      BY <1>1, <1>2, <1>3 DEF FlConstants
    <3>2. c.reset = hour
      BY <1>0, <1>1, <1>2, <2>2, <3>1, SameHour DEF Fl!ParseResetTime
    <3> QED
      BY <1>0, <1>3, <3>2
  <2> QED
    BY <1>1, <1>2, <2>1, <2>2
<1>6. flStale \subseteq flStale' /\ flStale' \subseteq Accounts
  BY <1>1, <1>2 DEF FlInv, Fl!TypeOK
<1>7. c \in Fl!Call /\ CallTrue(c)'
  <2> HIDE DEF hour
  <2> QED
    BY <1>0, <1>1, <1>2, <1>4, <1>5 DEF Fl!Call, CallTrue, Fl!Bindings
<1>8. CallsTrue' /\ flCalls' \subseteq Fl!Call
  BY <1>1, <1>6, <1>7 DEF FlInv, Fl!TypeOK, CallsTrue, CallTrue, Fl!Throttled
<1> QED
  BY <1>1, <1>6, <1>8 DEF FlInv, Fl!TypeOK, WindowsTrue, LimitsNear, MarksTrue

(* A mark is at most the limit; calls beyond their listing note it.        *)
LEMMA MarkKeeps == ASSUME FlConstants, FlInv, NEW c \in flCalls, Fl!Mark(c) PROVE FlInv'
<1> DEFINE D(d) == [d EXCEPT !.late = IF d.pc \in {"listed", "picked"} THEN @ \union {c.acct} ELSE @]
<1>1. /\ c \in Fl!Call /\ flCalls \subseteq Fl!Call /\ flUntil \in [Accounts -> Nat] /\ flLimit \in [Fl!Bindings -> Nat] /\ flNow \in Nat
      /\ c.pc = "found" /\ flUntil' = [flUntil EXCEPT ![c.acct] = IF @ > c.reset THEN @ ELSE c.reset]
      /\ flCalls' = {D(d) : d \in flCalls \ {c}} \union {[c EXCEPT !.pc = "marked"]}
      /\ UNCHANGED <<flNow, flLimit, flHits, flRow, flRun, flStale>>
  BY DEF FlInv, Fl!TypeOK, Fl!Mark, Fl!MarkThrottled, Fl!provider
<1>2. c.acct \in Accounts /\ c.reset \in Nat /\ flUntil' \in [Accounts -> Nat]
  BY <1>1 DEF Fl!Call
<1>3. MarksTrue'
  BY <1>1, <1>2 DEF FlInv, MarksTrue, CallsTrue, CallTrue, Fl!Bindings
<1>4. \A b \in Accounts : b # c.acct => (Fl!Throttled(b)' <=> Fl!Throttled(b))
  BY <1>1, <1>2 DEF Fl!Throttled
<1>5. ASSUME NEW x \in flCalls' PROVE x \in Fl!Call /\ CallTrue(x)'
  <2>1. CASE x = [c EXCEPT !.pc = "marked"]
    BY <1>1, <2>1 DEF Fl!Call, CallTrue
  <2>2. ASSUME NEW d \in flCalls, x = D(d) PROVE x \in Fl!Call /\ CallTrue(x)'
    <3>1. d \in Fl!Call /\ CallTrue(d)
      BY <1>1 DEF FlInv, CallsTrue
    <3>2. /\ x \in Fl!Call /\ x.pc = d.pc /\ x.acct = d.acct /\ x.reset = d.reset /\ x.to = d.to /\ x.excluded = d.excluded
          /\ x.pc \in {"listed", "picked"} => x.late = d.late \union {c.acct}
      BY <1>2, <2>2, <3>1 DEF Fl!Call
    <3> QED
      BY <1>1, <1>4, <3>1, <3>2 DEF CallTrue
  <2> QED
    BY <1>1, <2>1, <2>2
<1> QED
  BY <1>1, <1>2, <1>3, <1>5 DEF FlInv, Fl!TypeOK, CallsTrue, WindowsTrue, LimitsNear

LEMMA ListThrottledKeeps == ASSUME FlConstants, FlInv, NEW c \in flCalls, Fl!ListThrottled(c) PROVE FlInv'
<1>0. PICK d : d = [c EXCEPT !.pc = "listed", !.excluded = Fl!Excluded(c.acct)]
  OBVIOUS
<1>1. /\ c \in Fl!Call /\ flCalls \subseteq Fl!Call /\ flCalls' \subseteq flCalls \union {d}
      /\ UNCHANGED <<flNow, flLimit, flHits, flUntil, flRow, flRun, flStale>>
  BY <1>0 DEF FlInv, Fl!TypeOK, Fl!ListThrottled, Fl!Returns, Fl!Continues, Fl!provider
<1>2. d \in Fl!Call /\ CallTrue(d)'
  BY <1>0, <1>1 DEF Fl!Call, Fl!Excluded, CallTrue, Fl!Throttled
<1>3. CallsTrue' /\ flCalls' \subseteq Fl!Call
  BY <1>1, <1>2 DEF FlInv, CallsTrue, CallTrue, Fl!Throttled
<1> QED
  BY <1>1, <1>3 DEF FlInv, Fl!TypeOK, WindowsTrue, LimitsNear, MarksTrue

LEMMA PickLeastLoadedKeeps == ASSUME FlConstants, FlInv, NEW c \in flCalls, Fl!PickLeastLoaded(c) PROVE FlInv'
<1>1. PICK a \in Accounts : /\ Fl!LeastLoaded(a, Accounts \ c.excluded) /\ c.pc = "listed"
                            /\ Fl!Continues(c, [c EXCEPT !.pc = "picked", !.to = a])
  BY DEF Fl!PickLeastLoaded
<1> DEFINE d == [c EXCEPT !.pc = "picked", !.to = a]
<1>2. /\ c \in Fl!Call /\ flCalls \subseteq Fl!Call /\ flCalls' \subseteq flCalls \union {d}
      /\ UNCHANGED <<flNow, flLimit, flHits, flUntil, flRow, flRun, flStale>>
  BY <1>1 DEF FlInv, Fl!TypeOK, Fl!PickLeastLoaded, Fl!Continues, Fl!provider
<1>3. a \in Accounts \ c.excluded
  BY <1>1 DEF Fl!LeastLoaded
<1>4. d \in Fl!Call /\ CallTrue(d)'
  BY <1>1, <1>2, <1>3 DEF Fl!Call, CallTrue, CallsTrue, FlInv, Fl!Throttled, Fl!Bindings
<1> HIDE DEF d
<1>5. CallsTrue' /\ flCalls' \subseteq Fl!Call
  BY <1>2, <1>4 DEF FlInv, CallsTrue, CallTrue, Fl!Throttled
<1> QED
  BY <1>2, <1>5 DEF FlInv, Fl!TypeOK, WindowsTrue, LimitsNear, MarksTrue

LEMMA GiveUpKeeps == ASSUME FlConstants, FlInv, NEW c \in flCalls, Fl!GiveUp(c) PROVE FlInv'
<1>1. flCalls' \subseteq flCalls /\ UNCHANGED <<flNow, flLimit, flHits, flUntil, flRow, flRun, flStale>>
  BY DEF Fl!GiveUp, Fl!Returns, Fl!provider
<1> QED
  BY <1>1 DEF FlInv, Fl!TypeOK, WindowsTrue, LimitsNear, MarksTrue, CallsTrue, CallTrue, Fl!Throttled

LEMMA SwitchKeeps ==
    ASSUME FlConstants, FlInv,
           \/ \E c \in flCalls : Fl!SwitchAccount(c)
           \/ \E s \in Sessions, a \in Fl!Bindings : Fl!OperatorSwitches(s, a)
    PROVE  FlInv'
<1>1. ASSUME NEW c \in flCalls, Fl!SwitchAccount(c) PROVE FlInv'
  <2>1. c \in Fl!Call /\ c.sess \in Sessions /\ c.to \in Fl!Bindings
    BY DEF FlInv, Fl!TypeOK, Fl!Call
  <2>2. Fl!SwitchTo(c.sess, c.to, flCalls \ {c}) /\ UNCHANGED <<flNow, flLimit, flHits, flUntil, flStale>>
    BY <1>1 DEF Fl!SwitchAccount, Fl!provider
  <2> QED
    BY <2>1, <2>2, SwitchToKeeps
<1>2. ASSUME NEW s \in Sessions, NEW a \in Fl!Bindings, Fl!OperatorSwitches(s, a) PROVE FlInv'
  <2>1. Fl!SwitchTo(s, a, flCalls) /\ UNCHANGED <<flNow, flLimit, flHits, flUntil, flStale>>
    BY <1>2 DEF Fl!OperatorSwitches, Fl!provider
  <2> QED
    BY <2>1, SwitchToKeeps
<1> QED
  BY <1>1, <1>2

LEMMA RestartsKeep == ASSUME FlConstants, FlInv, Fl!GatewayRestarts PROVE FlInv'
<1>1. /\ flUntil' = [a \in Accounts |-> 0] /\ flCalls' = {} /\ flRun' = [s \in Sessions |-> Fl!NoRun]
      /\ UNCHANGED <<flNow, flLimit, flHits, flStale>>
      /\ flRow' \in [Sessions -> [acct : Fl!Bindings, state : {"none", "running", "ended"}]]
  BY DEF Fl!GatewayRestarts, Fl!provider, FlInv, Fl!TypeOK
<1> QED
  BY <1>1 DEF FlInv, Fl!TypeOK, WindowsTrue, LimitsNear, MarksTrue, CallsTrue, Fl!NoRun, Fl!Bindings

LEMMA FlNext == ASSUME FlConstants, FlInv, [Fl!Next]_Fl!vars PROVE FlInv'
<1>1. CASE UNCHANGED Fl!vars
  BY <1>1 DEF Fl!vars, FlInv, Fl!TypeOK, WindowsTrue, LimitsNear, MarksTrue, CallsTrue, CallTrue, Fl!Throttled
<1>2. ASSUME NEW s \in Sessions, Fl!SessionStep(s) PROVE FlInv'
  BY <1>2, StartKeeps, RunEndsKeeps, BannerPrintedKeeps, WindowSlidesKeeps, ScanKeeps, CreateKeeps, SwitchKeeps
     DEF Fl!SessionStep
<1>3. ASSUME NEW c \in flCalls, Fl!CallStep(c) PROVE FlInv'
  BY <1>3, MarkKeeps, ListThrottledKeeps, PickLeastLoadedKeeps, GiveUpKeeps, SwitchKeeps DEF Fl!CallStep
<1>4. CASE Fl!Next
  BY <1>2, <1>3, <1>4, HourPassesKeeps, RestartsKeep DEF Fl!Next
<1> QED
  BY <1>1, <1>4

(* MarkThrottled and parseResetTime: an account is held back no longer     *)
(* than the provider refuses it, for any number of sessions and accounts   *)
(* and any interleaving of their scans, marks, switches and restarts.      *)
THEOREM HeldNoLonger == ASSUME FlConstants PROVE Fl!Spec => []Fl!HeldOnlyWhileLimited
<1>1. FlInv => Fl!HeldOnlyWhileLimited
  BY DEF FlInv, MarksTrue, Fl!HeldOnlyWhileLimited
<1>2. FlInv /\ [Fl!Next]_Fl!vars => FlInv'
  BY FlNext
<1>3. Fl!Init => FlInv
  BY FlInit
<1> QED
  BY <1>1, <1>2, <1>3, PTL DEF Fl!Spec

(* ThrottleStore.MarkThrottled: no step but a restart shortens a mark.     *)
THEOREM MarksOnlyGrow == ASSUME FlConstants PROVE Fl!Spec => Fl!NeverShortened
<1>1. FlInv /\ [Fl!Next]_Fl!vars => Fl!NeverShortenedStep
  <2> SUFFICES ASSUME FlInv, [Fl!Next]_Fl!vars, ~Fl!GatewayRestarts, NEW a \in Accounts PROVE flUntil'[a] >= flUntil[a]
    BY DEF Fl!NeverShortenedStep
  <2>1. flUntil \in [Accounts -> Nat] /\ flCalls \subseteq Fl!Call
    BY DEF FlInv, Fl!TypeOK
  <2>2. ASSUME NEW c \in flCalls, Fl!Mark(c) PROVE flUntil'[a] >= flUntil[a]
    <3>1. c.reset \in Nat /\ c.acct \in Accounts
      BY <2>1 DEF Fl!Call
    <3> QED
      BY <2>1, <2>2, <3>1 DEF Fl!Mark, Fl!MarkThrottled
  <2>3. (\E c \in flCalls : Fl!Mark(c)) \/ UNCHANGED flUntil
    BY DEF Fl!Next, Fl!vars, Fl!HourPasses, Fl!SessionStep, Fl!CallStep, Fl!Start, Fl!RunEnds, Fl!BannerPrinted,
           Fl!WindowSlides, Fl!Scan, Fl!Create, Fl!OperatorSwitches, Fl!ListThrottled, Fl!PickLeastLoaded, Fl!GiveUp,
           Fl!SwitchAccount
  <2> QED
    BY <2>1, <2>2, <2>3
<1>2. FlInv /\ [Fl!Next]_Fl!vars => FlInv'
  BY FlNext
<1>3. Fl!Init => FlInv
  BY FlInit
<1> QED
  BY <1>1, <1>2, <1>3, PTL DEF Fl!Spec, Fl!NeverShortened

(* pickClaudeAccount and SwitchClaudeAccount: a failover leads to an       *)
(* account that is free, or that was marked after the listing.             *)
THEOREM FailoverFindsFree == ASSUME FlConstants PROVE Fl!Spec => Fl!MovesToFree
<1>1. FlInv => Fl!MovesToFreeStep
  BY DEF FlInv, CallsTrue, CallTrue, Fl!MovesToFreeStep, Fl!SwitchAccount
<1>2. FlInv /\ [Fl!Next]_Fl!vars => FlInv'
  BY FlNext
<1>3. Fl!Init => FlInv
  BY FlInit
<1> QED
  BY <1>1, <1>2, <1>3, PTL DEF Fl!Spec, Fl!MovesToFree

-----------------------------------------------------------------------------
(***************************************************************************)
(* Keeping the machine awake while requests are served.                    *)
(***************************************************************************)

(* A poll can fall into the recent window of a request that has left.      *)
KaConstants == Recent \in Nat /\ Recent >= 2 /\ Linger \in Nat

Inflight == {r \in Requests : kaReq[r] \in {"serving", "left"}}

KaTyped ==
    /\ kaReq \in [Requests -> {"none", "serving", "left", "done"}]
    /\ kaLast \in Nat /\ kaLast <= Recent /\ kaIdle \in Nat /\ kaIdle <= Linger /\ kaQuiet \in Nat

(* The count is that of the requests, and without one being served the     *)
(* stored time is not older than the last use.                             *)
UseCounted ==
    /\ IsFiniteSet(Inflight) /\ kaCount = Cardinality(Inflight)
    /\ (\A r \in Requests : kaReq[r] # "serving") => kaLast <= kaQuiet

(* While it lingers, there was use since the last poll, or none for as     *)
(* long as the polls say.                                                  *)
LingerCounted ==
    (kaPc = "holding" /\ kaIdle > 0)
      => \/ \E r \in Requests : kaReq[r] = "serving"
         \/ kaLast = 0
         \/ Inflight = {} /\ kaQuiet >= kaIdle + (Recent - 1)

HelperHeld == kaPc \in {"check", "waiting", "ended"} => kaSup \in {"none", "stopped", "gaveUp"}

KaInv == KaTyped /\ UseCounted /\ LingerCounted /\ HelperHeld

LEMMA KaInit == ASSUME KaConstants, Ka!Init PROVE KaInv
<1>1. Inflight = {}
  BY DEF Ka!Init, Inflight
<1> QED
  BY <1>1, FS_EmptySet DEF KaConstants, Ka!Init, KaInv, KaTyped, UseCounted, LingerCounted, HelperHeld

LEMMA RequestBeginsKeeps == ASSUME KaConstants, KaInv, NEW r \in Requests, Ka!RequestBegins(r) PROVE KaInv'
<1>1. /\ kaReq[r] = "none" /\ kaReq' = [kaReq EXCEPT ![r] = "serving"] /\ kaCount' = kaCount + 1 /\ kaQuiet' = 0
      /\ kaReq \in [Requests -> {"none", "serving", "left", "done"}]
      /\ UNCHANGED <<kaMode, kaLast, kaPc, kaSup, kaCancelled, kaFails, kaIdle, kaCtx>>
  BY DEF Ka!RequestBegins, KaInv, KaTyped, Ka!superVars
<1>2. Inflight' = Inflight \union {r} /\ r \notin Inflight
  BY <1>1 DEF Inflight
<1>3. IsFiniteSet(Inflight') /\ kaCount' = Cardinality(Inflight')
  BY <1>1, <1>2, FS_AddElement DEF KaInv, UseCounted
<1>4. kaReq'[r] = "serving"
  BY <1>1
<1> QED
  BY <1>1, <1>3, <1>4 DEF KaInv, KaTyped, UseCounted, LingerCounted, HelperHeld

LEMMA RequestLeavesKeeps == ASSUME KaConstants, KaInv, NEW r \in Requests, Ka!RequestLeaves(r) PROVE KaInv'
<1>1. /\ kaReq[r] = "serving" /\ kaReq' = [kaReq EXCEPT ![r] = "left"] /\ kaLast' = 0 /\ kaQuiet' = 0
      /\ kaReq \in [Requests -> {"none", "serving", "left", "done"}]
      /\ UNCHANGED <<kaMode, kaCount, kaPc, kaSup, kaCancelled, kaFails, kaIdle, kaCtx>>
  BY DEF Ka!RequestLeaves, Ka!Store, Ka!ExitStores, KaInv, KaTyped, Ka!superVars
<1>2. Inflight' = Inflight
  BY <1>1 DEF Inflight
<1>3. KaTyped'
  BY <1>1 DEF KaInv, KaTyped, KaConstants
<1>4. LingerCounted' /\ HelperHeld'
  BY <1>1 DEF KaInv, LingerCounted, HelperHeld
<1> QED
  BY <1>1, <1>2, <1>3, <1>4 DEF KaInv, KaTyped, UseCounted

LEMMA RequestEndsKeeps == ASSUME KaConstants, KaInv, NEW r \in Requests, Ka!RequestEnds(r) PROVE KaInv'
<1>1. /\ kaReq[r] = "left" /\ kaReq' = [kaReq EXCEPT ![r] = "done"] /\ kaCount' = kaCount - 1
      /\ kaReq \in [Requests -> {"none", "serving", "left", "done"}]
      /\ UNCHANGED <<kaMode, kaLast, kaQuiet, kaPc, kaSup, kaCancelled, kaFails, kaIdle, kaCtx>>
  BY DEF Ka!RequestEnds, Ka!Store, Ka!ExitStores, KaInv, KaTyped, Ka!superVars
<1>2. Inflight' = Inflight \ {r} /\ r \in Inflight
  BY <1>1 DEF Inflight
<1>3. IsFiniteSet(Inflight') /\ kaCount' = Cardinality(Inflight')
  BY <1>1, <1>2, FS_RemoveElement DEF KaInv, UseCounted
<1>4. \A q \in Requests : kaReq'[q] = "serving" <=> kaReq[q] = "serving"
  BY <1>1
<1> QED
  BY <1>1, <1>2, <1>3, <1>4 DEF KaInv, KaTyped, UseCounted, LingerCounted, HelperHeld

(* What a poll makes of the time that passes.                              *)
LEMMA TimePassesKeeps ==
    ASSUME KaConstants, KaInv, Ka!TimePasses
    PROVE  /\ kaLast' \in Nat /\ kaLast' <= Recent /\ kaQuiet' \in Nat /\ UNCHANGED <<kaReq, kaCount, Inflight>>
           /\ UseCounted'
           /\ (kaCount = 0 /\ kaLast' >= Recent)
                => /\ kaQuiet' >= Recent
                   /\ (kaPc = "holding" /\ kaIdle > 0 /\ kaIdle < Linger) => kaQuiet' >= kaIdle + Recent
                   /\ (kaPc = "holding" /\ kaIdle = Linger) => kaQuiet' >= Linger
<1>1. /\ kaLast' = (IF kaLast < Recent THEN kaLast + 1 ELSE kaLast) /\ UNCHANGED <<kaReq, kaCount>>
      /\ kaQuiet' = IF \E r \in Requests : kaReq[r] = "serving" THEN 0
                    ELSE IF kaQuiet < Recent + Linger THEN kaQuiet + 1 ELSE kaQuiet
  BY DEF Ka!TimePasses, Ka!Capped
<1>2. kaLast \in Nat /\ kaLast <= Recent /\ kaIdle \in Nat /\ kaIdle <= Linger /\ kaQuiet \in Nat
  BY DEF KaInv, KaTyped
<1>3. UNCHANGED Inflight
  BY <1>1 DEF Inflight
<1>4. (\A r \in Requests : kaReq[r] # "serving") => kaLast' <= kaQuiet'
  BY <1>1, <1>2 DEF KaInv, UseCounted, KaConstants
<1>5. ASSUME kaCount = 0, kaLast' >= Recent
      PROVE  /\ kaQuiet' >= Recent
             /\ (kaPc = "holding" /\ kaIdle > 0 /\ kaIdle < Linger) => kaQuiet' >= kaIdle + Recent
             /\ (kaPc = "holding" /\ kaIdle = Linger) => kaQuiet' >= Linger
  <2>1. Inflight = {}
    BY <1>5, FS_EmptySet DEF KaInv, UseCounted
  <2>2. \A r \in Requests : kaReq[r] # "serving"
    BY <2>1 DEF Inflight
  <2>3. kaLast # 0
    BY <1>1, <1>2, <1>5 DEF KaConstants
  <2>4. (kaPc = "holding" /\ kaIdle > 0) => kaQuiet >= kaIdle + (Recent - 1)
    BY <2>2, <2>3 DEF KaInv, LingerCounted
  <2>5. kaQuiet' = IF kaQuiet < Recent + Linger THEN kaQuiet + 1 ELSE kaQuiet
    BY <1>1, <2>2
  <2> QED
    BY <1>1, <1>2, <1>4, <1>5, <2>2, <2>4, <2>5 DEF KaConstants
<1> QED
  BY <1>1, <1>2, <1>3, <1>4, <1>5 DEF KaInv, UseCounted, KaConstants

LEMMA WaitPollKeeps == ASSUME KaConstants, KaInv, Ka!WaitPoll PROVE KaInv'
<1>1. Ka!TimePasses /\ kaPc = "waiting"
      /\ (UNCHANGED <<kaPc, kaSup, kaIdle>> \/ (kaPc' = "holding" /\ kaIdle' = 0))
  <2>1. Ka!BeginHold \/ UNCHANGED <<kaPc, Ka!superVars, kaIdle>>
    BY DEF Ka!WaitPoll
  <2>2. Ka!TimePasses /\ kaPc = "waiting"
    BY DEF Ka!WaitPoll
  <2>3. UNCHANGED <<kaPc, kaSup, kaIdle>> \/ (kaPc' = "holding" /\ kaIdle' = 0)
    <3>1. CASE Ka!BeginHold
      BY <3>1 DEF Ka!BeginHold
    <3>2. CASE UNCHANGED <<kaPc, Ka!superVars, kaIdle>>
      <4>1. kaPc' = kaPc /\ kaIdle' = kaIdle /\ UNCHANGED Ka!superVars
        BY <3>2
      <4> QED
        BY <4>1 DEF Ka!superVars
    <3> QED
      BY <2>1, <3>1, <3>2
  <2> QED
    BY <2>2, <2>3
<1> QED
  BY <1>1, TimePassesKeeps DEF KaInv, KaTyped, LingerCounted, HelperHeld, KaConstants

LEMMA HoldPollKeeps == ASSUME KaConstants, KaInv, Ka!HoldPoll PROVE KaInv'
<1>1. /\ Ka!TimePasses /\ kaPc = "holding" /\ UNCHANGED <<kaMode, kaSup, kaFails, kaCtx>>
      /\ LET active == kaCount > 0 \/ kaLast' < Recent IN
         \/ active /\ kaIdle' = 0 /\ UNCHANGED kaPc
         \/ ~active /\ kaIdle < Linger /\ kaIdle' = kaIdle + 1 /\ UNCHANGED kaPc
         \/ ~active /\ kaIdle >= Linger /\ kaPc' = "draining" /\ UNCHANGED kaIdle
  BY DEF Ka!HoldPoll
<1>2. kaIdle \in Nat /\ kaIdle <= Linger /\ kaCount \in Nat /\ (kaCount = 0 => Inflight = {})
  BY FS_CardinalityType, FS_EmptySet DEF KaInv, KaTyped, UseCounted
<1> QED
  BY <1>1, <1>2, TimePassesKeeps DEF KaInv, KaTyped, LingerCounted, HelperHeld, KaConstants

LEMMA OthersKeep ==
    ASSUME KaConstants, KaInv,
           \/ Ka!FirstLook \/ Ka!HoldCancelled \/ Ka!HoldEnds \/ Ka!AlwaysEnds \/ Ka!WaitCancelled
           \/ Ka!Supervisor \/ Ka!HelperExits \/ Ka!Shutdown
    PROVE  KaInv'
<1>1. /\ UNCHANGED <<kaReq, kaCount, kaLast, kaQuiet>>
      /\ UNCHANGED kaIdle \/ kaIdle' = 0
      /\ kaPc' = "holding" => UNCHANGED kaPc \/ kaIdle' = 0
  BY DEF Ka!FirstLook, Ka!HoldCancelled, Ka!HoldEnds, Ka!AlwaysEnds, Ka!WaitCancelled, Ka!Supervisor, Ka!HelperStarts,
         Ka!BackoffOver, Ka!HelperKilled, Ka!HelperExits, Ka!Shutdown, Ka!trackVars, Ka!superVars, Ka!BeginHold, Ka!AwaitSupervisor
<1>2. HelperHeld'
  BY DEF KaInv, HelperHeld, Ka!FirstLook, Ka!HoldCancelled, Ka!HoldEnds, Ka!AlwaysEnds, Ka!WaitCancelled, Ka!Supervisor, Ka!HelperStarts,
         Ka!BackoffOver, Ka!HelperKilled, Ka!HelperExits, Ka!Shutdown, Ka!trackVars, Ka!superVars, Ka!BeginHold, Ka!AwaitSupervisor
<1>3. UNCHANGED Inflight
  BY <1>1 DEF Inflight
<1> QED
  BY <1>1, <1>2, <1>3 DEF KaInv, KaTyped, UseCounted, LingerCounted, KaConstants

LEMMA KaNext == ASSUME KaConstants, KaInv, [Ka!Next]_Ka!vars PROVE KaInv'
<1>1. CASE UNCHANGED Ka!vars
  BY <1>1 DEF Ka!vars, KaInv, KaTyped, UseCounted, LingerCounted, HelperHeld, Inflight
<1>2. CASE Ka!Next
  BY <1>2, RequestBeginsKeeps, RequestLeavesKeeps, RequestEndsKeeps, WaitPollKeeps, HoldPollKeeps, OthersKeep
     DEF Ka!Next, Ka!Keeper
<1> QED
  BY <1>1, <1>2

(* Tracker.Wrap and Active: a request that is served, or was within the    *)
(* recent window, is seen as activity by every poll, for any number of     *)
(* requests.                                                               *)
THEOREM UseIsAlwaysSeen == ASSUME KaConstants PROVE Ka!Spec => []Ka!UseIsSeen
<1>1. KaInv => Ka!UseIsSeen
  <2> SUFFICES ASSUME KaInv, kaQuiet < Recent PROVE kaCount > 0 \/ kaLast < Recent
    BY DEF Ka!UseIsSeen, Ka!Active
  <2>1. CASE \E r \in Requests : kaReq[r] = "serving"
    <3>1. Inflight # {}
      BY <2>1 DEF Inflight
    <3> QED
      BY <3>1, FS_EmptySet, FS_CardinalityType DEF KaInv, UseCounted
  <2>2. CASE \A r \in Requests : kaReq[r] # "serving"
    BY <2>2 DEF KaInv, UseCounted, KaTyped, KaConstants
  <2> QED
    BY <2>1, <2>2
<1>2. KaInv /\ [Ka!Next]_Ka!vars => KaInv'
  BY KaNext
<1>3. Ka!Init => KaInv
  BY KaInit
<1> QED
  BY <1>1, <1>2, <1>3, PTL DEF Ka!Spec

(* holdWhileActive: the host is let go only after no request was served    *)
(* for the whole linger, whatever the requests do between two polls.       *)
THEOREM LingersFully == ASSUME KaConstants PROVE Ka!Spec => Ka!LingersAcrossGaps
<1>1. KaInv /\ [Ka!Next]_Ka!vars => Ka!LingersAcrossGapsStep
  <2> SUFFICES ASSUME KaInv, [Ka!Next]_Ka!vars, kaPc = "holding", kaPc' = "draining", ~kaCancelled PROVE kaQuiet' >= Linger
    BY DEF Ka!LingersAcrossGapsStep
  <2>1. Ka!HoldPoll
    BY DEF Ka!Next, Ka!vars, Ka!RequestBegins, Ka!RequestLeaves, Ka!RequestEnds, Ka!Keeper, Ka!FirstLook, Ka!WaitPoll,
           Ka!HoldCancelled, Ka!HoldEnds, Ka!AlwaysEnds, Ka!WaitCancelled, Ka!Supervisor, Ka!HelperStarts, Ka!BackoffOver,
           Ka!HelperKilled, Ka!HelperExits, Ka!Shutdown, Ka!BeginHold
  <2>2. Ka!TimePasses /\ ~(kaCount > 0 \/ kaLast' < Recent) /\ kaIdle >= Linger
    BY <2>1 DEF Ka!HoldPoll
  <2>3. kaCount \in Nat /\ kaIdle \in Nat /\ kaIdle <= Linger
    BY FS_CardinalityType DEF KaInv, KaTyped, UseCounted
  <2> QED
    BY <2>2, <2>3, TimePassesKeeps DEF KaConstants
<1>2. KaInv /\ [Ka!Next]_Ka!vars => KaInv'
  BY KaNext
<1>3. Ka!Init => KaInv
  BY KaInit
<1> QED
  BY <1>1, <1>2, <1>3, PTL DEF Ka!Spec, Ka!LingersAcrossGaps

(* runOnDemand: no helper of an earlier hold outlives it.                  *)
THEOREM HelperDoesNotStray == ASSUME KaConstants PROVE Ka!Spec => []Ka!NoStrayHelper
<1>1. KaInv => Ka!NoStrayHelper
  BY DEF KaInv, HelperHeld, Ka!NoStrayHelper
<1>2. KaInv /\ [Ka!Next]_Ka!vars => KaInv'
  BY KaNext
<1>3. Ka!Init => KaInv
  BY KaInit
<1> QED
  BY <1>1, <1>2, <1>3, PTL DEF Ka!Spec

-----------------------------------------------------------------------------
(***************************************************************************)
(* Self-update: requests, updaters and crashes around one binary.          *)
(***************************************************************************)

SuConstants == MaxVersion \in Nat /\ MaxAsks \in Nat /\ MaxCrashes \in Nat

SuRun == [pc : {"idle", "resolve", "download", "verify", "extract", "copy", "rename", "restart"}, own : Nat, v : Nat, good : BOOLEAN,
          force : BOOLEAN, restart : BOOLEAN, ino : Nat, live : SUBSET Sessions]
SuFile == [id : Nat, force : BOOLEAN, live : SUBSET Sessions, torn : BOOLEAN]
SuAsk == [pc : {"idle", "feed", "write"}, force : BOOLEAN, live : SUBSET Sessions]

SuTyped ==
    /\ suLatest \in Nat /\ suSums \in BOOLEAN /\ suLive \subseteq Sessions
    /\ suIn \in [Su!Inodes -> [v : Nat, whole : BOOLEAN, mixed : BOOLEAN]]
    /\ suTarget \in Su!Inodes /\ suNew \in Su!Inodes \union {0} /\ suNext \in Nat
    /\ suTarget < suNext /\ suNew < suNext /\ suNew # suTarget
    /\ suFile \subseteq SuFile /\ suAsks \in Nat
    /\ suReq \in [Admins -> SuAsk] /\ suUpd \in [Su!Updaters -> SuRun]
    /\ suRaced \in BOOLEAN /\ suShared \in BOOLEAN /\ suBlind \in BOOLEAN
    /\ suKept.target \in Su!Inodes /\ suKept.target < suNext /\ suKept.target # suNew
    /\ suKept = [target |-> suKept.target, file |-> suKept.file] /\ suKept.file \subseteq SuFile

(* Checked downloads: unless something was installed unchecked, what is    *)
(* extracted is good.                                                      *)
Checked == suBlind \/ \A u \in Su!Updaters : suUpd[u].pc \in {"extract", "copy"} => suUpd[u].good

Copying(u) == suUpd[u].pc \in {"copy", "rename"}
(* One updater copies, and what it renames is whole, as are the installed  *)
(* binary and the one whose name is on the disk.                           *)
CopiesAlone ==
    suShared \/
       /\ \A u, w \in Su!Updaters : (Copying(u) /\ Copying(w)) => u = w
       /\ \A u \in Su!Updaters : suUpd[u].pc = "copy" => (suUpd[u].ino = suNew /\ suNew # 0 /\ ~suIn[suNew].mixed)
       /\ \A u \in Su!Updaters : suUpd[u].pc = "rename" => (suNew # 0 /\ (suBlind \/ suIn[suNew].whole))
       /\ suBlind \/ "binary" \in suEarly \/ (suIn[suTarget].whole /\ suIn[suKept.target].whole)

(* What is installed or about to be, though two filled it, is damaged only *)
(* while one still fills it or if their contents were mixed.               *)
Filled(i) == suIn[i].whole \/ suIn[i].mixed \/ Su!Filling(i)
Sound == suBlind \/ "binary" \in suEarly \/
    /\ Filled(suTarget) /\ Filled(suKept.target)
    /\ suNew # 0 => Filled(suNew)

AllRead == suDone = {} \/ "request" \in suEarly

(* Unless two requests overlapped, none is checked while one is pending or *)
(* read, and what was accepted is in the file.                             *)
OneRequest ==
    /\ \A q, r \in suFile : q = r
    /\ \A q, r \in suKept.file : q = r
    /\ suRaced \/
          /\ \A a, b \in Admins : (suReq[a].pc # "idle" /\ suReq[b].pc # "idle") => a = b
          /\ (\E a \in Admins : suReq[a].pc # "idle") => suFile = {}
          /\ suUpd["unit"].pc # "idle" => (suFile # {} /\ AllRead)
    /\ Su!AcceptedIsRead

(* What was not forced was asked for with no live session.                 *)
Confirmed ==
    /\ \A a \in Admins : suReq[a].force \/ suReq[a].live = {}
    /\ \A q \in suFile \union suKept.file : q.force \/ q.live = {}
    /\ \A u \in Su!Updaters : suUpd[u].live = {}
    /\ Su!InterruptionConfirmed

SuInv == SuTyped /\ Checked /\ CopiesAlone /\ Sound /\ OneRequest /\ Confirmed

LEMMA SuInit == ASSUME SuConstants, Su!Init PROVE SuInv
<1>1. 1 \in Su!Inodes /\ {"unit", "hand"} = Su!Updaters /\ Su!Inodes \subseteq Nat
  BY DEF SuConstants, Su!Inodes, Su!Updaters
<1>2. suIn[1].whole /\ suIn \in [Su!Inodes -> [v : Nat, whole : BOOLEAN, mixed : BOOLEAN]]
  BY <1>1 DEF Su!Init
<1>3. SuTyped
  <2>1. suReq \in [Admins -> SuAsk] /\ suUpd \in [Su!Updaters -> SuRun]
    BY DEF Su!Init, SuRun, SuAsk, Su!NoRequest, Su!NoRun
  <2>2. /\ suTarget = 1 /\ suNew = 0 /\ suNext = 2 /\ suLatest = 1 /\ suSums \in BOOLEAN /\ suLive = {} /\ suFile = {} /\ suAsks = 0
        /\ suRaced = FALSE /\ suShared = FALSE /\ suBlind = FALSE
    BY DEF Su!Init
  <2>3. suRaced \in BOOLEAN /\ suShared \in BOOLEAN /\ suBlind \in BOOLEAN
    BY <2>2
  <2>4. suTarget \in Su!Inodes /\ suNew \in Su!Inodes \union {0} /\ suNext \in Nat /\ suTarget < suNext /\ suNew < suNext /\ suNew # suTarget
    BY <1>1, <2>2
  <2>5. suLatest \in Nat /\ suLive \subseteq Sessions /\ suAsks \in Nat /\ suFile \subseteq SuFile
    BY <2>2
  <2>6. suKept = [target |-> 1, file |-> {}]
    BY DEF Su!Init
  <2>7. suKept.target = 1 /\ suKept.file = {}
    BY <2>6
  <2>8. /\ suKept.target \in Su!Inodes /\ suKept.target < suNext /\ suKept.target # suNew
        /\ suKept = [target |-> suKept.target, file |-> suKept.file] /\ suKept.file \subseteq SuFile
    BY <1>1, <2>2, <2>6, <2>7
  <2> QED
    BY <1>2, <2>1, <2>2, <2>3, <2>4, <2>5, <2>8 DEF SuTyped
<1>4. suKept.target = 1 /\ suKept.file = {}
  BY DEF Su!Init
<1>5. Checked /\ OneRequest /\ Confirmed
  BY <1>1, <1>4 DEF Su!Init, Checked, OneRequest, Confirmed, Su!NoRequest, Su!NoRun, Su!AcceptedIsRead, Su!InterruptionConfirmed
<1>6. CopiesAlone /\ Sound
  BY <1>1, <1>2, <1>4 DEF Su!Init, CopiesAlone, Copying, Sound, Filled, Su!NoRun
<1> QED
  BY <1>3, <1>5, <1>6 DEF SuInv

(* Nothing of the disk and of the updaters is touched.                     *)
LEMMA DiskStands ==
    ASSUME SuInv, UNCHANGED <<suIn, suTarget, suNew, suNext, suKept, suEarly, suUpd, suShared, suBlind>>
    PROVE  Checked' /\ CopiesAlone' /\ Sound'
  BY DEF SuInv, Checked, CopiesAlone, Copying, Sound, Filled, Su!Filling

LEMMA WorldKeeps == ASSUME SuConstants, SuInv, Su!World PROVE SuInv'
<1>1. UNCHANGED <<suSums, suIn, suTarget, suNew, suNext, suKept, suEarly, suFile, suReq, suUpd, suAsks, suDone, suRaced, suShared, suBlind, suCut>>
  BY DEF Su!World, Su!disk, Su!past
<1>2. suLatest' \in Nat /\ suLive' \subseteq Sessions
  BY DEF Su!World, SuInv, SuTyped, SuConstants
<1>3. SuTyped' /\ OneRequest' /\ Confirmed'
  BY <1>1, <1>2 DEF SuInv, SuTyped, OneRequest, AllRead, Confirmed, Su!AcceptedIsRead, Su!InterruptionConfirmed
<1> QED
  BY <1>1, <1>3, DiskStands DEF SuInv

LEMMA RequestChecksKeeps == ASSUME SuConstants, SuInv, NEW a \in Admins, NEW force \in BOOLEAN, Su!RequestChecks(a, force) PROVE SuInv'
<1>1. /\ suReq[a].pc = "idle" /\ suFile = {} /\ (force \/ suLive = {}) /\ suAsks' = suAsks + 1
      /\ suReq' = [suReq EXCEPT ![a] = [pc |-> "feed", force |-> force, live |-> suLive]]
      /\ suRaced' = (suRaced \/ \E b \in Admins : suReq[b].pc # "idle")
      /\ UNCHANGED <<suLatest, suSums, suIn, suTarget, suNew, suNext, suKept, suEarly, suLive, suFile, suUpd, suDone, suShared, suBlind, suCut>>
  BY DEF Su!RequestChecks, Su!PendingRequest, Su!Drained, Su!disk, Su!world
<1>2. SuTyped'
  BY <1>1 DEF SuInv, SuTyped, SuAsk
<1>3. suReq'[a] = [pc |-> "feed", force |-> force, live |-> suLive] /\ \A b \in Admins \ {a} : suReq'[b] = suReq[b]
  BY <1>1 DEF SuInv, SuTyped
<1>4. OneRequest'
  <2>1. (\A q, r \in suFile' : q = r) /\ (\A q, r \in suKept'.file : q = r) /\ Su!AcceptedIsRead'
    BY <1>1 DEF SuInv, OneRequest, Su!AcceptedIsRead
  <2>2. ASSUME ~suRaced'
        PROVE  /\ \A b, c \in Admins : (suReq'[b].pc # "idle" /\ suReq'[c].pc # "idle") => b = c
               /\ suUpd["unit"].pc = "idle"
    <3>1. ~suRaced /\ \A b \in Admins : suReq[b].pc = "idle"
      BY <1>1, <2>2
    <3> QED
      BY <1>1, <1>3, <3>1 DEF SuInv, OneRequest
  <2> QED
    BY <1>1, <2>1, <2>2 DEF OneRequest
<1>5. Confirmed'
  BY <1>1, <1>3 DEF SuInv, Confirmed, Su!InterruptionConfirmed
<1> QED
  BY <1>1, <1>2, <1>4, <1>5, DiskStands DEF SuInv

LEMMA RequestFeedKeeps == ASSUME SuConstants, SuInv, NEW a \in Admins, Su!RequestFeed(a) PROVE SuInv'
<1>1. /\ suReq[a].pc = "feed" /\ suReq[a] \in SuAsk /\ suReq \in [Admins -> SuAsk]
      /\ suReq' = [suReq EXCEPT ![a] = [suReq[a] EXCEPT !.pc = "write"]] \/ suReq' = [suReq EXCEPT ![a] = Su!NoRequest]
      /\ UNCHANGED <<suLatest, suSums, suIn, suTarget, suNew, suNext, suKept, suEarly, suLive, suFile, suUpd, suAsks, suDone, suRaced, suShared, suBlind, suCut>>
  BY DEF Su!RequestFeed, Su!disk, Su!world, Su!past, SuInv, SuTyped
<1>2. PICK q : suReq' = [suReq EXCEPT ![a] = q] /\ (q = [suReq[a] EXCEPT !.pc = "write"] \/ q = Su!NoRequest)
  BY <1>1
<1>3. q \in SuAsk /\ (q.force = suReq[a].force \/ q.live = {}) /\ (q.live = suReq[a].live \/ q.live = {})
  <2>1. CASE q = [suReq[a] EXCEPT !.pc = "write"]
    BY <1>1, <2>1 DEF SuAsk
  <2>2. CASE q = Su!NoRequest
    BY <2>2 DEF SuAsk, Su!NoRequest
  <2> QED
    BY <1>2, <2>1, <2>2
<1>4. suReq'[a] = q /\ suReq' \in [Admins -> SuAsk] /\ \A b \in Admins \ {a} : suReq'[b] = suReq[b]
  BY <1>1, <1>2, <1>3
<1>5. SuTyped'
  BY <1>1, <1>4 DEF SuInv, SuTyped
<1>6. OneRequest'
  BY <1>1, <1>4 DEF SuInv, OneRequest, Su!AcceptedIsRead
<1>7. Confirmed'
  BY <1>1, <1>3, <1>4 DEF SuInv, Confirmed, Su!InterruptionConfirmed
<1> QED
  BY <1>1, <1>5, <1>6, <1>7, DiskStands DEF SuInv

LEMMA RequestWritesKeeps == ASSUME SuConstants, SuInv, NEW a \in Admins, Su!RequestWrites(a) PROVE SuInv'
<1> DEFINE q == suReq[a]
<1>1. /\ q.pc = "write" /\ q \in SuAsk /\ suReq' = [suReq EXCEPT ![a] = Su!NoRequest]
      /\ suFile' = {[id |-> suAsks, force |-> q.force, live |-> q.live, torn |-> FALSE]} /\ suDone' = suDone \union {suAsks}
      /\ UNCHANGED <<suLatest, suSums, suIn, suTarget, suNew, suNext, suKept, suEarly, suLive, suUpd, suAsks, suRaced, suShared, suBlind, suCut>>
  BY DEF Su!RequestWrites, Su!disk, Su!world, Su!past, SuInv, SuTyped
<1>2. suReq'[a] = Su!NoRequest /\ Su!NoRequest \in SuAsk /\ Su!NoRequest.pc = "idle" /\ Su!NoRequest.live = {} /\ \A b \in Admins \ {a} : suReq'[b] = suReq[b]
  BY <1>1 DEF SuInv, SuTyped, Su!NoRequest, SuAsk
<1>3. SuTyped'
  BY <1>1, <1>2 DEF SuInv, SuTyped, SuAsk, SuFile
<1>4. {r.id : r \in suFile'} = {suAsks}
  BY <1>1
<1>5. OneRequest'
  <2>1. CASE suRaced
    BY <1>1, <2>1 DEF SuInv, OneRequest, Su!AcceptedIsRead
  <2>2. CASE ~suRaced
    <3>1. suFile = {} /\ suUpd["unit"].pc = "idle" /\ \A b \in Admins \ {a} : suReq[b].pc = "idle"
      BY <1>1, <2>2 DEF SuInv, OneRequest
    <3>2. AllRead
      BY <2>2, <3>1 DEF SuInv, OneRequest, AllRead, Su!AcceptedIsRead
    <3>3. Su!AcceptedIsRead'
      BY <1>1, <1>4, <3>2 DEF AllRead, Su!AcceptedIsRead
    <3> QED
      BY <1>1, <1>2, <3>1, <3>3 DEF SuInv, OneRequest
  <2> QED
    BY <2>1, <2>2
<1>6. Confirmed'
  <2>1. q.force \/ q.live = {}
    BY DEF SuInv, Confirmed
  <2> QED
    BY <1>1, <1>2, <2>1 DEF SuInv, Confirmed, Su!InterruptionConfirmed
<1> QED
  BY <1>1, <1>3, <1>5, <1>6, DiskStands DEF SuInv

(* A run u that moves to q and leaves the requests of the dashboard alone. *)
LEMMA RunMoves ==
    ASSUME SuConstants, SuInv, NEW u \in Su!Updaters, NEW q \in SuRun, suUpd' = [suUpd EXCEPT ![u] = q],
           q.live = {} \/ q.live = suUpd[u].live,
           UNCHANGED <<suReq, suRaced, suAsks, suCut, suKept, suEarly>>,
           \/ suFile' = suFile /\ suDone' = suDone /\ (u = "unit" => suUpd[u].pc # "idle")
           \/ suFile' = {} /\ suDone' = suDone /\ u = "unit" /\ q.pc = "idle" /\ suUpd[u].pc # "idle"
    PROVE  /\ OneRequest' /\ Confirmed' /\ suUpd' \in [Su!Updaters -> SuRun] /\ suUpd'[u] = q
           /\ \A w \in Su!Updaters \ {u} : suUpd'[w] = suUpd[w]
<1>1. suUpd' \in [Su!Updaters -> SuRun] /\ suUpd'[u] = q /\ (\A w \in Su!Updaters \ {u} : suUpd'[w] = suUpd[w]) /\ "unit" \in Su!Updaters
  BY DEF SuInv, SuTyped, Su!Updaters
<1>2. Confirmed'
  BY <1>1 DEF SuInv, Confirmed, Su!InterruptionConfirmed
<1>0. suReq' = suReq /\ (suRaced' <=> suRaced) /\ suKept' = suKept /\ suEarly' = suEarly /\ (\A a, r \in suKept.file : a = r)
  BY DEF SuInv, OneRequest
<1>3. CASE suFile' = suFile /\ suDone' = suDone /\ (u = "unit" => suUpd[u].pc # "idle")
  <2>1. suUpd'["unit"].pc # "idle" => suUpd["unit"].pc # "idle"
    BY <1>1, <1>3
  <2>2. Su!AcceptedIsRead'
    BY <1>3 DEF SuInv, OneRequest, Su!AcceptedIsRead
  <2>3. (\A a, r \in suFile : a = r) /\ (\A a, r \in suFile' : a = r)
    BY <1>3 DEF SuInv, OneRequest
  <2>4. ~suRaced => /\ \A a, b \in Admins : (suReq[a].pc # "idle" /\ suReq[b].pc # "idle") => a = b
                    /\ (\E a \in Admins : suReq[a].pc # "idle") => suFile = {}
                    /\ suUpd["unit"].pc # "idle" => (suFile # {} /\ AllRead)
    BY DEF SuInv, OneRequest
  <2>5. ~suRaced' => /\ \A a, b \in Admins : (suReq'[a].pc # "idle" /\ suReq'[b].pc # "idle") => a = b
                     /\ (\E a \in Admins : suReq'[a].pc # "idle") => suFile' = {}
                     /\ suUpd'["unit"].pc # "idle" => (suFile' # {} /\ AllRead')
    BY <1>0, <1>3, <2>1, <2>4 DEF AllRead
  <2> QED
    BY <1>0, <1>1, <1>2, <2>2, <2>3, <2>5 DEF OneRequest
<1>4. CASE suFile' = {} /\ suDone' = suDone /\ u = "unit" /\ q.pc = "idle" /\ suUpd[u].pc # "idle"
  <2>1. suUpd'["unit"].pc = "idle" /\ (suRaced \/ AllRead)
    BY <1>1, <1>4 DEF SuInv, OneRequest
  <2>2. Su!AcceptedIsRead'
    BY <1>0, <1>4, <2>1 DEF AllRead, Su!AcceptedIsRead
  <2>3. suRaced \/ \A a, b \in Admins : (suReq[a].pc # "idle" /\ suReq[b].pc # "idle") => a = b
    BY DEF SuInv, OneRequest
  <2>4. ~suRaced' => /\ \A a, b \in Admins : (suReq'[a].pc # "idle" /\ suReq'[b].pc # "idle") => a = b
                     /\ (\E a \in Admins : suReq'[a].pc # "idle") => suFile' = {}
                     /\ suUpd'["unit"].pc # "idle" => (suFile' # {} /\ AllRead')
    BY <1>0, <1>4, <2>1, <2>3 DEF AllRead
  <2>5. \A a, r \in suFile' : a = r
    BY <1>4
  <2> QED
    BY <1>0, <1>1, <1>2, <2>2, <2>4, <2>5 DEF OneRequest
<1> QED
  BY <1>1, <1>2, <1>3, <1>4

LEMMA NoRunTyped == Su!NoRun \in SuRun /\ Su!NoRun.pc = "idle" /\ Su!NoRun.live = {}
  BY DEF Su!NoRun, SuRun

(* A run that ends, in success or failure, releases its request file.      *)
LEMMA EndsKeeps ==
    ASSUME SuConstants, SuInv, NEW u \in Su!Updaters, suUpd[u].pc # "idle", Su!Ends(u), UNCHANGED <<suReq, suRaced, suAsks, suCut, suKept, suEarly, suDone>>
    PROVE  /\ OneRequest' /\ Confirmed' /\ suUpd' \in [Su!Updaters -> SuRun] /\ suUpd'[u].pc = "idle"
           /\ \A w \in Su!Updaters \ {u} : suUpd'[w] = suUpd[w]
           /\ suFile' \subseteq suFile
<1>1. suUpd' = [suUpd EXCEPT ![u] = Su!NoRun] /\ suFile' = IF u = "unit" THEN {} ELSE suFile
  BY DEF Su!Ends, Su!Cleared
<1> QED
  BY <1>1, RunMoves, NoRunTyped

(* The same for a run that goes on to another step.                        *)
LEMMA RunKeeps ==
    ASSUME SuConstants, SuInv, NEW u \in Su!Updaters, suUpd[u].pc # "idle", NEW q \in SuRun, suUpd' = [suUpd EXCEPT ![u] = q],
           q.pc # "idle", q.live = suUpd[u].live, UNCHANGED <<suReq, suRaced, suAsks, suCut, suKept, suEarly, suDone, suFile>>
    PROVE  /\ OneRequest' /\ Confirmed' /\ suUpd' \in [Su!Updaters -> SuRun] /\ suUpd'[u] = q
           /\ \A w \in Su!Updaters \ {u} : suUpd'[w] = suUpd[w]
  BY RunMoves

(* A run that leaves what is installed and being copied as it is.          *)
LEMMA GoesOn ==
    ASSUME SuConstants, SuInv, NEW u \in Su!Updaters, suUpd[u].pc \in {"resolve", "download", "verify"}, NEW q \in SuRun,
           suUpd' = [suUpd EXCEPT ![u] = q], q.pc \in {"download", "verify", "extract"}, q.live = suUpd[u].live,
           suBlind' = (suBlind \/ ~suSums) \/ suBlind' = suBlind, q.pc = "extract" => (suBlind' \/ q.good),
           UNCHANGED <<suLatest, suSums, suIn, suTarget, suNew, suNext, suKept, suEarly, suLive, suReq, suAsks, suDone, suRaced, suShared, suCut, suFile>>
    PROVE  SuInv'
<1>1. /\ OneRequest' /\ Confirmed' /\ suUpd' \in [Su!Updaters -> SuRun] /\ suUpd'[u] = q
      /\ \A w \in Su!Updaters \ {u} : suUpd'[w] = suUpd[w]
  BY RunKeeps
<1>2. suBlind \in BOOLEAN /\ suBlind' \in BOOLEAN /\ (suBlind => suBlind')
  BY DEF SuInv, SuTyped
<1>3. SuTyped'
  BY <1>1, <1>2 DEF SuInv, SuTyped
<1>4. Checked' /\ CopiesAlone' /\ Sound'
  BY <1>1, <1>2 DEF SuInv, Checked, CopiesAlone, Copying, Sound, Filled, Su!Filling
<1> QED
  BY <1>1, <1>3, <1>4 DEF SuInv

LEMMA LeavesDisk ==
    ASSUME SuConstants, SuInv, NEW u \in Su!Updaters, suUpd[u].pc \notin {"idle", "copy"}, Su!Ends(u),
           suBlind' = (suBlind \/ ~suSums) \/ suBlind' = suBlind,
           UNCHANGED <<suLatest, suSums, suIn, suTarget, suNew, suNext, suKept, suEarly, suLive, suReq, suAsks, suDone, suRaced, suShared, suCut>>
    PROVE  SuInv'
<1>1. /\ OneRequest' /\ Confirmed' /\ suUpd' \in [Su!Updaters -> SuRun] /\ suUpd'[u].pc = "idle"
      /\ (\A w \in Su!Updaters \ {u} : suUpd'[w] = suUpd[w]) /\ suFile' \subseteq suFile
  BY EndsKeeps
<1>2. suBlind \in BOOLEAN /\ suBlind' \in BOOLEAN /\ (suBlind => suBlind')
  BY DEF SuInv, SuTyped
<1>3. SuTyped'
  BY <1>1, <1>2 DEF SuInv, SuTyped
<1>4. Checked' /\ CopiesAlone'
  BY <1>1, <1>2 DEF SuInv, Checked, CopiesAlone, Copying
<1>5. \A k \in Nat : Filled(k) => Filled(k)'
  BY <1>1 DEF Filled, Su!Filling
<1>6. suTarget \in Nat /\ suKept.target \in Nat /\ suNew \in Nat
  BY DEF SuInv, SuTyped, SuConstants, Su!Inodes
<1>7. Sound'
  BY <1>2, <1>5, <1>6 DEF SuInv, Sound
<1> QED
  BY <1>1, <1>3, <1>4, <1>7 DEF SuInv

LEMMA UnitStartsKeeps == ASSUME SuConstants, SuInv, Su!UnitStarts PROVE SuInv'
<1>1. PICK q \in suFile :
        /\ suUpd["unit"].pc = "idle" /\ suDone' = suDone \ {q.id}
        /\ suUpd' = [suUpd EXCEPT !["unit"] = [Su!NoRun EXCEPT !.pc = "resolve", !.own = suIn[suTarget].v, !.force = q.force, !.restart = TRUE, !.live = IF q.force THEN {} ELSE q.live]]
        /\ UNCHANGED <<suLatest, suSums, suIn, suTarget, suNew, suNext, suKept, suEarly, suLive, suFile, suReq, suAsks, suRaced, suShared, suBlind, suCut>>
  BY DEF Su!UnitStarts, Su!disk, Su!world, Su!past
<1>2. PICK r : r = [Su!NoRun EXCEPT !.pc = "resolve", !.own = suIn[suTarget].v, !.force = q.force, !.restart = TRUE, !.live = IF q.force THEN {} ELSE q.live]
  OBVIOUS
<1>3. q \in SuFile /\ (q.force \/ q.live = {}) /\ suIn[suTarget].v \in Nat
  BY DEF SuInv, SuTyped, Confirmed
<1>4. r \in SuRun /\ r.pc = "resolve" /\ r.live = {}
  BY <1>2, <1>3 DEF SuFile, Su!NoRun, SuRun
<1>5. "unit" \in Su!Updaters /\ suUpd' \in [Su!Updaters -> SuRun] /\ suUpd'["unit"] = r /\ \A w \in Su!Updaters \ {"unit"} : suUpd'[w] = suUpd[w]
  BY <1>1, <1>2, <1>4 DEF SuInv, SuTyped, Su!Updaters
<1>6. SuTyped'
  BY <1>1, <1>5 DEF SuInv, SuTyped
<1>7. Checked' /\ CopiesAlone' /\ Sound'
  BY <1>1, <1>4, <1>5 DEF SuInv, Checked, CopiesAlone, Copying, Sound, Filled, Su!Filling
<1>8. Confirmed'
  BY <1>1, <1>4, <1>5 DEF SuInv, Confirmed, Su!InterruptionConfirmed
<1>9. OneRequest'
  <2>1. {p.id : p \in suFile} = {q.id} /\ suFile # {}
    BY DEF SuInv, OneRequest
  <2>2. ~suRaced => AllRead'
    BY <1>1, <2>1 DEF SuInv, OneRequest, AllRead, Su!AcceptedIsRead
  <2> QED
    BY <1>1, <2>1, <2>2 DEF SuInv, OneRequest, Su!AcceptedIsRead
<1> QED
  BY <1>6, <1>7, <1>8, <1>9 DEF SuInv

LEMMA HandStartsKeeps == ASSUME SuConstants, SuInv, NEW force \in BOOLEAN, NEW restart \in BOOLEAN, Su!HandStarts(force, restart) PROVE SuInv'
<1>1. /\ suUpd["hand"].pc = "idle" /\ suAsks' = suAsks + 1
      /\ suUpd' = [suUpd EXCEPT !["hand"] = [Su!NoRun EXCEPT !.pc = "resolve", !.own = suIn[suTarget].v, !.force = force, !.restart = restart]]
      /\ UNCHANGED <<suLatest, suSums, suIn, suTarget, suNew, suNext, suKept, suEarly, suLive, suFile, suReq, suDone, suRaced, suShared, suBlind, suCut>>
  BY DEF Su!HandStarts, Su!disk, Su!world, Su!past
<1>2. PICK r : r = [Su!NoRun EXCEPT !.pc = "resolve", !.own = suIn[suTarget].v, !.force = force, !.restart = restart]
  OBVIOUS
<1>3. suIn[suTarget].v \in Nat
  BY DEF SuInv, SuTyped
<1>4. r \in SuRun /\ r.pc = "resolve" /\ r.live = {}
  BY <1>2, <1>3 DEF Su!NoRun, SuRun
<1>5. "hand" \in Su!Updaters /\ "unit" \in Su!Updaters \ {"hand"} /\ suUpd' \in [Su!Updaters -> SuRun] /\ suUpd'["hand"] = r /\ \A w \in Su!Updaters \ {"hand"} : suUpd'[w] = suUpd[w]
  BY <1>1, <1>2, <1>4 DEF SuInv, SuTyped, Su!Updaters
<1>6. SuTyped'
  BY <1>1, <1>5 DEF SuInv, SuTyped
<1>7. Checked' /\ CopiesAlone' /\ Sound'
  BY <1>1, <1>4, <1>5 DEF SuInv, Checked, CopiesAlone, Copying, Sound, Filled, Su!Filling
<1>8. Confirmed' /\ OneRequest'
  BY <1>1, <1>4, <1>5 DEF SuInv, Confirmed, Su!InterruptionConfirmed, OneRequest, AllRead, Su!AcceptedIsRead
<1> QED
  BY <1>6, <1>7, <1>8 DEF SuInv

LEMMA ResolveKeeps == ASSUME SuConstants, SuInv, NEW u \in Su!Updaters, Su!Resolve(u) PROVE SuInv'
<1>1. /\ suUpd[u].pc = "resolve" /\ suUpd[u] \in SuRun /\ suUpd \in [Su!Updaters -> SuRun]
      /\ UNCHANGED <<suLatest, suSums, suIn, suTarget, suNew, suNext, suKept, suEarly, suLive, suReq, suAsks, suDone, suRaced, suShared, suBlind, suCut>>
  BY DEF Su!Resolve, Su!disk, Su!world, SuInv, SuTyped
<1>2. CASE Su!Ends(u)
  BY <1>1, <1>2, LeavesDisk
<1>3. CASE suUpd' = [suUpd EXCEPT ![u].pc = "download", ![u].v = suLatest] /\ suFile' = suFile
  <2>1. PICK q : q = [suUpd[u] EXCEPT !.pc = "download", !.v = suLatest]
    OBVIOUS
  <2>2. q \in SuRun /\ q.pc = "download" /\ q.live = suUpd[u].live /\ suUpd' = [suUpd EXCEPT ![u] = q]
    BY <1>1, <1>3, <2>1 DEF SuInv, SuTyped, SuRun
  <2> QED
    BY <1>1, <1>3, <2>2, GoesOn
<1> QED
  BY <1>2, <1>3 DEF Su!Resolve, Su!Fails

LEMMA DownloadKeeps == ASSUME SuConstants, SuInv, NEW u \in Su!Updaters, Su!Download(u) PROVE SuInv'
<1>1. /\ suUpd[u].pc = "download" /\ suUpd[u] \in SuRun /\ suUpd \in [Su!Updaters -> SuRun]
      /\ UNCHANGED <<suLatest, suSums, suIn, suTarget, suNew, suNext, suKept, suEarly, suLive, suReq, suAsks, suDone, suRaced, suShared, suBlind, suCut>>
  BY DEF Su!Download, Su!disk, Su!world, Su!past, SuInv, SuTyped
<1>2. CASE Su!Ends(u)
  BY <1>1, <1>2, LeavesDisk
<1>3. CASE suUpd' = [suUpd EXCEPT ![u].pc = "verify", ![u].good = TRUE] /\ suFile' = suFile
  <2>1. PICK q : q = [suUpd[u] EXCEPT !.pc = "verify", !.good = TRUE]
    OBVIOUS
  <2>2. q \in SuRun /\ q.pc = "verify" /\ q.live = suUpd[u].live /\ suUpd' = [suUpd EXCEPT ![u] = q]
    BY <1>1, <1>3, <2>1 DEF SuRun
  <2> QED
    BY <1>1, <1>3, <2>2, GoesOn
<1>4. CASE suUpd' = [suUpd EXCEPT ![u].pc = "verify"] /\ suFile' = suFile
  <2>1. PICK q : q = [suUpd[u] EXCEPT !.pc = "verify"]
    OBVIOUS
  <2>2. q \in SuRun /\ q.pc = "verify" /\ q.live = suUpd[u].live /\ suUpd' = [suUpd EXCEPT ![u] = q]
    BY <1>1, <1>4, <2>1 DEF SuRun
  <2> QED
    BY <1>1, <1>4, <2>2, GoesOn
<1> QED
  BY <1>2, <1>3, <1>4 DEF Su!Download, Su!Fails

LEMMA VerifyKeeps == ASSUME SuConstants, SuInv, NEW u \in Su!Updaters, Su!Verify(u) PROVE SuInv'
<1>1. /\ suUpd[u].pc = "verify" /\ suUpd[u] \in SuRun /\ suUpd \in [Su!Updaters -> SuRun]
      /\ suBlind' = (suBlind \/ ~suSums)
      /\ UNCHANGED <<suLatest, suSums, suIn, suTarget, suNew, suNext, suKept, suEarly, suLive, suReq, suAsks, suDone, suRaced, suShared, suCut>>
  BY DEF Su!Verify, Su!disk, Su!world, SuInv, SuTyped
<1>2. CASE Su!Ends(u)
  BY <1>1, <1>2, LeavesDisk
<1>3. CASE (~suSums \/ suUpd[u].good) /\ suUpd' = [suUpd EXCEPT ![u].pc = "extract"] /\ suFile' = suFile
  <2>1. PICK q : q = [suUpd[u] EXCEPT !.pc = "extract"]
    OBVIOUS
  <2>2. q \in SuRun /\ q.pc = "extract" /\ q.live = suUpd[u].live /\ q.good = suUpd[u].good /\ suUpd' = [suUpd EXCEPT ![u] = q]
    BY <1>1, <1>3, <2>1 DEF SuRun
  <2> QED
    BY <1>1, <1>3, <2>2, GoesOn
<1> QED
  BY <1>1, <1>2, <1>3 DEF Su!Verify, Su!Run, Su!verifyChecksum

LEMMA CopyBeginsKeeps == ASSUME SuConstants, SuInv, NEW u \in Su!Updaters, Su!CopyBegins(u) PROVE SuInv'
<1> DEFINE i == IF suNew = 0 THEN suNext ELSE suNew
           Other == {o \in Su!Updaters \ {u} : suUpd[o].pc \in {"copy", "rename"}}
<1>1. /\ suUpd[u].pc = "extract" /\ suUpd[u] \in SuRun /\ suUpd \in [Su!Updaters -> SuRun] /\ i \in Su!Inodes
      /\ suNew' = i /\ suNext' = (IF suNew = 0 THEN suNext + 1 ELSE suNext)
      /\ suUpd' = [suUpd EXCEPT ![u].pc = "copy", ![u].ino = i] /\ suShared' = (suShared \/ Other # {})
      /\ UNCHANGED <<suLatest, suSums, suTarget, suKept, suEarly, suLive, suFile, suReq, suAsks, suDone, suRaced, suBlind, suCut>>
  BY DEF Su!CopyBegins, Su!world, SuInv, SuTyped
<1>2. PICK mixed : /\ suIn' = [suIn EXCEPT ![i] = [v |-> 0, whole |-> FALSE, mixed |-> mixed]] /\ mixed \in BOOLEAN
                   /\ mixed <=> \E o \in Other : suUpd[o].pc = "copy" /\ suUpd[o].ino = i /\ suUpd[o].v # suUpd[u].v
  BY DEF Su!CopyBegins
<1>3. Su!Inodes \subseteq Nat \ {0}
  BY DEF Su!Inodes, SuConstants
<1>4. PICK q : q = [suUpd[u] EXCEPT !.pc = "copy", !.ino = i]
  OBVIOUS
<1>5. q \in SuRun /\ q.pc = "copy" /\ q.ino = i /\ q.live = suUpd[u].live /\ q.good = suUpd[u].good /\ suUpd' = [suUpd EXCEPT ![u] = q]
  BY <1>1, <1>3, <1>4 DEF SuRun
<1>6. /\ OneRequest' /\ Confirmed' /\ suUpd' \in [Su!Updaters -> SuRun] /\ suUpd'[u] = q
      /\ \A w \in Su!Updaters \ {u} : suUpd'[w] = suUpd[w]
  BY <1>1, <1>5, RunKeeps
<1>7. i # 0 /\ i # suTarget /\ i # suKept.target /\ suTarget \in Su!Inodes /\ suKept.target \in Su!Inodes
  BY <1>1, <1>3 DEF SuInv, SuTyped
<1>8. SuTyped'
  <2>1. suIn' \in [Su!Inodes -> [v : Nat, whole : BOOLEAN, mixed : BOOLEAN]]
    BY <1>1, <1>2 DEF SuInv, SuTyped
  <2>2. suNext' \in Nat /\ suTarget' < suNext' /\ suNew' < suNext' /\ suKept'.target < suNext'
    BY <1>1, <1>3 DEF SuInv, SuTyped
  <2> QED
    BY <1>1, <1>6, <1>7, <2>1, <2>2 DEF SuInv, SuTyped
<1>9. suIn'[suTarget] = suIn[suTarget] /\ suIn'[suKept.target] = suIn[suKept.target] /\ suIn'[i].mixed = mixed
  BY <1>1, <1>2, <1>7 DEF SuInv, SuTyped
<1>10. Checked'
  BY <1>1, <1>5, <1>6, <1>9 DEF SuInv, Checked
<1>12. Sound'
  <2> SUFFICES ASSUME ~(suBlind \/ "binary" \in suEarly) PROVE Sound'
    BY <1>1 DEF Sound
  <2>1. Filled(suTarget) /\ Filled(suKept.target)
    BY DEF SuInv, Sound
  <2>2. \A w \in Su!Updaters, k \in Nat : suUpd[w].pc = "copy" /\ suUpd[w].ino = k => suUpd'[w].pc = "copy" /\ suUpd'[w].ino = k
    BY <1>1, <1>6
  <2>3. Filled(suTarget)' /\ Filled(suKept.target)'
    BY <1>1, <1>3, <1>7, <1>9, <2>1, <2>2 DEF Filled, Su!Filling
  <2>4. Filled(suNew)'
    BY <1>1, <1>5, <1>6 DEF Filled, Su!Filling
  <2> QED
    BY <2>3, <2>4 DEF Sound
<1>11. CopiesAlone'
  <2> SUFFICES ASSUME ~suShared' PROVE CopiesAlone'
    BY DEF CopiesAlone
  <2>1. ~suShared /\ Other = {}
    BY <1>1
  <2>2. \A w \in Su!Updaters \ {u} : suUpd'[w].pc \notin {"copy", "rename"}
    BY <1>6, <2>1
  <2>3. ~mixed
    BY <1>2, <2>1
  <2> HIDE DEF i
  <2> QED
    BY <1>1, <1>5, <1>6, <1>7, <1>9, <2>1, <2>2, <2>3 DEF SuInv, CopiesAlone, Copying
<1> QED
  BY <1>6, <1>8, <1>10, <1>11, <1>12 DEF SuInv

(* What is broken off counts as mixed, the rest stands.                    *)
LEMMA BreaksOff ==
    ASSUME SuInv, NEW U \in SUBSET Su!Updaters
    PROVE  /\ Su!BrokenOff(U) \in [Su!Inodes -> [v : Nat, whole : BOOLEAN, mixed : BOOLEAN]]
           /\ \A k \in Su!Inodes :
                 /\ Su!BrokenOff(U)[k].whole = suIn[k].whole
                 /\ Su!BrokenOff(U)[k].mixed <=> suIn[k].mixed \/ \E u \in U : suUpd[u].pc = "copy" /\ suUpd[u].ino = k
<1> DEFINE m(k) == suIn[k].mixed \/ \E u \in U : suUpd[u].pc = "copy" /\ suUpd[u].ino = k
<1>1. suIn \in [Su!Inodes -> [v : Nat, whole : BOOLEAN, mixed : BOOLEAN]]
  BY DEF SuInv, SuTyped
<1>2. \A k \in Su!Inodes : m(k) \in BOOLEAN
  OBVIOUS
<1>3. Su!BrokenOff(U) = [k \in Su!Inodes |-> [suIn[k] EXCEPT !.mixed = m(k)]]
  BY DEF Su!BrokenOff
<1> HIDE DEF m
<1>4. /\ Su!BrokenOff(U) \in [Su!Inodes -> [v : Nat, whole : BOOLEAN, mixed : BOOLEAN]]
      /\ \A k \in Su!Inodes : Su!BrokenOff(U)[k].whole = suIn[k].whole /\ Su!BrokenOff(U)[k].mixed = m(k)
  BY <1>1, <1>2, <1>3
<1> QED
  BY <1>4 DEF m

LEMMA BrokenIsFilled ==
    ASSUME SuInv, NEW U \in SUBSET Su!Updaters, suIn' = Su!BrokenOff(U), \A u \in Su!Updaters \ U : suUpd'[u] = suUpd[u]
    PROVE  \A k \in Su!Inodes : suIn'[k].whole = suIn[k].whole /\ (Filled(k) => Filled(k)')
<1> SUFFICES ASSUME NEW k \in Su!Inodes PROVE suIn'[k].whole = suIn[k].whole /\ (Filled(k) => Filled(k)')
  OBVIOUS
<1>1. suIn'[k].whole = suIn[k].whole /\ (suIn'[k].mixed <=> suIn[k].mixed \/ \E u \in U : suUpd[u].pc = "copy" /\ suUpd[u].ino = k)
  BY BreaksOff
<1> QED
  BY <1>1 DEF Filled, Su!Filling

LEMMA CopyEndsKeeps == ASSUME SuConstants, SuInv, NEW u \in Su!Updaters, Su!CopyEnds(u) PROVE SuInv'
<1> DEFINE Others == {o \in Su!Updaters \ {u} : suUpd[o].pc = "copy" /\ suUpd[o].ino = suUpd[u].ino}
           n == suUpd[u].ino
<1>1. /\ suUpd[u].pc = "copy" /\ suUpd[u] \in SuRun /\ suUpd \in [Su!Updaters -> SuRun]
      /\ suIn \in [Su!Inodes -> [v : Nat, whole : BOOLEAN, mixed : BOOLEAN]]
      /\ UNCHANGED <<suLatest, suSums, suTarget, suNext, suKept, suEarly, suLive, suReq, suAsks, suDone, suRaced, suShared, suBlind, suCut>>
  BY DEF Su!CopyEnds, Su!world, Su!past, SuInv, SuTyped
<1>2. CASE Su!Fails(u) /\ suNew' = 0 /\ suIn' = Su!BrokenOff({u})
  <2>1. Su!Ends(u)
    BY <1>2 DEF Su!Fails
  <2>2. /\ OneRequest' /\ Confirmed' /\ suUpd' \in [Su!Updaters -> SuRun] /\ suUpd'[u].pc = "idle"
        /\ (\A w \in Su!Updaters \ {u} : suUpd'[w] = suUpd[w]) /\ suFile' \subseteq suFile
    BY <1>1, <2>1, EndsKeeps
  <2>3. SuTyped'
    <3>1. 0 \notin Su!Inodes
      BY DEF Su!Inodes
    <3>2. suIn' \in [Su!Inodes -> [v : Nat, whole : BOOLEAN, mixed : BOOLEAN]]
      BY <1>2, BreaksOff
    <3>3. 0 < suNext
      BY DEF SuInv, SuTyped, Su!Inodes, SuConstants
    <3> QED
      BY <1>1, <1>2, <2>2, <3>1, <3>2, <3>3 DEF SuInv, SuTyped
  <2>4. suShared \/ \A w \in Su!Updaters : ~(suUpd'[w].pc \in {"copy", "rename"})
    BY <1>1, <2>2 DEF SuInv, CopiesAlone, Copying
  <2>5. \A k \in Su!Inodes : suIn'[k].whole = suIn[k].whole /\ (Filled(k) => Filled(k)')
    BY <1>2, <2>2, BrokenIsFilled
  <2>6. Checked' /\ CopiesAlone' /\ Sound'
    BY <1>1, <1>2, <2>2, <2>4, <2>5 DEF SuInv, SuTyped, Checked, CopiesAlone, Copying, Sound
  <2> QED
    BY <2>2, <2>3, <2>6 DEF SuInv
<1>3. ASSUME NEW whole \in BOOLEAN, whole <=> (suUpd[u].good /\ ~suIn[n].mixed /\ Others = {}),
             suIn' = [suIn EXCEPT ![n] = [suIn[n] EXCEPT !.v = suUpd[u].v, !.whole = whole]],
             Su!Run(u, "rename"), suNew' = suNew, suFile' = suFile
      PROVE  SuInv'
  <2>1. PICK q : q = [suUpd[u] EXCEPT !.pc = "rename"]
    OBVIOUS
  <2>2. q \in SuRun /\ q.pc = "rename" /\ q.live = suUpd[u].live /\ suUpd' = [suUpd EXCEPT ![u] = q]
    BY <1>1, <1>3, <2>1 DEF SuRun, Su!Run
  <2>3. /\ OneRequest' /\ Confirmed' /\ suUpd' \in [Su!Updaters -> SuRun] /\ suUpd'[u] = q
        /\ \A w \in Su!Updaters \ {u} : suUpd'[w] = suUpd[w]
    BY <1>1, <1>3, <2>2, RunKeeps
  <2>4. suUpd[u].v \in Nat
    BY <1>1 DEF SuRun
  <2>5. suIn' \in [Su!Inodes -> [v : Nat, whole : BOOLEAN, mixed : BOOLEAN]]
    BY <1>1, <1>3, <2>4
  <2>6. SuTyped'
    BY <1>1, <1>3, <2>3, <2>5 DEF SuInv, SuTyped
  <2>7. \A k \in Su!Inodes : (k # n => suIn'[k] = suIn[k]) /\ (k = n => suIn'[k].whole = whole)
    BY <1>1, <1>3
  <2>8. Sound'
    <3> SUFFICES ASSUME ~(suBlind \/ "binary" \in suEarly) PROVE Sound'
      BY <1>1 DEF Sound
    <3>1. suUpd[u].good
      BY <1>1 DEF SuInv, Checked
    <3>2. \A k \in Su!Inodes : k # n /\ Filled(k) => Filled(k)'
      BY <1>1, <2>3, <2>7 DEF Filled, Su!Filling
    <3>3. Others # {} => \E w \in Su!Updaters : suUpd'[w].pc = "copy" /\ suUpd'[w].ino = n
      BY <2>3
    <3>4. n \in Su!Inodes => suIn'[n].mixed = suIn[n].mixed /\ suIn'[n].whole = whole
      BY <1>1, <1>3
    <3> HIDE DEF n, Others
    <3>5. \A k \in Su!Inodes : k = n => Filled(k)'
      BY <1>3, <3>1, <3>3, <3>4 DEF Filled, Su!Filling
    <3>6. \A k \in Su!Inodes : Filled(k) => Filled(k)'
      BY <3>2, <3>5
    <3> QED
      BY <1>1, <1>3, <3>6 DEF SuInv, SuTyped, Sound
  <2>9. CASE suShared
    BY <1>1, <2>3, <2>6, <2>2, <2>8, <2>9 DEF SuInv, Checked, CopiesAlone
  <2>10. CASE ~suShared
    <3>1. n = suNew /\ suNew # 0 /\ ~suIn[n].mixed /\ \A w \in Su!Updaters \ {u} : suUpd[w].pc \notin {"copy", "rename"}
      BY <1>1, <2>10 DEF SuInv, CopiesAlone, Copying
    <3>2. Others = {} /\ (suBlind \/ suUpd[u].good)
      BY <1>1, <3>1 DEF SuInv, Checked
    <3>3. suBlind \/ whole
      BY <1>3, <3>1, <3>2
    <3>4. n \in Su!Inodes /\ n # suTarget /\ suTarget \in Su!Inodes
      BY <3>1 DEF SuInv, SuTyped
    <3>5. suIn'[suTarget] = suIn[suTarget] /\ suIn'[suKept.target] = suIn[suKept.target] /\ suIn'[suNew].whole = whole
      BY <2>7, <3>1, <3>4 DEF SuInv, SuTyped
    <3> HIDE DEF n, Others
    <3>6. Checked'
      BY <1>1, <2>2, <2>3 DEF SuInv, Checked
    <3>7. CopiesAlone'
      BY <1>1, <1>3, <2>2, <2>3, <2>10, <3>1, <3>3, <3>5 DEF SuInv, CopiesAlone, Copying
    <3> QED
      BY <2>3, <2>6, <2>8, <3>6, <3>7 DEF SuInv
  <2> QED
    BY <2>9, <2>10
<1>4. (suUpd[u].good /\ ~suIn[n].mixed /\ Others = {}) \in BOOLEAN
  OBVIOUS
<1>5. (suIn' = [suIn EXCEPT ![n] = [@ EXCEPT !.v = suUpd[u].v, !.whole = (suUpd[u].good /\ ~suIn[n].mixed /\ Others = {})]])
        => suIn' = [suIn EXCEPT ![n] = [suIn[n] EXCEPT !.v = suUpd[u].v, !.whole = (suUpd[u].good /\ ~suIn[n].mixed /\ Others = {})]]
  OBVIOUS
<1>6. \/ Su!Fails(u) /\ suNew' = 0 /\ suIn' = Su!BrokenOff({u})
      \/ /\ suIn' = [suIn EXCEPT ![n] = [@ EXCEPT !.v = suUpd[u].v, !.whole = (suUpd[u].good /\ ~suIn[n].mixed /\ Others = {})]]
         /\ Su!Run(u, "rename") /\ suNew' = suNew /\ suFile' = suFile
  BY DEF Su!CopyEnds
<1> HIDE DEF Others, n
<1> QED
  BY <1>2, <1>3, <1>4, <1>5, <1>6

LEMMA RenameKeeps == ASSUME SuConstants, SuInv, NEW u \in Su!Updaters, Su!Rename(u) PROVE SuInv'
<1>1. /\ suUpd[u].pc = "rename" /\ suUpd[u] \in SuRun /\ suUpd \in [Su!Updaters -> SuRun]
      /\ UNCHANGED <<suLatest, suSums, suIn, suNext, suKept, suEarly, suLive, suReq, suAsks, suDone, suRaced, suShared, suBlind, suCut>>
  BY DEF Su!Rename, Su!Installs, Su!world, SuInv, SuTyped
<1>2. CASE suNew = 0
  <2>1. Su!Ends(u) /\ suTarget' = suTarget /\ suNew' = suNew
    BY <1>2 DEF Su!Rename
  <2> QED
    BY <1>1, <2>1, LeavesDisk
<1>3. CASE suNew # 0
  <2>1. suTarget' = suNew /\ suNew' = 0 /\ (Su!Ends(u) \/ (Su!Run(u, "restart") /\ suFile' = suFile))
    BY <1>3 DEF Su!Rename
  <2>2. /\ OneRequest' /\ Confirmed' /\ suUpd' \in [Su!Updaters -> SuRun] /\ suUpd'[u].pc \in {"idle", "restart"}
        /\ (\A w \in Su!Updaters \ {u} : suUpd'[w] = suUpd[w]) /\ suFile' \subseteq suFile
    <3>1. CASE Su!Ends(u)
      BY <1>1, <3>1, EndsKeeps
    <3>2. CASE Su!Run(u, "restart") /\ suFile' = suFile
      <4>1. PICK q : q = [suUpd[u] EXCEPT !.pc = "restart"]
        OBVIOUS
      <4>2. q \in SuRun /\ q.pc = "restart" /\ q.live = suUpd[u].live /\ suUpd' = [suUpd EXCEPT ![u] = q]
        BY <1>1, <3>2, <4>1 DEF SuRun, Su!Run
      <4> QED
        BY <1>1, <3>2, <4>2, RunKeeps
    <3> QED
      BY <2>1, <3>1, <3>2
  <2>3. SuTyped'
    BY <1>1, <1>3, <2>1, <2>2 DEF SuInv, SuTyped, Su!Inodes, SuConstants
  <2>4. suShared \/ ((suBlind \/ suIn[suNew].whole) /\ \A w \in Su!Updaters : suUpd'[w].pc \notin {"copy", "rename"})
    BY <1>1, <2>2 DEF SuInv, CopiesAlone, Copying
  <2>5. Checked' /\ CopiesAlone'
    BY <1>1, <2>1, <2>2, <2>4 DEF SuInv, Checked, CopiesAlone, Copying
  <2>6. \A k \in Su!Inodes : Filled(k) => Filled(k)'
    BY <1>1, <2>2 DEF Filled, Su!Filling
  <2>7. Sound'
    BY <1>1, <1>3, <2>1, <2>6 DEF SuInv, SuTyped, Sound
  <2> QED
    BY <2>2, <2>3, <2>5, <2>7 DEF SuInv
<1> QED
  BY <1>2, <1>3

(* The daemon starts: its requests under way are gone.                     *)
LEMMA BootKeeps ==
    ASSUME SuInv, suReq' = [a \in Admins |-> Su!NoRequest]
    PROVE  suReq' \in [Admins -> SuAsk] /\ \A a \in Admins : suReq'[a].pc = "idle" /\ suReq'[a].live = {}
  BY DEF Su!NoRequest, SuAsk

LEMMA SuRestartKeeps == ASSUME SuConstants, SuInv, NEW u \in Su!Updaters, Su!Restart(u) PROVE SuInv'
<1>1. /\ suUpd[u].pc = "restart" /\ suUpd[u] \in SuRun /\ suUpd \in [Su!Updaters -> SuRun] /\ suUpd[u].live = {} /\ Su!Ends(u)
      /\ UNCHANGED <<suLatest, suSums, suIn, suTarget, suNew, suNext, suKept, suEarly, suLive, suAsks, suDone, suRaced, suShared, suBlind>>
      /\ suCut' = suCut
      /\ suReq' = suReq \/ suReq' = [a \in Admins |-> Su!NoRequest]
  BY DEF Su!Restart, Su!Boot, Su!Fails, Su!world, Su!disk, SuInv, SuTyped, Confirmed
<1>2. CASE suReq' = suReq
  BY <1>1, <1>2, LeavesDisk
<1>3. CASE suReq' = [a \in Admins |-> Su!NoRequest]
  <2>1. suReq' \in [Admins -> SuAsk] /\ \A a \in Admins : suReq'[a].pc = "idle" /\ suReq'[a].live = {}
    BY <1>3, BootKeeps
  <2>2. suUpd' = [suUpd EXCEPT ![u] = Su!NoRun] /\ suFile' = IF u = "unit" THEN {} ELSE suFile
    BY <1>1 DEF Su!Ends, Su!Cleared
  <2>3. suUpd' \in [Su!Updaters -> SuRun] /\ suUpd'[u] = Su!NoRun /\ (\A w \in Su!Updaters \ {u} : suUpd'[w] = suUpd[w]) /\ "unit" \in Su!Updaters
    BY <1>1, <2>2, NoRunTyped DEF Su!Updaters
  <2>4. SuTyped'
    BY <1>1, <2>1, <2>2, <2>3 DEF SuInv, SuTyped
  <2>5. Confirmed'
    BY <1>1, <2>1, <2>2, <2>3, NoRunTyped DEF SuInv, Confirmed, Su!InterruptionConfirmed
  <2>6. OneRequest'
    <3>1. CASE u = "unit"
      <4>1. suRaced \/ AllRead
        BY <1>1, <3>1 DEF SuInv, OneRequest
      <4> QED
        BY <1>1, <2>1, <2>2, <2>3, <3>1, <4>1, NoRunTyped DEF SuInv, OneRequest, AllRead, Su!AcceptedIsRead
    <3>2. CASE u # "unit"
      <4>1. suUpd'["unit"] = suUpd["unit"] /\ suFile' = suFile
        BY <2>2, <2>3, <3>2
      <4> QED
        BY <1>1, <2>1, <4>1 DEF SuInv, OneRequest, AllRead, Su!AcceptedIsRead
    <3> QED
      BY <3>1, <3>2
  <2>7. Checked' /\ CopiesAlone' /\ Sound'
    BY <1>1, <2>3, NoRunTyped DEF SuInv, Checked, CopiesAlone, Copying, Sound, Filled, Su!Filling
  <2> QED
    BY <2>4, <2>5, <2>6, <2>7 DEF SuInv
<1> QED
  BY <1>1, <1>2, <1>3

LEMMA KilledKeeps == ASSUME SuConstants, SuInv, NEW u \in Su!Updaters, Su!Killed(u) PROVE SuInv'
<1>1. /\ suUpd[u].pc # "idle" /\ suUpd' = [suUpd EXCEPT ![u] = Su!NoRun] /\ suIn' = Su!BrokenOff({u})
      /\ UNCHANGED <<suLatest, suSums, suTarget, suNew, suNext, suKept, suEarly, suLive, suFile, suReq, suAsks, suDone, suRaced, suShared, suBlind, suCut>>
  BY DEF Su!Killed, Su!world, Su!past
<1>2. /\ OneRequest' /\ Confirmed' /\ suUpd' \in [Su!Updaters -> SuRun] /\ suUpd'[u] = Su!NoRun
      /\ \A w \in Su!Updaters \ {u} : suUpd'[w] = suUpd[w]
  BY <1>1, RunMoves, NoRunTyped
<1>3. suIn' \in [Su!Inodes -> [v : Nat, whole : BOOLEAN, mixed : BOOLEAN]]
  BY <1>1, BreaksOff
<1>4. SuTyped'
  BY <1>1, <1>2, <1>3 DEF SuInv, SuTyped
<1>5. \A k \in Su!Inodes : suIn'[k].whole = suIn[k].whole /\ (Filled(k) => Filled(k)')
  BY <1>1, <1>2, BrokenIsFilled
<1>6. Checked' /\ Sound'
  BY <1>1, <1>2, <1>5, NoRunTyped DEF SuInv, SuTyped, Checked, Sound
<1>7. CopiesAlone'
  <2> SUFFICES ASSUME ~suShared PROVE CopiesAlone'
    BY <1>1 DEF CopiesAlone
  <2>1. \A w \in Su!Updaters : suUpd'[w].pc \in {"copy", "rename"} => w # u /\ suUpd'[w] = suUpd[w]
    BY <1>2, NoRunTyped
  <2>2. \A w \in Su!Updaters : suUpd'[w].pc = "copy" => suUpd[u].pc # "copy" /\ suNew \in Su!Inodes
    BY <2>1 DEF SuInv, SuTyped, CopiesAlone, Copying
  <2>3. suUpd[u].pc # "copy" => \A k \in Su!Inodes : suIn'[k].mixed = suIn[k].mixed
    BY <1>1, <1>3, BreaksOff DEF SuInv, SuTyped
  <2> QED
    BY <1>1, <1>5, <2>1, <2>2, <2>3 DEF SuInv, SuTyped, CopiesAlone, Copying
<1> QED
  BY <1>2, <1>4, <1>6, <1>7 DEF SuInv

LEMMA WriteBackKeeps == ASSUME SuConstants, SuInv, Su!WriteBack PROVE SuInv'
<1>1. /\ suKept' = [target |-> suTarget, file |-> suFile]
      /\ UNCHANGED <<suLatest, suSums, suIn, suTarget, suNew, suNext, suEarly, suLive, suFile, suReq, suUpd, suAsks, suDone, suRaced, suShared, suBlind, suCut>>
  BY DEF Su!WriteBack, Su!world, Su!past
<1>2. suKept'.target = suTarget /\ suKept'.file = suFile
  BY <1>1
<1>3. SuTyped' /\ Checked'
  BY <1>1, <1>2 DEF SuInv, SuTyped, Checked
<1>4. CopiesAlone' /\ Sound'
  BY <1>1, <1>2 DEF SuInv, CopiesAlone, Copying, Sound, Filled, Su!Filling
<1>5. OneRequest' /\ Confirmed'
  BY <1>1, <1>2 DEF SuInv, OneRequest, AllRead, Su!AcceptedIsRead, Confirmed, Su!InterruptionConfirmed
<1> QED
  BY <1>3, <1>4, <1>5 DEF SuInv

(* A field of one record of a function is weakened, the rest stays.        *)
LEMMA TornAt == ASSUME NEW B \in [Su!Inodes -> [v : Nat, whole : BOOLEAN, mixed : BOOLEAN]], NEW t \in Su!Inodes, NEW T
                PROVE  LET C == [B EXCEPT ![t].whole = @ /\ t \notin T] IN
                       /\ C \in [Su!Inodes -> [v : Nat, whole : BOOLEAN, mixed : BOOLEAN]]
                       /\ \A k \in Su!Inodes : C[k].mixed = B[k].mixed /\ (k # t => C[k].whole = B[k].whole)
                       /\ C[t].whole <=> B[t].whole /\ t \notin T
<1>1. CASE t \in T
  <2>1. [B EXCEPT ![t].whole = @ /\ t \notin T] = [B EXCEPT ![t].whole = FALSE]
    BY <1>1
  <2> QED
    BY <1>1, <2>1
<1>2. CASE t \notin T
  <2>1. [B EXCEPT ![t].whole = @ /\ t \notin T] = B
    BY <1>2
  <2> QED
    BY <1>2, <2>1
<1> QED
  BY <1>1, <1>2

LEMMA CrashKeeps == ASSUME SuConstants, SuInv, Su!Crash PROVE SuInv'
<1>1. /\ suReq' = [a \in Admins |-> Su!NoRequest] /\ suUpd' = [u \in Su!Updaters |-> Su!NoRun] /\ suLive' = {} /\ suEarly' = suEarly \union Su!Unwritten
      /\ UNCHANGED <<suLatest, suSums, suNew, suNext, suAsks, suDone, suRaced, suShared, suBlind, suCut>>
  BY DEF Su!Crash, Su!Boot, Su!world
<1>2. PICK t \in {suTarget, suKept.target}, f \in {suFile, suKept.file} : \E torn \in SUBSET (suDirty \intersect {t, 0}) :
        /\ suTarget' = t /\ suIn' = [Su!BrokenOff(Su!Updaters) EXCEPT ![t].whole = @ /\ t \notin torn]
        /\ suFile' = {[q EXCEPT !.torn = @ \/ 0 \in torn] : q \in f} /\ suKept' = [target |-> t, file |-> suFile']
  BY DEF Su!Crash
<1>3. PICK torn \in SUBSET (suDirty \intersect {t, 0}) :
        /\ suTarget' = t /\ suIn' = [Su!BrokenOff(Su!Updaters) EXCEPT ![t].whole = @ /\ t \notin torn]
        /\ suFile' = {[q EXCEPT !.torn = @ \/ 0 \in torn] : q \in f} /\ suKept' = [target |-> t, file |-> suFile']
  BY <1>2
<1>4. suReq' \in [Admins -> SuAsk] /\ \A a \in Admins : suReq'[a].pc = "idle" /\ suReq'[a].live = {}
  BY <1>1, BootKeeps
<1>5. suUpd' \in [Su!Updaters -> SuRun] /\ "unit" \in Su!Updaters /\ \A u \in Su!Updaters : suUpd'[u].pc = "idle" /\ suUpd'[u].live = {}
  BY <1>1, NoRunTyped DEF Su!Updaters
<1>6. /\ suFile' \subseteq SuFile /\ (\A q, r \in suFile' : q = r) /\ (\A q \in suFile' : q.force \/ q.live = {})
      /\ {q.id : q \in suFile'} = {q.id : q \in f}
  <2>1. f \subseteq SuFile /\ (\A q, r \in f : q = r) /\ (\A q \in f : q.force \/ q.live = {})
    BY DEF SuInv, SuTyped, OneRequest, Confirmed
  <2>2. PICK g : g = [q \in f |-> [q EXCEPT !.torn = @ \/ 0 \in torn]]
    OBVIOUS
  <2>3. \A q \in f : g[q] \in SuFile /\ g[q].id = q.id /\ g[q].force = q.force /\ g[q].live = q.live
    <3> SUFFICES ASSUME NEW q \in f PROVE g[q] \in SuFile /\ g[q].id = q.id /\ g[q].force = q.force /\ g[q].live = q.live
      OBVIOUS
    <3>1. PICK b \in BOOLEAN : b = (q.torn \/ 0 \in torn)
      OBVIOUS
    <3>2. g[q] = [q EXCEPT !.torn = b] /\ q \in SuFile
      BY <2>1, <2>2, <3>1
    <3> QED
      BY <3>2 DEF SuFile
  <2>4. suFile' = {g[q] : q \in f}
    BY <1>3, <2>2
  <2> HIDE DEF SuFile
  <2> QED
    BY <2>1, <2>3, <2>4
<1>7. suKept'.target = t /\ suKept'.file = suFile'
  BY <1>3
<1>8. t \in Su!Inodes /\ t < suNext /\ t # suNew
  BY DEF SuInv, SuTyped
<1>9. /\ suIn' \in [Su!Inodes -> [v : Nat, whole : BOOLEAN, mixed : BOOLEAN]]
      /\ \A k \in Su!Inodes :
            /\ suIn'[k].mixed <=> suIn[k].mixed \/ \E u \in Su!Updaters : suUpd[u].pc = "copy" /\ suUpd[u].ino = k
            /\ k # t => suIn'[k].whole = suIn[k].whole
      /\ t \notin torn => (suIn'[t].whole <=> suIn[t].whole)
  <2>1. PICK B : B = Su!BrokenOff(Su!Updaters)
    OBVIOUS
  <2>2. /\ B \in [Su!Inodes -> [v : Nat, whole : BOOLEAN, mixed : BOOLEAN]]
        /\ \A k \in Su!Inodes :
              /\ B[k].whole = suIn[k].whole
              /\ B[k].mixed <=> suIn[k].mixed \/ \E u \in Su!Updaters : suUpd[u].pc = "copy" /\ suUpd[u].ino = k
    BY <2>1, BreaksOff
  <2>3. suIn' = [B EXCEPT ![t].whole = @ /\ t \notin torn]
    BY <1>3, <2>1
  <2>5. /\ suIn' \in [Su!Inodes -> [v : Nat, whole : BOOLEAN, mixed : BOOLEAN]]
        /\ \A k \in Su!Inodes : suIn'[k].mixed = B[k].mixed /\ (k # t => suIn'[k].whole = B[k].whole)
        /\ suIn'[t].whole <=> B[t].whole /\ t \notin torn
    BY <1>8, <2>2, <2>3, TornAt
  <2>6. t \notin torn => (suIn'[t].whole <=> suIn[t].whole)
    BY <1>8, <2>2, <2>5
  <2> QED
    BY <1>8, <2>2, <2>5, <2>6
<1>10. SuTyped'
  BY <1>1, <1>3, <1>4, <1>5, <1>6, <1>7, <1>8, <1>9 DEF SuInv, SuTyped
<1>11. t \in torn => "binary" \in suEarly'
  BY <1>1, <1>3 DEF Su!Unwritten
<1>12. suEarly \subseteq suEarly'
  BY <1>1
<1>13. Checked' /\ CopiesAlone'
  BY <1>1, <1>3, <1>5, <1>7, <1>8, <1>9, <1>11, <1>12 DEF SuInv, Checked, CopiesAlone, Copying
<1>14. Sound'
  <2>1. \A k \in Su!Inodes : (k # t \/ t \notin torn) /\ Filled(k) => Filled(k)'
    BY <1>8, <1>9 DEF Filled, Su!Filling
  <2> QED
    BY <1>1, <1>3, <1>7, <1>8, <1>11, <1>12, <2>1 DEF SuInv, SuTyped, Sound
<1>15. OneRequest' /\ Confirmed'
  <2>1. f # suFile => "request" \in suEarly'
    BY <1>1 DEF Su!Unwritten
  <2>2. Su!AcceptedIsRead'
    BY <1>1, <1>6, <1>12, <2>1 DEF SuInv, OneRequest, Su!AcceptedIsRead
  <2> QED
    BY <1>1, <1>4, <1>5, <1>6, <1>7, <2>2 DEF SuInv, OneRequest, Confirmed, Su!InterruptionConfirmed
<1> QED
  BY <1>10, <1>13, <1>14, <1>15 DEF SuInv

LEMMA SuNext == ASSUME SuConstants, SuInv, [Su!Next]_Su!vars PROVE SuInv'
<1>1. CASE UNCHANGED Su!vars
  <2>1. UNCHANGED <<suLatest, suSums, suIn, suTarget, suNew, suNext, suKept, suEarly, suLive, suFile, suReq, suUpd, suAsks, suDone, suRaced, suShared, suBlind, suCut>>
    BY <1>1 DEF Su!vars
  <2> QED
    BY <2>1, DiskStands DEF SuInv, SuTyped, OneRequest, AllRead, Su!AcceptedIsRead, Confirmed, Su!InterruptionConfirmed
<1>2. CASE Su!Next
  BY <1>2, WorldKeeps, UnitStartsKeeps, WriteBackKeeps, KilledKeeps, CrashKeeps, RequestFeedKeeps, RequestWritesKeeps, RequestChecksKeeps, HandStartsKeeps,
     ResolveKeeps, DownloadKeeps, VerifyKeeps, CopyBeginsKeeps, CopyEndsKeeps, RenameKeeps, SuRestartKeeps DEF Su!Next, Su!Step
<1> QED
  BY <1>1, <1>2

(* atomicReplace: the installed binary is complete and the one released,   *)
(* whenever an updater is killed or the host goes down, for any number of  *)
(* requests, runs and crashes; excepted are releases without checksums, a  *)
(* host that goes down before the new binary is on the disk (the code does *)
(* not wait for it), and two updaters in one target.new while one fills it *)
(* or with two releases or a broken copy in it.                            *)
THEOREM UpdateIsAtomic == ASSUME SuConstants PROVE Su!Spec => []Su!InstalledIsWhole
<1>1. SuInv => Su!InstalledIsWhole
  BY DEF SuInv, CopiesAlone, Sound, Filled, Su!InstalledIsWhole
<1>2. SuInv /\ [Su!Next]_Su!vars => SuInv'
  BY SuNext
<1>3. Su!Init => SuInv
  BY SuInit
<1> QED
  BY <1>1, <1>2, <1>3, PTL DEF Su!Spec

(* requestUpdate and the oneshot: an accepted request is read, unless two  *)
(* were made at a time, and no unforced upgrade cuts a session that was    *)
(* live when it was asked for.                                             *)
THEOREM RequestsAreMet == ASSUME SuConstants PROVE Su!Spec => [](Su!AcceptedIsRead /\ Su!InterruptionConfirmed)
<1>1. SuInv => Su!AcceptedIsRead /\ Su!InterruptionConfirmed
  BY DEF SuInv, OneRequest, Confirmed
<1>2. SuInv /\ [Su!Next]_Su!vars => SuInv'
  BY SuNext
<1>3. Su!Init => SuInv
  BY SuInit
<1> QED
  BY <1>1, <1>2, <1>3, PTL DEF Su!Spec

-----------------------------------------------------------------------------
(***************************************************************************)
(* The end of the gateway, for every number of requests, sessions and      *)
(* workers, and for every queue, budget and kill timeout.                  *)
(***************************************************************************)

(* Steps of Run after which the listener, the call log, the workers are    *)
(* done with.                                                              *)
Served == {"sessions", "channels", "outbound", "drain", "wait", "close", "stopped"}
Hushed == {"drain", "wait", "close", "stopped"}
Emptied == {"wait", "close", "stopped"}

ShutTyped ==
    /\ sdPc \in {"serve", "failed", "http"} \union Served
    /\ sdTime \in Nat /\ sdDrained \in Nat /\ sdTermAt \in Nat
    /\ sdReq \in [Sd!Calls -> {"none", "open", "done", "lost", "panic"}]
    /\ sdSess \in [Sessions -> {"live", "term", "kill", "ended"}]
    /\ sdBg \in [Sd!All -> {"run", "done"}] /\ sdNext \in Nat
    /\ sdCalls \in Seq(Sd!Calls)
    /\ sdClosed <=> sdPc \in Hushed

(* What was accepted is in the queue until its INSERT succeeds or fails,   *)
(* and once the queue is closed and drained it stays empty.                *)
Pending == { sdCalls[i] : i \in 1..Len(sdCalls) }
Logging ==
    /\ sdQueued \subseteq sdLogged \union sdFailed \union Pending
    /\ sdPc \in Emptied => sdCalls = <<>>

(* After an early drain no request is left to meet the closed channel.     *)
Drained == sdPc \in Served /\ sdDrained # Budget => \A r \in Reqs : sdReq[r] # "open"
Panics == \A r \in Reqs : sdReq[r] = "panic" => sdPc \in Served /\ sdDrained = Budget

(* Everybody has had a SIGTERM; whoever ignores it is not late yet, for    *)
(* the clock does not pass a kill that is due.                             *)
Killing ==
    /\ sdPc \in Served => sdTermAt = sdDrained /\ \A s \in Sessions : sdSess[s] # "live"
    /\ sdPc = "sessions" /\ (\E s \in Sessions : sdSess[s] = "term") => sdTime <= sdTermAt + KillAfter
    /\ sdPc \in {"channels", "outbound"} \union Hushed /\ sdDrained + KillAfter < Budget
         => \A s \in Sessions : sdSess[s] # "term"

(* The workers before the one Run waits for are done or given up, and the  *)
(* store is closed only behind the last of them.                           *)
Waiting ==
    /\ \A i \in 1..Len(WaitOrder) : i < sdNext => sdBg[WaitOrder[i]] = "done" \/ WaitOrder[i] \in sdGaveUp
    /\ sdPc \in {"close", "stopped"} => sdNext > Len(WaitOrder)
    /\ Sd!StoreOutlivesWorkers

ShutInv == ShutTyped /\ Logging /\ Drained /\ Panics /\ Killing /\ Waiting

(* Before the signal nothing is due.                                       *)
LEMMA ShutInit == ASSUME Sd!Init PROVE ShutInv
<1>1. ~sdClosed
  BY Zenon DEF Sd!Init
<1>2. /\ sdPc = "serve" /\ sdCalls = <<>> /\ sdQueued = {} /\ sdTime = 0 /\ sdDrained = 0 /\ sdTermAt = 0
      /\ sdNext = 1 /\ sdLate = {}
  BY Zenon DEF Sd!Init
<1>3. ShutTyped
  <2>1. /\ sdReq \in [Sd!Calls -> {"none", "open", "done", "lost", "panic"}]
        /\ sdSess \in [Sessions -> {"live", "term", "kill", "ended"}]
        /\ sdBg \in [Sd!All -> {"run", "done"}]
    BY DEF Sd!Init
  <2> QED
    BY <1>1, <1>2, <2>1 DEF ShutTyped, Served, Hushed
<1>4. Logging /\ Drained /\ Panics
  BY <1>2 DEF Sd!Init, Logging, Pending, Drained, Panics, Served, Emptied, Sd!Calls
<1>5. Killing /\ Waiting
  BY <1>2 DEF Killing, Waiting, Sd!StoreOutlivesWorkers, Served, Hushed
<1> QED
  BY <1>3, <1>4, <1>5 DEF ShutInv

(* The middleware and the consumer of the call log.                        *)
LEMMA CallStepKeeps ==
    ASSUME ShutInv, NEW r \in Sd!Calls, Sd!Accept(r) \/ Sd!Record(r) \/ Sd!Consume
    PROVE  ShutInv'
<1>1. ShutTyped /\ Logging /\ Drained /\ Panics /\ Killing /\ Waiting
  BY DEF ShutInv
<1>2. UNCHANGED <<sdPc, sdTime, sdDrained, sdClosed, sdSess, sdTermAt, sdBg, sdNext, sdGaveUp, sdLate>>
  BY DEF Sd!Accept, Sd!Record, Sd!Consume, Sd!clock, Sd!sess, Sd!work
<1>3. Killing' /\ Waiting'
  BY <1>1, <1>2 DEF Killing, Waiting, Sd!StoreOutlivesWorkers
<1>4. CASE Sd!Accept(r)
  <2>1. sdPc = "serve" /\ sdReq' = [sdReq EXCEPT ![r] = "open"] /\ UNCHANGED Sd!calls
    BY <1>4 DEF Sd!Accept
  <2>2. ShutTyped' /\ Logging'
    BY <1>1, <1>2, <2>1 DEF ShutTyped, Logging, Pending, Sd!calls
  <2>3. Drained' /\ Panics'
    BY <1>1, <1>2, <2>1 DEF ShutTyped, Drained, Panics, Served
  <2> QED
    BY <1>3, <2>2, <2>3 DEF ShutInv
<1>5. CASE Sd!Record(r)
  <2>1. /\ sdReq[r] = "open" /\ UNCHANGED <<sdLogged, sdFailed>>
        /\ \/ ~sdClosed /\ sdCalls' = Append(sdCalls, r) /\ sdQueued' = sdQueued \union {r}
           \/ UNCHANGED <<sdCalls, sdQueued>>
    BY <1>5 DEF Sd!Record
  <2> DEFINE w == CASE sdClosed -> "panic" [] Len(sdCalls) = Queue -> "lost" [] OTHER -> "done"
  <2>0. w \in {"done", "lost", "panic"} /\ (w = "panic" => sdClosed)
    OBVIOUS
  <2>2. PICK v \in {"done", "lost", "panic"} : sdReq' = [sdReq EXCEPT ![r] = v] /\ (v = "panic" => sdClosed)
    <3>1. sdReq' = [sdReq EXCEPT ![r] = w]
      BY <1>5 DEF Sd!Record
    <3> HIDE DEF w
    <3> QED
      BY <2>0, <3>1
  <2>3. ShutTyped'
    BY <1>1, <1>2, <2>1, <2>2 DEF ShutTyped
  <2>4. Drained' /\ Panics'
    BY <1>1, <1>2, <2>1, <2>2 DEF ShutTyped, Drained, Panics, Served, Hushed, Sd!Calls
  <2>5. CASE UNCHANGED <<sdCalls, sdQueued>>
    BY <1>1, <1>2, <1>3, <2>1, <2>3, <2>4, <2>5 DEF ShutInv, Logging, Pending
  <2>6. CASE ~sdClosed /\ sdCalls' = Append(sdCalls, r) /\ sdQueued' = sdQueued \union {r}
    <3>1. sdCalls \in Seq(Sd!Calls) /\ sdPc \notin Emptied
      BY <1>1, <2>6 DEF ShutTyped, Hushed, Emptied
    <3>2. Pending \subseteq Pending' /\ r \in Pending'
      BY <2>6, <3>1 DEF Pending
    <3>3. Logging'
      BY <1>1, <1>2, <2>1, <2>6, <3>1, <3>2 DEF Logging
    <3> QED
      BY <1>3, <2>3, <2>4, <3>3 DEF ShutInv
  <2> QED
    BY <2>1, <2>5, <2>6
<1>6. CASE Sd!Consume
  <2>1. sdCalls # <<>> /\ sdCalls' = Tail(sdCalls) /\ UNCHANGED <<sdReq, sdQueued>>
    BY <1>6 DEF Sd!Consume
  <2>2. sdCalls \in Seq(Sd!Calls) /\ sdPc \notin Emptied
    BY <1>1, <2>1 DEF ShutTyped, Logging
  <2>3. (sdLogged \union sdFailed)' = sdLogged \union sdFailed \union {Head(sdCalls)}
    BY <1>6, <2>2, Zenon DEF Sd!Consume, Sd!StoreOpen, Emptied
  <2>4. Pending \subseteq {Head(sdCalls)} \union Pending'
    <3> SUFFICES ASSUME NEW i \in 1..Len(sdCalls), i # 1 PROVE sdCalls[i] \in Pending'
      <4>1. sdCalls[1] = Head(sdCalls)
        BY <2>1, <2>2
      <4> QED
        BY <4>1 DEF Pending
    <3>1. i - 1 \in 1..Len(Tail(sdCalls)) /\ Tail(sdCalls)[i - 1] = sdCalls[i]
      BY <2>1, <2>2
    <3> QED
      BY <2>1, <3>1 DEF Pending
  <2>5. Logging'
    BY <1>1, <1>2, <2>1, <2>2, <2>3, <2>4 DEF Logging
  <2>6. ShutTyped' /\ Drained' /\ Panics'
    BY <1>1, <1>2, <2>1, <2>2 DEF ShutTyped, Drained, Panics
  <2> QED
    BY <1>3, <2>5, <2>6 DEF ShutInv
<1> QED
  BY <1>4, <1>5, <1>6

(* The clock, the sessions, the dispatcher and the audit sink.             *)
LEMMA SessStepKeeps ==
    ASSUME ShutInv, Budget \in Nat, KillAfter \in Nat,
           \/ Sd!Tick \/ Sd!Kill \/ Sd!OutboundEnds \/ (\E s \in Sessions : Sd!SessionEnds(s) \/ Sd!AuditWrite(s))
    PROVE  ShutInv'
<1>1. ShutTyped /\ Logging /\ Drained /\ Panics /\ Killing /\ Waiting
  BY DEF ShutInv
<1>2. /\ UNCHANGED <<sdPc, sdDrained, sdTermAt, sdReq, sdClosed, sdCalls, sdQueued, sdLogged, sdFailed>>
      /\ UNCHANGED <<sdBg, sdNext, sdGaveUp, sdLate>>
  BY DEF Sd!Tick, Sd!Kill, Sd!OutboundEnds, Sd!SessionEnds, Sd!AuditWrite, Sd!clock, Sd!http, Sd!calls, Sd!sess, Sd!work
<1>3. Logging' /\ Drained' /\ Panics' /\ Waiting'
  BY <1>1, <1>2 DEF Logging, Pending, Drained, Panics, Waiting, Sd!StoreOutlivesWorkers
<1>4. CASE Sd!OutboundEnds \/ \E s \in Sessions : Sd!AuditWrite(s)
  <2>1. UNCHANGED <<sdTime, sdSess>>
    BY <1>4 DEF Sd!OutboundEnds, Sd!AuditWrite, Sd!clock, Sd!sess
  <2> QED
    BY <1>1, <1>2, <1>3, <2>1 DEF ShutInv, ShutTyped, Killing
<1>5. CASE Sd!Tick
  <2>1. sdTime' = sdTime + 1 /\ ~Sd!KillDue /\ UNCHANGED sdSess
    BY <1>5 DEF Sd!Tick, Sd!sess
  <2>2. sdPc = "sessions" /\ (\E s \in Sessions : sdSess[s] = "term") => sdTime + 1 <= sdTermAt + KillAfter
    BY <1>1, <2>1 DEF Sd!KillDue, ShutTyped
  <2> QED
    BY <1>1, <1>2, <1>3, <2>1, <2>2 DEF ShutInv, ShutTyped, Killing
<1>6. CASE Sd!Kill
  <2>1. UNCHANGED sdTime /\ sdSess' = [s \in Sessions |-> IF sdSess[s] = "term" THEN "kill" ELSE sdSess[s]]
    BY <1>6 DEF Sd!Kill, Sd!clock
  <2> QED
    BY <1>1, <1>2, <1>3, <2>1 DEF ShutInv, ShutTyped, Killing
<1>7. ASSUME NEW s \in Sessions, Sd!SessionEnds(s) PROVE ShutInv'
  <2>1. UNCHANGED sdTime /\ sdSess' = [sdSess EXCEPT ![s] = "ended"]
    BY <1>7 DEF Sd!SessionEnds, Sd!clock
  <2> QED
    BY <1>1, <1>2, <1>3, <2>1 DEF ShutInv, ShutTyped, Killing
<1> QED
  BY <1>4, <1>5, <1>6, <1>7

(* The workers: whoever still runs when the store is closed is behind the  *)
(* wait, and was given up.                                                 *)
LEMMA WorkStepKeeps ==
    ASSUME ShutInv, WaitOrder \in Seq(Sd!All), NEW w \in Sd!All, Sd!WorkerStep(w) \/ Sd!WorkerStops(w)
    PROVE  ShutInv'
<1>1. ShutTyped /\ Logging /\ Drained /\ Panics /\ Killing /\ Waiting
  BY DEF ShutInv
<1>2. /\ UNCHANGED <<sdPc, sdTime, sdDrained, sdTermAt, sdSess, sdReq, sdCalls, sdClosed, sdQueued, sdLogged, sdFailed>>
      /\ UNCHANGED <<sdNext, sdGaveUp>> /\ sdBg[w] = "run"
      /\ \/ sdPc = "stopped" /\ sdLate' = sdLate \union {w} /\ UNCHANGED sdBg
         \/ UNCHANGED sdLate /\ sdBg' = [sdBg EXCEPT ![w] = "done"]
  BY DEF Sd!WorkerStep, Sd!WorkerStops, Sd!StoreOpen, Sd!clock, Sd!http, Sd!calls, Sd!sess
<1>3. Logging' /\ Drained' /\ Panics' /\ Killing' /\ ShutTyped'
  BY <1>1, <1>2 DEF Logging, Pending, Drained, Panics, Killing, ShutTyped
<1>4. Waiting'
  <2>1. \A i \in 1..Len(WaitOrder) : WaitOrder[i] \in Sd!All
    OBVIOUS
  <2>2. sdNext \in Nat /\ sdBg \in [Sd!All -> {"run", "done"}]
    BY <1>1 DEF ShutTyped
  <2> QED
    BY <1>1, <1>2, <2>1, <2>2 DEF Waiting, Sd!StoreOutlivesWorkers
<1> QED
  BY <1>3, <1>4 DEF ShutInv

(* The steps of Run.                                                       *)
LEMMA RunStepKeeps ==
    ASSUME ShutInv, Budget \in Nat, KillAfter \in Nat, WaitOrder \in Seq(Sd!All), Sd!Signal \/ Sd!ServeFails \/ Sd!RunStep
    PROVE  ShutInv'
<1>1. ShutTyped /\ Logging /\ Drained /\ Panics /\ Killing /\ Waiting
  BY DEF ShutInv
<1>2. UNCHANGED <<sdTime, sdReq, sdCalls, sdQueued, sdLogged, sdFailed, sdBg, sdLate>>
  BY DEF Sd!Signal, Sd!ServeFails, Sd!RunStep, Sd!HttpShutdown, Sd!SessionsTerminated, Sd!SessionsShutdown, Sd!HubShutdown, Sd!CallLogCloses,
         Sd!CallLogDrained, Sd!WaitNext, Sd!WaitOver, Sd!Close, Sd!clock, Sd!http, Sd!calls, Sd!work
<1>3. CASE Sd!Signal \/ Sd!ServeFails
  <2>1. /\ sdPc = "serve" /\ sdPc' \in {"http", "failed"}
        /\ UNCHANGED <<sdDrained, sdTermAt, sdSess, sdClosed, sdNext, sdGaveUp>>
    BY <1>3 DEF Sd!Signal, Sd!ServeFails, Sd!clock, Sd!http, Sd!sess, Sd!work
  <2> QED
    BY <1>1, <1>2, <2>1
       DEF ShutInv, ShutTyped, Logging, Pending, Drained, Panics, Killing, Waiting, Sd!StoreOutlivesWorkers, Served, Hushed, Emptied
<1>4. CASE Sd!HttpShutdown
  <2>1. /\ sdPc = "http" /\ sdPc' = "sessions" /\ sdDrained' = sdTime /\ sdTermAt' = sdTime
        /\ sdTime = Budget \/ \A r \in Reqs : sdReq[r] # "open"
        /\ sdSess' = [s \in Sessions |-> IF sdSess[s] = "live" THEN "term" ELSE sdSess[s]]
        /\ UNCHANGED <<sdClosed, sdNext, sdGaveUp>>
    BY <1>4 DEF Sd!HttpShutdown, Sd!SessionsTerminated, Sd!http, Sd!work
  <2>2. ShutTyped' /\ Logging'
    BY <1>1, <1>2, <2>1 DEF ShutTyped, Logging, Pending, Served, Hushed, Emptied
  <2>3. Drained' /\ Panics'
    BY <1>1, <1>2, <2>1 DEF Drained, Panics, Served
  <2>4. Killing' /\ Waiting'
    BY <1>1, <1>2, <2>1 DEF ShutTyped, Killing, Waiting, Sd!StoreOutlivesWorkers, Served, Hushed
  <2> QED
    BY <2>2, <2>3, <2>4 DEF ShutInv
<1>5. CASE Sd!SessionsShutdown
  <2>1. /\ sdPc = "sessions" /\ sdPc' = "channels" /\ UNCHANGED <<sdDrained, sdTermAt, sdSess, sdClosed, sdNext, sdGaveUp>>
        /\ sdTime = Budget \/ \A s \in Sessions : sdSess[s] = "ended"
    BY <1>5 DEF Sd!SessionsShutdown, Sd!clock, Sd!http, Sd!sess, Sd!work
  <2>2. ShutTyped' /\ Logging' /\ Drained' /\ Panics' /\ Waiting'
    BY <1>1, <1>2, <2>1
       DEF ShutTyped, Logging, Pending, Drained, Panics, Waiting, Sd!StoreOutlivesWorkers, Served, Hushed, Emptied
  <2>3. Killing'
    BY <1>1, <1>2, <2>1 DEF ShutTyped, Killing, Served, Hushed
  <2> QED
    BY <2>2, <2>3 DEF ShutInv
<1>6. CASE Sd!WaitNext
  <2>1. /\ sdNext <= Len(WaitOrder) /\ sdNext' = sdNext + 1 /\ sdPc = "wait"
        /\ \/ sdBg[WaitOrder[sdNext]] = "done" /\ UNCHANGED sdGaveUp
           \/ sdGaveUp' = sdGaveUp \union {WaitOrder[sdNext]}
        /\ UNCHANGED <<sdPc, sdDrained, sdTermAt, sdSess, sdClosed>>
    BY <1>6 DEF Sd!WaitNext, Sd!clock, Sd!http, Sd!sess
  <2>2. ShutTyped' /\ Logging' /\ Drained' /\ Panics' /\ Killing'
    BY <1>1, <1>2, <2>1 DEF ShutTyped, Logging, Pending, Drained, Panics, Killing
  <2>3. Len(WaitOrder) \in Nat /\ sdNext \in Nat
    BY <1>1 DEF ShutTyped
  <2>4. Waiting'
    BY <1>1, <1>2, <2>1, <2>3 DEF Waiting, Sd!StoreOutlivesWorkers
  <2> QED
    BY <2>2, <2>4 DEF ShutInv
<1>7. CASE Sd!HubShutdown \/ Sd!CallLogCloses \/ Sd!CallLogDrained \/ Sd!WaitOver \/ Sd!Close
  <2>1. /\ UNCHANGED <<sdDrained, sdTermAt, sdSess, sdNext, sdGaveUp>>
        /\ \/ sdPc = "channels" /\ sdPc' = "outbound" /\ UNCHANGED sdClosed
           \/ sdPc = "outbound" /\ sdPc' = "drain" /\ sdClosed'
           \/ sdPc = "drain" /\ sdPc' = "wait" /\ sdCalls = <<>> /\ UNCHANGED sdClosed
           \/ sdPc = "wait" /\ sdPc' = "close" /\ sdNext > Len(WaitOrder) /\ UNCHANGED sdClosed
           \/ sdPc = "close" /\ sdPc' = "stopped" /\ UNCHANGED sdClosed
    BY <1>7, Zenon DEF Sd!HubShutdown, Sd!CallLogCloses, Sd!CallLogDrained, Sd!WaitOver, Sd!Close, Sd!clock, Sd!http, Sd!sess, Sd!work
  <2>2. ShutTyped'
    BY <1>1, <1>2, <2>1 DEF ShutTyped, Served, Hushed
  <2>3. Logging' /\ Drained' /\ Panics' /\ Waiting'
    BY <1>1, <1>2, <2>1 DEF Logging, Pending, Drained, Panics, Waiting, Sd!StoreOutlivesWorkers, Served, Hushed, Emptied
  <2>4. Killing'
    BY <1>1, <1>2, <2>1 DEF Killing, Served, Hushed
  <2> QED
    BY <2>2, <2>3, <2>4 DEF ShutInv
<1> QED
  BY <1>3, <1>4, <1>5, <1>6, <1>7 DEF Sd!RunStep

(* The invariant is inductive.                                             *)
LEMMA ShutNext ==
    ASSUME Budget \in Nat, KillAfter \in Nat, WaitOrder \in Seq(Sd!All), ShutInv, [Sd!Next]_Sd!vars
    PROVE  ShutInv'
<1>1. CASE UNCHANGED Sd!vars
  BY <1>1 DEF Sd!vars, ShutInv, ShutTyped, Logging, Pending, Drained, Panics, Killing, Waiting, Sd!StoreOutlivesWorkers
<1>2. CASE \E r \in Sd!Calls : Sd!Accept(r) \/ Sd!Record(r)
  BY <1>2, CallStepKeeps
<1>3. CASE Sd!Consume
  <2>1. PICK r : r \in Sd!Calls
    BY <1>3 DEF Sd!Consume, ShutInv, ShutTyped
  <2> QED
    BY <1>3, <2>1, CallStepKeeps
<1>4. CASE Sd!Signal \/ Sd!ServeFails \/ Sd!RunStep
  BY <1>4, RunStepKeeps
<1>5. CASE Sd!Tick \/ Sd!Kill \/ Sd!OutboundEnds \/ (\E s \in Sessions : Sd!SessionEnds(s) \/ Sd!AuditWrite(s))
  BY <1>5, SessStepKeeps
<1>6. CASE \E w \in Sd!All : Sd!WorkerStep(w) \/ Sd!WorkerStops(w)
  BY <1>6, WorkStepKeeps
<1> QED
  BY <1>1, <1>2, <1>3, <1>4, <1>5, <1>6 DEF Sd!Next

(* App.Run ends in order, whatever hangs: the calls accepted into the log  *)
(* were written or refused by the database, only stragglers of a drain     *)
(* that timed out meet the closed channel, no CLI is left without its      *)
(* SIGKILL when the drain left time for it, and the store is closed under  *)
(* no worker that was waited for.                                          *)
THEOREM ShutdownInOrder ==
    ASSUME Budget \in Nat, KillAfter \in Nat, WaitOrder \in Seq(Sd!All)
    PROVE  Sd!Spec => [](Sd!CallsOnRecord /\ Sd!OnlyStragglersPanic /\ Sd!NoneLeftUnkilled /\ Sd!StoreOutlivesWorkers)
<1>1. ShutInv => Sd!CallsOnRecord /\ Sd!OnlyStragglersPanic /\ Sd!NoneLeftUnkilled /\ Sd!StoreOutlivesWorkers
  <2> SUFFICES ASSUME ShutInv PROVE Sd!CallsOnRecord /\ Sd!OnlyStragglersPanic /\ Sd!NoneLeftUnkilled /\ Sd!StoreOutlivesWorkers
    OBVIOUS
  <2>1. Sd!CallsOnRecord
    BY DEF ShutInv, Logging, Pending, Emptied, Sd!CallsOnRecord
  <2>2. Sd!OnlyStragglersPanic /\ Sd!StoreOutlivesWorkers
    BY DEF ShutInv, Panics, Waiting, Sd!OnlyStragglersPanic
  <2>3. Sd!NoneLeftUnkilled
    BY DEF ShutInv, Killing, Served, Hushed, Sd!NoneLeftUnkilled
  <2> QED
    BY <2>1, <2>2, <2>3
<1>2. Sd!Init => ShutInv
  BY ShutInit
<1>3. ShutInv /\ [Sd!Next]_Sd!vars => ShutInv'
  BY ShutNext
<1> QED
  BY <1>1, <1>2, <1>3, PTL DEF Sd!Spec
=============================================================================
