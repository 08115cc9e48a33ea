--------------------------- MODULE SessionManager ---------------------------
(***************************************************************************)
(* The session manager of internal/session: the calls that create, start,  *)
(* stop, switch and remove sessions, the exit detector (waitExit) that     *)
(* runs beside every process, and the gateway that shuts down, crashes and *)
(* reconciles the database when it boots again.                            *)
(*                                                                         *)
(* A goroutine's step is the code between two points where it can be       *)
(* overtaken: one critical section of m.mu, rs.sessMu or m.stopMu, one SQL *)
(* statement, one system call.  A run is one runningSession together with  *)
(* its process.  What a run does between spawn and exit (output, idle and  *)
(* turn detection) is the subject of SessionActivity: here "running"       *)
(* stands for both live states.                                            *)
(***************************************************************************)
EXTENDS Transitions, FiniteSets, Naturals

CONSTANTS
    Ids,          \* session ids
    Clients,      \* goroutines serving API calls, chat commands, failover
    Resumers,     \* slots of the auto-resume semaphore (autoResumeConcurrency)
    Runs,         \* bound: runningSessions that exist at the same time
    Accounts,     \* provider accounts a session can be bound to
    Ops,          \* the client operations and gateway events of this instance
    EarlyIds,     \* may a client address an id before Create has returned it?
    AutoResumeMax,\* OPENDRAY_AUTO_RESUME_MAX; 0 means no cap
    MaxFaults,    \* bound: SQL writes that fail
    NoRun, NoId

Callers == Clients \union Resumers

ReserveOps == {"start", "resume"}

SwitchOps == {"switch", "switch_rollback"}

SpawnOps == ReserveOps \union SwitchOps \union {"create"}

AllOps == SpawnOps \union {"stop", "remove"}

GatewayEvents == {"sigterm", "crash"}

ASSUME ConstantsAssumption ==
    /\ NoRun \notin Runs /\ NoId \notin Ids /\ Accounts # {}
    /\ Clients \intersect Resumers = {}
    /\ Ops \subseteq (AllOps \ {"resume"}) \union GatewayEvents
    /\ EarlyIds \in BOOLEAN

ASSUME BoundsAssumption == MaxFaults \in Nat /\ AutoResumeMax \in Nat

(* The states that reach the sessions table: Insert and Reactivate write   *)
(* running, the exit paths a terminal state; idle is kept in memory only.  *)
RowStates == Terminal \union {"running"}

VARIABLES
    row,        \* row[id]: "none", a row state, or "removed"   (postgres)
    rowAcct,    \* row[id].*_account_id                         (postgres)
    tmp,        \* does /tmp/opendray-sess-<id> exist?          (disk)
    faults,     \* SQL failures still to come
    gw,         \* phase of the gateway process
    sessions,   \* Manager.sessions: the live map
    starting,   \* Manager.starting: ids with a reserved spawn
    stopReq,    \* Manager.stopRequested
    toResume,   \* ids resumeInterrupted has still to launch
    rss,        \* Shutdown's snapshot of the live map
    runOf,      \* the session a run belongs to
    runAcct,    \* the account its process was launched under
    alive,      \* is its process running?
    sig,        \* the strongest signal sent to it: "none", "service" or "kill"
    rst,        \* rs.sess.State
    wpc,        \* where waitExit(rs) stands
    stopFlag,   \* waitExit: the value consumeStopRequest returned
    final,      \* waitExit: the state it classified the exit as
    asked,      \* history: a Stop of this run came before its exit was classified
    pc, op,     \* where each caller stands, and in which operation
    cid, acct,  \* its session id; <<account to spawn under, previous account>>
    crs,        \* Stop: the run it looked up
    crun        \* spawn: the run it launched

dbVars   == <<row, rowAcct, faults>>
memVars  == <<gw, sessions, starting, stopReq, toResume, rss>>
runVars  == <<runOf, runAcct, alive, sig, rst, wpc, stopFlag, final, asked>>
callVars == <<pc, op, cid, acct, crs, crun>>
vars     == <<dbVars, tmp, memVars, runVars, callVars>>

StopPcs  == {"stop_lookup", "stop_get", "stop_stale", "stop_mark", "stop_wait",
             "stop_kill_wait", "stop_ok"}
SpawnPcs == {"prepare", "launch", "persist", "install"}
Pcs      == {"idle", "reserve", "get", "release", "remove_get",
             "switch_get", "switch_persist"} \union StopPcs \union SpawnPcs
WaitPcs  == {"free", "launched", "wait", "classify", "mark", "set", "cleanup", "drop"}
GwPhases == {"down", "serving", "stopping", "closing", "killing"}

Closed == gw \in {"closing", "killing"}

Up == gw # "down"

(* Manager.closed is not set yet.                                          *)
Open == gw \in {"serving", "stopping"}

HasRow(id) == row[id] \in RowStates

(* A run whose endedCh is closed.  A caller that waits on it still names   *)
(* it, so it is not handed out again before that caller is gone.           *)
EndedCh(r) == wpc[r] \in {"drop", "free"}

FreeRuns == { r \in Runs : wpc[r] = "free" /\ \A c \in Callers : crs[c] # r }

SomeAccount == CHOOSE a \in Accounts : TRUE

(***************************************************************************)
(* Initial state: the gateway is down and the table holds whatever earlier *)
(* gateways left in it.                                                    *)
(***************************************************************************)

AllCallers(x) == [c \in Callers |-> x]

AllRuns(x) == [r \in Runs |-> x]

NoSessions == [id \in Ids |-> NoRun]

NoAccounts == <<SomeAccount, SomeAccount>>

Init ==
    /\ row \in [Ids -> {"none"} \union RowStates]
    /\ rowAcct = [id \in Ids |-> SomeAccount]
    /\ tmp = [id \in Ids |-> FALSE]
    /\ faults = MaxFaults
    /\ gw = "down"
    /\ sessions = NoSessions
    /\ starting = {} /\ stopReq = {} /\ toResume = {} /\ rss = {}
    /\ runOf = AllRuns(NoId) /\ runAcct = AllRuns(SomeAccount)
    /\ alive = AllRuns(FALSE) /\ sig = AllRuns("none")
    /\ rst = AllRuns("ended") /\ wpc = AllRuns("free")
    /\ stopFlag = AllRuns(FALSE) /\ final = AllRuns("none") /\ asked = AllRuns(FALSE)
    /\ pc = AllCallers("idle") /\ op = AllCallers("none") /\ cid = AllCallers(NoId)
    /\ acct = AllCallers(NoAccounts)
    /\ crs = AllCallers(NoRun) /\ crun = AllCallers(NoRun)

(***************************************************************************)
(* Callers.                                                                *)
(***************************************************************************)

Goto(c, p) == pc' = [pc EXCEPT ![c] = p]

(* The call returns, with or without an error.                             *)
Return(c) ==
    /\ pc'   = [pc   EXCEPT ![c] = "idle"]
    /\ op'   = [op   EXCEPT ![c] = "none"]
    /\ cid'  = [cid  EXCEPT ![c] = NoId]
    /\ acct' = [acct EXCEPT ![c] = NoAccounts]
    /\ crs'  = [crs  EXCEPT ![c] = NoRun]
    /\ crun' = [crun EXCEPT ![c] = NoRun]

(* A call enters: the closed check of Create, Start and Switch*Account is  *)
(* its own critical section (Stop and Remove have none).                   *)
Enter(c, o, id, p, accts) ==
    /\ pc[c] = "idle"
    /\ pc'   = [pc   EXCEPT ![c] = p]
    /\ op'   = [op   EXCEPT ![c] = o]
    /\ cid'  = [cid  EXCEPT ![c] = id]
    /\ acct' = [acct EXCEPT ![c] = accts]
    /\ UNCHANGED <<crs, crun>>

Addressable(id) ==
    /\ row[id] # "none"  \/ EarlyIds
    /\ EarlyIds \/ \A c \in Callers : ~(op[c] = "create" /\ cid[c] = id)

BeginCreate(c, id, a) ==
    /\ Open /\ "create" \in Ops /\ c \in Clients
    /\ row[id] = "none" /\ \A d \in Callers : cid[d] # id
    /\ Enter(c, "create", id, "prepare", <<a, a>>)
    /\ UNCHANGED <<dbVars, tmp, memVars, runVars>>

BeginStart(c, id) ==
    /\ Open /\ "start" \in Ops /\ c \in Clients
    /\ Addressable(id)
    /\ Enter(c, "start", id, "reserve", NoAccounts)
    /\ UNCHANGED <<dbVars, tmp, memVars, runVars>>

BeginStop(c, id) ==
    /\ Up /\ "stop" \in Ops /\ c \in Clients /\ Addressable(id)
    /\ Enter(c, "stop", id, "stop_lookup", NoAccounts)
    /\ UNCHANGED <<dbVars, tmp, memVars, runVars>>

BeginRemove(c, id) ==
    /\ Up /\ "remove" \in Ops /\ c \in Clients /\ Addressable(id)
    /\ Enter(c, "remove", id, "remove_get", NoAccounts)
    /\ UNCHANGED <<dbVars, tmp, memVars, runVars>>

BeginSwitch(c, o, id, a) ==
    /\ Open /\ o \in Ops \intersect SwitchOps /\ c \in Clients
    /\ Addressable(id)
    /\ Enter(c, o, id, "switch_get", <<a, a>>)
    /\ UNCHANGED <<dbVars, tmp, memVars, runVars>>

(* resumeInterrupted takes the next id and calls Start from a goroutine of *)
(* its own, at most one per semaphore slot.                                *)
BeginResume(c, id) ==
    /\ gw = "serving" /\ c \in Resumers /\ id \in toResume
    /\ toResume' = toResume \ {id}
    /\ Enter(c, "resume", id, "reserve", NoAccounts)
    /\ UNCHANGED <<dbVars, tmp, gw, sessions, starting, stopReq, rss, runVars>>

(***************************************************************************)
(* Start.                                                                  *)
(***************************************************************************)

(* Mutants of MayReserve: no m.starting; no check of the live map.         *)
MayReserveUnserialised(id) ==
    sessions[id] # NoRun => CanTransition(rst[sessions[id]], "start")

MayReserveLive(id) == id \notin starting

(* tryReserveStart: under m.mu, refuse a live session or one with a spawn  *)
(* in flight, otherwise reserve the id.                                    *)
MayReserve(id) ==
    /\ sessions[id] # NoRun => CanTransition(rst[sessions[id]], "start")
    /\ id \notin starting

TryReserveStart(c) ==
    /\ pc[c] = "reserve"
    /\ \/ /\ MayReserve(cid[c])
          /\ starting' = starting \union {cid[c]}
          /\ Goto(c, "get")
          /\ UNCHANGED <<op, cid, acct, crs, crun>>
       \/ /\ ~MayReserve(cid[c])           \* ErrAlreadyRunning
          /\ Return(c)
          /\ UNCHANGED starting
    /\ UNCHANGED <<dbVars, tmp, gw, sessions, stopReq, toResume, rss, runVars>>

(* The background resumes run under the context SIGTERM cancels, and with  *)
(* a cancelled context every SQL statement fails.                          *)
CtxCancelled(c) == op[c] = "resume" /\ gw # "serving"

(* store.Get: whatever state the row is in, the session is respawned on    *)
(* the account the row names.                                              *)
StartGet(c) ==
    /\ pc[c] = "get"
    /\ IF HasRow(cid[c]) /\ ~CtxCancelled(c)
         THEN /\ acct' = [acct EXCEPT ![c] = <<rowAcct[cid[c]], rowAcct[cid[c]]>>]
              /\ Goto(c, "prepare")
         ELSE Goto(c, "release") /\ UNCHANGED acct
    /\ UNCHANGED <<dbVars, tmp, memVars, runVars, op, cid, crs, crun>>

(* Mutant of Release: the goroutine keeps its semaphore slot.              *)
ReleaseKeepsSlot(c) ==
    /\ pc[c] = "release"
    /\ starting' = starting \ {cid[c]}
    /\ UNCHANGED <<dbVars, tmp, gw, sessions, stopReq, toResume, rss, runVars, callVars>>

(* The deferred delete(m.starting, id) of Start, and its return.           *)
Release(c) ==
    /\ pc[c] = "release"
    /\ starting' = starting \ {cid[c]}
    /\ Return(c)
    /\ UNCHANGED <<dbVars, tmp, gw, sessions, stopReq, toResume, rss, runVars>>

(***************************************************************************)
(* spawn, shared by Create, Start and the account switches.                *)
(***************************************************************************)

(* The error return of spawn in each of its callers.  The grok, codex and  *)
(* opencode switches then spawn once more, on the previous account.        *)
RollsBack(c) == op[c] = "switch_rollback" /\ acct[c][1] # acct[c][2]

SpawnFails(c) ==
    \/ /\ op[c] \in ReserveOps
       /\ Goto(c, "release") /\ crun' = [crun EXCEPT ![c] = NoRun]
       /\ UNCHANGED <<op, cid, acct, crs>>
    \/ /\ RollsBack(c)
       /\ acct' = [acct EXCEPT ![c] = <<acct[c][2], acct[c][2]>>]
       /\ Goto(c, "prepare") /\ crun' = [crun EXCEPT ![c] = NoRun]
       /\ UNCHANGED <<op, cid, crs>>
    \/ /\ op[c] \notin ReserveOps /\ ~RollsBack(c)
       /\ Return(c)

(* os.Stat, Resolve, MkdirAll and the provider's Prepare.  Errors before   *)
(* MkdirAll leave the scratch directory alone, a Prepare error removes it. *)
Prepare(c) ==
    /\ pc[c] = "prepare"
    /\ \/ /\ tmp' = [tmp EXCEPT ![cid[c]] = TRUE]
          /\ Goto(c, "launch")
          /\ UNCHANGED <<op, cid, acct, crs, crun>>
       \/ SpawnFails(c) /\ UNCHANGED tmp
       \/ SpawnFails(c) /\ tmp' = [tmp EXCEPT ![cid[c]] = FALSE]
    /\ UNCHANGED <<dbVars, memVars, runVars>>

(* pty.Start: the process runs from here on.  It may fail, and in the      *)
(* model it does when all of Runs are in use.                              *)
LaunchRun(c, r) ==
    /\ runOf'    = [runOf    EXCEPT ![r] = cid[c]]
    /\ runAcct'  = [runAcct  EXCEPT ![r] = acct[c][1]]
    /\ alive'    = [alive    EXCEPT ![r] = TRUE]
    /\ rst'      = [rst      EXCEPT ![r] = "running"]
    /\ wpc'      = [wpc      EXCEPT ![r] = "launched"]
    /\ UNCHANGED <<sig, stopFlag, final, asked>>

PtyStart(c) ==
    /\ pc[c] = "launch"
    /\ \/ \E r \in FreeRuns :
            /\ LaunchRun(c, r)
            /\ crun' = [crun EXCEPT ![c] = r]
            /\ Goto(c, "persist")
            /\ UNCHANGED <<tmp, op, cid, acct, crs>>
       \/ /\ SpawnFails(c)
          /\ tmp' = [tmp EXCEPT ![cid[c]] = FALSE]
          /\ UNCHANGED runVars
    /\ UNCHANGED <<dbVars, memVars>>

(* A run nobody refers to any more goes back to its initial state.         *)
ForgetRun(r) ==
    /\ runOf'    = [runOf    EXCEPT ![r] = NoId]
    /\ runAcct'  = [runAcct  EXCEPT ![r] = SomeAccount]
    /\ alive'    = [alive    EXCEPT ![r] = FALSE]
    /\ sig'      = [sig      EXCEPT ![r] = "none"]
    /\ rst'      = [rst      EXCEPT ![r] = "ended"]
    /\ wpc'      = [wpc      EXCEPT ![r] = "free"]
    /\ stopFlag' = [stopFlag EXCEPT ![r] = FALSE]
    /\ final'    = [final    EXCEPT ![r] = "none"]
    /\ asked'    = [asked    EXCEPT ![r] = FALSE]

(* Mutants of WriteRunning: Reactivate as an upsert; Reactivate forgotten. *)
WriteRunningUpserts(c) ==
    /\ row' = [row EXCEPT ![cid[c]] = "running"]
    /\ rowAcct' = [rowAcct EXCEPT ![cid[c]] = acct[c][1]]

WriteRunningOnCreate(c) ==
    IF op[c] = "create" THEN WriteRunningUpserts(c) ELSE UNCHANGED <<row, rowAcct>>

(* Insert writes a new row; Reactivate is UPDATE ... WHERE id and does not *)
(* look at RowsAffected, so on a row that is gone it silently does nothing.*)
WriteRunning(c) ==
    IF op[c] = "create"
      THEN /\ row' = [row EXCEPT ![cid[c]] = "running"]
           /\ rowAcct' = [rowAcct EXCEPT ![cid[c]] = acct[c][1]]
      ELSE /\ row' = [row EXCEPT ![cid[c]] = IF HasRow(cid[c]) THEN "running" ELSE @]
           /\ UNCHANGED rowAcct

(* On a failed write the fresh process is killed and its directory removed.*)
Persist(c) ==
    /\ pc[c] = "persist"
    /\ \/ /\ ~CtxCancelled(c)
          /\ WriteRunning(c)
          /\ Goto(c, "install")
          /\ UNCHANGED <<faults, tmp, runVars, op, cid, acct, crs, crun>>
       \/ /\ \/ CtxCancelled(c) /\ UNCHANGED faults
             \/ faults > 0 /\ faults' = faults - 1
          /\ ForgetRun(crun[c])
          /\ tmp' = [tmp EXCEPT ![cid[c]] = FALSE]
          /\ SpawnFails(c)
          /\ UNCHANGED <<row, rowAcct>>
    /\ UNCHANGED memVars

(* The run enters the live map and its goroutines start.                   *)
Install(c) ==
    /\ pc[c] = "install"
    /\ sessions' = [sessions EXCEPT ![cid[c]] = crun[c]]
    /\ wpc' = [wpc EXCEPT ![crun[c]] = "wait"]
    /\ \/ /\ op[c] \in ReserveOps
          /\ Goto(c, "release") /\ crun' = [crun EXCEPT ![c] = NoRun]
          /\ UNCHANGED <<op, cid, acct, crs>>
       \/ /\ op[c] \in SwitchOps /\ acct[c][1] # acct[c][2]
          /\ Goto(c, "switch_persist") /\ crun' = [crun EXCEPT ![c] = NoRun]
          /\ UNCHANGED <<op, cid, acct, crs>>
       \/ /\ op[c] \notin ReserveOps
          /\ op[c] = "create" \/ acct[c][1] = acct[c][2]
          /\ Return(c)
    /\ UNCHANGED <<dbVars, tmp, gw, starting, stopReq, toResume, rss, runOf, runAcct,
                   alive, sig, rst, stopFlag, final, asked>>

(***************************************************************************)
(* Stop, called on its own, by Remove and by the account switches.         *)
(***************************************************************************)

(* lookup, then the state of the run it found.                             *)
StopLookup(c) ==
    /\ pc[c] = "stop_lookup"
    /\ LET r == sessions[cid[c]] IN
         \/ /\ r = NoRun
            /\ Goto(c, "stop_get") /\ UNCHANGED crs
         \/ /\ r # NoRun
            /\ \/ IsTerminal(rst[r])  /\ Goto(c, "stop_ok") /\ UNCHANGED crs
               \/ ~IsTerminal(rst[r]) /\ Goto(c, "stop_mark")
                                      /\ crs' = [crs EXCEPT ![c] = r]
    /\ UNCHANGED <<dbVars, tmp, memVars, runVars, op, cid, acct, crun>>

(* Not in the map: the row decides.                                        *)
StopGet(c) ==
    /\ pc[c] = "stop_get"
    /\ \/ /\ ~HasRow(cid[c]) /\ Return(c)            \* ErrNotFound
       \/ /\ HasRow(cid[c])
          /\ Goto(c, IF IsTerminal(row[cid[c]]) THEN "stop_ok" ELSE "stop_stale")
          /\ UNCHANGED <<op, cid, acct, crs, crun>>
    /\ UNCHANGED <<dbVars, tmp, memVars, runVars>>

(* MarkTerminal: UPDATE ... WHERE state NOT IN ('stopped', 'ended').       *)
MarkedTerminal(s, state) ==
    IF s \in RowStates \ {"stopped", "ended"} THEN state ELSE s

StopStale(c) ==
    /\ pc[c] = "stop_stale"
    /\ \/ /\ row' = [row EXCEPT ![cid[c]] = MarkedTerminal(@, "stopped")]
          /\ Goto(c, "stop_ok")
          /\ UNCHANGED <<faults, op, cid, acct, crs, crun>>
       \/ /\ faults > 0 /\ faults' = faults - 1
          /\ Return(c) /\ UNCHANGED row
    /\ UNCHANGED <<rowAcct, tmp, memVars, runVars>>

(* markStopRequested and SIGTERM.  The process may ignore the signal.      *)
StopMark(c) ==
    /\ pc[c] = "stop_mark"
    /\ stopReq' = stopReq \union {cid[c]}
    /\ asked' = [asked EXCEPT ![crs[c]] = @ \/ wpc[crs[c]] = "wait"]
    /\ Goto(c, "stop_wait")
    /\ UNCHANGED <<dbVars, tmp, gw, sessions, starting, toResume, rss, runOf, runAcct,
                   alive, sig, rst, wpc, stopFlag, final,
                   op, cid, acct, crs, crun>>

(* Mutant of StopTimeout: SIGTERM once more instead of SIGKILL.            *)
StopTimeoutTermsAgain(c) ==
    /\ pc[c] = "stop_wait" /\ ~EndedCh(crs[c])
    /\ Goto(c, "stop_kill_wait")
    /\ UNCHANGED <<dbVars, tmp, memVars, runVars, op, cid, acct, crs, crun>>

(* terminateGrace has passed: SIGKILL.                                     *)
StopTimeout(c) ==
    /\ pc[c] = "stop_wait" /\ ~EndedCh(crs[c])
    /\ sig' = [sig EXCEPT ![crs[c]] = IF alive[crs[c]] THEN "kill" ELSE @]
    /\ Goto(c, "stop_kill_wait")
    /\ UNCHANGED <<dbVars, tmp, memVars, runOf, runAcct, alive, rst, wpc, stopFlag,
                   final, asked, op, cid, acct, crs, crun>>

StopEnded(c) ==
    /\ pc[c] \in {"stop_wait", "stop_kill_wait"} /\ EndedCh(crs[c])
    /\ Goto(c, "stop_ok") /\ crs' = [crs EXCEPT ![c] = NoRun]
    /\ UNCHANGED <<dbVars, tmp, memVars, runVars, op, cid, acct, crun>>

(* ctx.Done: the request is cancelled while Stop waits.                    *)
StopCancelled(c) ==
    /\ pc[c] \in {"stop_wait", "stop_kill_wait"}
    /\ Return(c)
    /\ UNCHANGED <<dbVars, tmp, memVars, runVars>>

(* Stop has returned nil to whoever called it.                             *)
StopReturns(c) ==
    /\ pc[c] = "stop_ok" /\ op[c] = "stop"
    /\ Return(c)
    /\ UNCHANGED <<dbVars, tmp, memVars, runVars>>

(***************************************************************************)
(* Remove.                                                                 *)
(***************************************************************************)

(* Mutant of RemoveGet: the row is deleted without stopping first.         *)
RemoveGetSkipsStop(c) ==
    /\ pc[c] = "remove_get"
    /\ Goto(c, "stop_ok")
    /\ UNCHANGED <<dbVars, tmp, memVars, runVars, op, cid, acct, crs, crun>>

(* store.Get finds the row; then Stop.                                     *)
RemoveGet(c) ==
    /\ pc[c] = "remove_get"
    /\ \/ HasRow(cid[c])  /\ Goto(c, "stop_lookup")
                          /\ UNCHANGED <<op, cid, acct, crs, crun>>
       \/ ~HasRow(cid[c]) /\ Return(c)
    /\ UNCHANGED <<dbVars, tmp, memVars, runVars>>

(* The row goes, if nobody deleted it first (RowsAffected = 0 is an error).*)
Delete(c) ==
    /\ pc[c] = "stop_ok" /\ op[c] = "remove"
    /\ \/ /\ row' = [row EXCEPT ![cid[c]] = IF HasRow(cid[c]) THEN "removed" ELSE @]
          /\ UNCHANGED faults
       \/ faults > 0 /\ faults' = faults - 1 /\ UNCHANGED row
    /\ Return(c)
    /\ UNCHANGED <<rowAcct, tmp, memVars, runVars>>

(***************************************************************************)
(* Switch*Account: stop, respawn under the new account, persist it.  None  *)
(* of them reserves the id.                                                *)
(***************************************************************************)

(* m.Get: the in-memory session if there is one, else the row.             *)
CurrentAccount(id) ==
    IF sessions[id] # NoRun THEN runAcct[sessions[id]] ELSE rowAcct[id]

SwitchGet(c) ==
    /\ pc[c] = "switch_get"
    /\ \/ /\ sessions[cid[c]] # NoRun \/ HasRow(cid[c])
          /\ acct[c][1] # CurrentAccount(cid[c])
          /\ acct' = [acct EXCEPT ![c] = <<@[1], CurrentAccount(cid[c])>>]
          /\ Goto(c, "stop_lookup")
          /\ UNCHANGED <<op, cid, crs, crun>>
       \/ /\ \/ sessions[cid[c]] = NoRun /\ ~HasRow(cid[c])
             \/ acct[c][1] = CurrentAccount(cid[c])        \* already bound to it
          /\ Return(c)
    /\ UNCHANGED <<dbVars, tmp, memVars, runVars>>

(* The row is read again after Stop, then spawn follows.                   *)
SwitchRow(c) ==
    /\ pc[c] = "stop_ok" /\ op[c] \in SwitchOps
    /\ \/ HasRow(cid[c])  /\ Goto(c, "prepare")
                          /\ UNCHANGED <<op, cid, acct, crs, crun>>
       \/ ~HasRow(cid[c]) /\ Return(c)
    /\ UNCHANGED <<dbVars, tmp, memVars, runVars>>

(* Mutant of SwitchPersist: the new account is never written.              *)
SwitchPersistForgets(c) ==
    /\ pc[c] = "switch_persist"
    /\ Return(c)
    /\ UNCHANGED <<dbVars, tmp, memVars, runVars>>

(* Update*Account; an error is logged and the row keeps the old account.   *)
SwitchPersist(c) ==
    /\ pc[c] = "switch_persist"
    /\ \/ /\ rowAcct' = [rowAcct EXCEPT ![cid[c]] = IF HasRow(cid[c]) THEN acct[c][1] ELSE @]
          /\ UNCHANGED faults
       \/ /\ faults > 0 /\ faults' = faults - 1 /\ UNCHANGED rowAcct
    /\ Return(c)
    /\ UNCHANGED <<row, tmp, memVars, runVars>>

(***************************************************************************)
(* The process and its exit detector, waitExit.                            *)
(***************************************************************************)

(* The CLI exits: by itself, or because of a signal.                       *)
ProcExit(r) ==
    /\ alive[r]
    /\ alive' = [alive EXCEPT ![r] = FALSE]
    /\ UNCHANGED <<dbVars, tmp, memVars, runOf, runAcct, sig, rst, wpc, stopFlag,
                   final, asked, callVars>>

(* cmd.Wait returns; consumeStopRequest reads and clears the id's flag.    *)
ConsumeStopRequest(r) ==
    /\ wpc[r] = "wait" /\ ~alive[r]
    /\ stopFlag' = [stopFlag EXCEPT ![r] = runOf[r] \in stopReq]
    /\ stopReq' = stopReq \ {runOf[r]}
    /\ wpc' = [wpc EXCEPT ![r] = "classify"]
    /\ UNCHANGED <<dbVars, tmp, gw, sessions, starting, toResume, rss, runOf, runAcct,
                   alive, sig, rst, final, asked, callVars>>

(* isClosing, and the classification of the exit.                          *)
Classify(r) ==
    /\ wpc[r] = "classify"
    /\ final' = [final EXCEPT ![r] = ClassifyExitState(stopFlag[r], Closed)]
    /\ stopFlag' = [stopFlag EXCEPT ![r] = FALSE]
    /\ wpc' = [wpc EXCEPT ![r] = "mark"]
    /\ UNCHANGED <<dbVars, tmp, memVars, runOf, runAcct, alive, sig, rst, asked, callVars>>

(* MarkTerminal or MarkInterrupted: the same WHERE clause, and an error is *)
(* only logged.                                                            *)
MarkRow(r) ==
    /\ wpc[r] = "mark"
    /\ \/ /\ row' = [row EXCEPT ![runOf[r]] = MarkedTerminal(@, final[r])]
          /\ UNCHANGED faults
       \/ faults > 0 /\ faults' = faults - 1 /\ UNCHANGED row
    /\ wpc' = [wpc EXCEPT ![r] = "set"]
    /\ UNCHANGED <<rowAcct, tmp, memVars, runOf, runAcct, alive, sig, rst, stopFlag,
                   final, asked, callVars>>

(* rs.sess.State becomes terminal: from here on tryReserveStart lets a     *)
(* Start through although this goroutine has not cleaned up.               *)
SetState(r) ==
    /\ wpc[r] = "set"
    /\ rst' = [rst EXCEPT ![r] = final[r]]
    /\ final' = [final EXCEPT ![r] = "none"]
    /\ asked' = [asked EXCEPT ![r] = FALSE]
    /\ sig' = [sig EXCEPT ![r] = "none"]
    /\ wpc' = [wpc EXCEPT ![r] = "cleanup"]
    /\ UNCHANGED <<dbVars, tmp, memVars, runOf, runAcct, alive, stopFlag, callVars>>

(* PTY and subscribers closed, onExit hook, RemoveAll(tempDir), endedCh.   *)
Cleanup(r) ==
    /\ wpc[r] = "cleanup"
    /\ tmp' = [tmp EXCEPT ![runOf[r]] = FALSE]
    /\ wpc' = [wpc EXCEPT ![r] = "drop"]
    /\ UNCHANGED <<dbVars, memVars, runOf, runAcct, alive, sig, rst, stopFlag, final,
                   asked, callVars>>

(* The run leaves the live map unless another run has taken its place, and *)
(* the end is published.                                                   *)
Drop(r) ==
    /\ wpc[r] = "drop"
    /\ sessions' = [sessions EXCEPT ![runOf[r]] = IF @ = r THEN NoRun ELSE @]
    /\ ForgetRun(r)
    /\ rss' = rss \ {r}
    /\ UNCHANGED <<dbVars, tmp, gw, starting, stopReq, toResume, callVars>>

(***************************************************************************)
(* The gateway process.                                                    *)
(***************************************************************************)

(* Mutants of Reconciled: live rows are relabelled pending; only rows that *)
(* were idle are marked.                                                   *)
ReconciledToPending(s) == IF s \in Live THEN "pending" ELSE s

ReconciledIdleOnly(s) == IF s = "idle" THEN "interrupted" ELSE s

(* MarkRunningAsInterrupted: UPDATE ... WHERE state IN (the live states).  *)
Reconciled(s) == IF s \in Live THEN "interrupted" ELSE s

(* ReconcileStartup, before any traffic is served: rows left live by the   *)
(* previous process become interrupted, and every interrupted row (the     *)
(* newest AutoResumeMax of them; any subset here) is queued for a resume,  *)
(* unless OPENDRAY_NO_AUTO_RESUME is set.  An SQL error is only logged and *)
(* the gateway serves the table as it is.                                  *)
ReconcileStartup ==
    /\ gw = "down" /\ gw' = "serving"
    /\ \/ /\ row' = [id \in Ids |-> Reconciled(row[id])]
          /\ LET interrupted == { id \in Ids : row'[id] = "interrupted" } IN
               \/ toResume' = {}
               \/ /\ AutoResumeMax = 0 \/ Cardinality(interrupted) <= AutoResumeMax
                  /\ toResume' = interrupted
               \/ /\ AutoResumeMax > 0 /\ Cardinality(interrupted) > AutoResumeMax
                  /\ toResume' \in { s \in SUBSET interrupted :
                                        Cardinality(s) = AutoResumeMax }
          /\ UNCHANGED faults
       \/ /\ faults > 0 /\ faults' = faults - 1
          /\ UNCHANGED <<row, toResume>>
    /\ UNCHANGED <<rowAcct, tmp, sessions, starting, stopReq, rss, runVars, callVars>>

(* SIGTERM to the service.  The root context is cancelled and the HTTP     *)
(* server drains, for up to 15 seconds; only then is Shutdown called.  The *)
(* unit files leave KillMode at its default, so the service manager sends  *)
(* the same signal to the CLIs the gateway has spawned.                    *)
Sigterm ==
    /\ "sigterm" \in Ops
    /\ gw = "serving" /\ gw' = "stopping"
    /\ toResume' = {}
    /\ sig' = [r \in Runs |-> IF alive[r] /\ sig[r] = "none" THEN "service" ELSE sig[r]]
    /\ UNCHANGED <<dbVars, tmp, sessions, starting, stopReq, rss, runOf, runAcct,
                   alive, rst, wpc, stopFlag, final, asked, callVars>>

(* Shutdown: closed is set and the live map copied under one lock; then    *)
(* SIGTERM goes to the runs of the copy, which may take their time.        *)
ShutdownBegin ==
    /\ gw = "stopping" /\ gw' = "closing"
    /\ rss' = { sessions[id] : id \in Ids } \ {NoRun}
    /\ UNCHANGED <<dbVars, tmp, sessions, starting, stopReq, toResume, runVars, callVars>>

(* Five seconds later: SIGKILL to those of them not recorded as ended.     *)
ShutdownKill ==
    /\ gw = "closing" /\ gw' = "killing"
    /\ sig' = [r \in Runs |-> IF r \in rss /\ alive[r] /\ rst[r] # "ended" THEN "kill"
                              ELSE sig[r]]
    /\ UNCHANGED <<dbVars, tmp, sessions, starting, stopReq, toResume, rss, runOf, runAcct,
                   alive, rst, wpc, stopFlag, final, asked, callVars>>

(* The process is gone: so is its memory, and the PTYs it held take their  *)
(* children with them.                                                     *)
GatewayGone ==
    /\ gw' = "down"
    /\ sessions' = NoSessions
    /\ starting' = {} /\ stopReq' = {} /\ toResume' = {} /\ rss' = {}
    /\ runOf' = AllRuns(NoId) /\ runAcct' = AllRuns(SomeAccount)
    /\ alive' = AllRuns(FALSE) /\ sig' = AllRuns("none")
    /\ rst' = AllRuns("ended") /\ wpc' = AllRuns("free")
    /\ stopFlag' = AllRuns(FALSE) /\ final' = AllRuns("none") /\ asked' = AllRuns(FALSE)
    /\ pc' = AllCallers("idle") /\ op' = AllCallers("none") /\ cid' = AllCallers(NoId)
    /\ acct' = AllCallers(NoAccounts)
    /\ crs' = AllCallers(NoRun) /\ crun' = AllCallers(NoRun)
    /\ UNCHANGED <<dbVars, tmp>>

(* m.wg.Wait returned, or the shutdown context expired: the main goroutine *)
(* returns and the process ends, whatever is still in flight.              *)
ShutdownDone == gw \in {"closing", "killing"} /\ GatewayGone

Crash == "crash" \in Ops /\ Up /\ GatewayGone

(***************************************************************************)
(* The specification.                                                      *)
(***************************************************************************)

CallerStep(c) ==
    \/ TryReserveStart(c) \/ StartGet(c) \/ Release(c)
    \/ Prepare(c) \/ PtyStart(c) \/ Persist(c) \/ Install(c)
    \/ StopLookup(c) \/ StopGet(c) \/ StopStale(c) \/ StopMark(c) \/ StopTimeout(c)
    \/ StopEnded(c) \/ StopReturns(c)
    \/ RemoveGet(c) \/ Delete(c)
    \/ SwitchGet(c) \/ SwitchRow(c) \/ SwitchPersist(c)

Begin(c) ==
    \E id \in Ids :
      \/ BeginStart(c, id) \/ BeginStop(c, id) \/ BeginRemove(c, id) \/ BeginResume(c, id)
      \/ \E a \in Accounts : \/ BeginCreate(c, id, a)
                             \/ \E o \in SwitchOps : BeginSwitch(c, o, id, a)

WaitExit(r) ==
    \/ ConsumeStopRequest(r) \/ Classify(r) \/ MarkRow(r) \/ SetState(r)
    \/ Cleanup(r) \/ Drop(r)

Shutdown == Sigterm \/ ShutdownBegin \/ ShutdownKill \/ ShutdownDone

Next ==
    \/ \E c \in Callers : Begin(c) \/ CallerStep(c) \/ StopCancelled(c)
    \/ \E r \in Runs : ProcExit(r) \/ WaitExit(r)
    \/ ReconcileStartup \/ Shutdown \/ Crash

Spec == Init /\ [][Next]_vars

(* A goroutine that can run is eventually run, a timer that is armed fires,*)
(* SIGKILL cannot be ignored, the service manager restarts the gateway.    *)
(* Nothing is assumed of the clients, of a CLI that was merely asked to    *)
(* exit, or of a request being cancelled.                                  *)
Fairness ==
    /\ \A c \in Callers : WF_vars(CallerStep(c))
    /\ \A c \in Resumers : WF_vars(\E id \in Ids : BeginResume(c, id))
    /\ \A r \in Runs : WF_vars(WaitExit(r)) /\ WF_vars(sig[r] = "kill" /\ ProcExit(r))
    /\ WF_vars(ReconcileStartup) /\ WF_vars(ShutdownBegin)
    /\ WF_vars(ShutdownKill) /\ WF_vars(ShutdownDone)

FairSpec == Spec /\ Fairness

(***************************************************************************)
(* Properties.                                                             *)
(***************************************************************************)

(* Every variable has its type; a caller inside a call has a session id,   *)
(* and waitExit has classified an exit before it records it.               *)
DbTypeOK ==
    /\ row \in [Ids -> {"none", "removed"} \union RowStates]
    /\ rowAcct \in [Ids -> Accounts]
    /\ tmp \in [Ids -> BOOLEAN]
    /\ faults \in 0..MaxFaults

MemTypeOK ==
    /\ gw \in GwPhases
    /\ sessions \in [Ids -> Runs \union {NoRun}]
    /\ starting \in SUBSET Ids /\ stopReq \in SUBSET Ids /\ toResume \in SUBSET Ids
    /\ rss \in SUBSET Runs

RunTypeOK ==
    /\ runOf \in [Runs -> Ids \union {NoId}]
    /\ runAcct \in [Runs -> Accounts]
    /\ alive \in [Runs -> BOOLEAN]
    /\ sig \in [Runs -> {"none", "service", "kill"}]
    /\ rst \in [Runs -> RowStates]
    /\ wpc \in [Runs -> WaitPcs]
    /\ stopFlag \in [Runs -> BOOLEAN]
    /\ final \in [Runs -> {"none"} \union Terminal]
    /\ asked \in [Runs -> BOOLEAN]
    /\ \A r \in Runs : wpc[r] \in {"mark", "set"} => final[r] # "none"

CallTypeOK ==
    /\ pc \in [Callers -> Pcs]
    /\ op \in [Callers -> AllOps \union {"none"}]
    /\ cid \in [Callers -> Ids \union {NoId}]
    /\ acct \in [Callers -> Accounts \X Accounts]
    /\ crs \in [Callers -> Runs \union {NoRun}]
    /\ crun \in [Callers -> Runs \union {NoRun}]
    /\ \A c \in Callers : pc[c] # "idle" => cid[c] \in Ids

TypeOK == DbTypeOK /\ MemTypeOK /\ RunTypeOK /\ CallTypeOK

(* No two resumes race the same working directory: at any moment at most   *)
(* one process runs for a session id (Manager.starting, tryReserveStart).  *)
AtMostOneProcess ==
    \A r, s \in Runs : alive[r] /\ alive[s] /\ runOf[r] = runOf[s] => r = s

(* A row that says running is backed by a run whose exit has not been      *)
(* recorded: stop, exit, failed resumes, crashes and reboots leave no      *)
(* phantom running row.  Only a lost SQL write can.                        *)
NoPhantomRunning ==
    Up /\ faults = MaxFaults =>
      \A id \in Ids : row[id] = "running" =>
        \E r \in Runs : runOf[r] = id /\ wpc[r] \in {"launched", "wait", "classify", "mark"}

(* A user stop that reached a run before its exit was classified wins over *)
(* a shutdown or a spontaneous exit that comes at the same time.           *)
UserStopWins ==
    \A r \in Runs : asked[r] /\ final[r] # "none" => final[r] = "stopped"

(* While a tracked process lives, its row (if it has not been removed)     *)
(* says running: Stop never reports success and leaves the process behind, *)
(* and a crash of the gateway would find the session to resume.            *)
RowTracksProcess ==
    faults = MaxFaults =>
      \A r \in Runs : alive[r] /\ wpc[r] = "wait" /\ HasRow(runOf[r])
                       => row[runOf[r]] = "running"

Quiet == \A c \in Callers : pc[c] = "idle"

(* The account a tracked process runs under is the one its row names, so a *)
(* later restart comes back on the same account.                           *)
AccountAgrees ==
    Quiet /\ faults = MaxFaults =>
      \A id \in Ids : sessions[id] # NoRun /\ HasRow(id)
                        => runAcct[sessions[id]] = rowAcct[id]

(* A removed session leaves no process behind.                             *)
NoGhost == \A r \in Runs : alive[r] /\ wpc[r] = "wait" => HasRow(runOf[r])

(* A run's scratch directory exists for as long as its process lives.      *)
TempDirKept == \A r \in Runs : alive[r] /\ wpc[r] = "wait" => tmp[runOf[r]]

(* A session is recorded as stopped only if a stop of that very run was    *)
(* asked for.                                                              *)
StoppedOnlyIfAsked == \A r \in Runs : final[r] = "stopped" => asked[r]

(* A session that is live when the service is told to terminate is not     *)
(* recorded as ended (and so is resumed by the next gateway).              *)
RestartInterrupts ==
    \A r \in Runs : sig[r] = "service" => final[r] # "ended"

(* The row moves along the lifecycle matrix only: a user stop is never     *)
(* overwritten by a later exit or shutdown, nothing revives a row but a    *)
(* spawn, a removed row never comes back.                                  *)
Lifecycle == INSTANCE SessionLifecycle WITH status <- row

RowFollowsLifecycle == Lifecycle!Spec

(* Every call returns, even if the CLI ignores SIGTERM and whatever the    *)
(* gateway is doing meanwhile.                                             *)
CallsReturn == \A c \in Callers : pc[c] # "idle" ~> pc[c] = "idle"

(* Every session queued for auto-resume gets its attempt.                  *)
ResumeAttempted == \A id \in Ids : id \in toResume ~> id \notin toResume

(***************************************************************************)
(* The inductive invariant behind AtMostOneProcess, for instances in which *)
(* every spawn of an existing session is reserved (no account switch) and  *)
(* ids are known only once Create has returned them.                       *)
(***************************************************************************)

(* A caller between tryReserveStart and its release, or inside Create.     *)
Spawning(c) == pc[c] \in SpawnPcs \union {"get", "release"}

(* ... and the run it spawns, if any, is not in the live map yet.          *)
Installing(c) == Spawning(c) /\ pc[c] # "release"

(* Where a caller can be in each operation, and what it owns there: a run  *)
(* of its own session from pty.Start until the run is installed.           *)
CallerShape ==
    \A c \in Callers :
      /\ pc[c] = "idle" => op[c] = "none"
      /\ op[c] \notin SwitchOps
      /\ op[c] = "create" => pc[c] \in SpawnPcs
      /\ pc[c] \in {"reserve", "get", "release"} => op[c] \in ReserveOps
      /\ pc[c] \in SpawnPcs => op[c] \in ReserveOps \union {"create"}
      /\ pc[c] \in StopPcs \union {"remove_get"} => op[c] \in {"stop", "remove"}
      /\ pc[c] \notin {"switch_get", "switch_persist"}
      /\ crun[c] # NoRun <=> pc[c] \in {"persist", "install"}
      /\ crun[c] # NoRun => wpc[crun[c]] = "launched" /\ runOf[crun[c]] = cid[c]

(* Ids are fresh until their row is inserted: nobody else names them.      *)
FreshIds ==
    /\ \A c \in Callers : pc[c] # "idle" /\ (op[c] # "create" \/ pc[c] = "install")
                             => row[cid[c]] # "none"
    /\ \A id \in Ids : row[id] = "none" => sessions[id] = NoRun /\ id \notin toResume
    /\ \A c \in Callers : op[c] = "create" => cid[c] \notin toResume

(* One spawn per id at a time.                                             *)
Exclusive ==
    /\ \A c \in Callers : Spawning(c) /\ op[c] # "create" => cid[c] \in starting
    /\ \A c, d \in Callers : c # d /\ Spawning(c) /\ Spawning(d) => cid[c] # cid[d]
    /\ \A c, d \in Callers : c # d /\ op[c] = "create" /\ pc[d] # "idle"
                                => cid[c] # cid[d]

Tracked == {"wait", "classify", "mark", "set"}

(* The life of a run: only a launched or tracked one has a process, one    *)
(* being launched has its launcher, a tracked one is in the live map.      *)
RunShape ==
    \A r \in Runs :
      /\ alive[r] => wpc[r] \in {"launched", "wait"}
      /\ wpc[r] = "launched" => rst[r] = "running" /\ \E c \in Callers : crun[c] = r
      /\ wpc[r] \in Tracked => /\ runOf[r] \in Ids /\ sessions[runOf[r]] = r
                               /\ rst[r] = "running"

LiveMap ==
    \A id \in Ids : sessions[id] # NoRun =>
      /\ runOf[sessions[id]] = id
      /\ wpc[sessions[id]] \in Tracked \union {"cleanup", "drop"}

(* While an id is being spawned, the live map holds no tracked run of it.  *)
Vacant ==
    \A c \in Callers : Installing(c) /\ sessions[cid[c]] # NoRun
                          => wpc[sessions[cid[c]]] \notin Tracked

QuietWhenDown == gw = "down" => \A c \in Callers : pc[c] = "idle"

OneProcessInv ==
    /\ TypeOK /\ CallerShape /\ FreshIds /\ Exclusive
    /\ RunShape /\ LiveMap /\ Vacant /\ QuietWhenDown
=============================================================================
