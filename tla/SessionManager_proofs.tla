------------------------ MODULE SessionManager_proofs ------------------------
(***************************************************************************)
(* Theorems about SessionManager, for every set of ids, clients, resumers, *)
(* runs and accounts.                                                      *)
(***************************************************************************)
EXTENDS SessionManager, TLAPS

(***************************************************************************)
(* Lemmas about the operators.                                             *)
(***************************************************************************)

(* classifyExitState always returns a terminal state, and "stopped" when a *)
(* stop was requested, whether or not the gateway is closing.              *)
LEMMA ClassifyFacts ==
    ASSUME NEW s, NEW k
    PROVE  /\ ClassifyExitState(s, k) \in Terminal
           /\ s => ClassifyExitState(s, k) = "stopped"
<1> DEFINE e == TerminationEvent(s, k)
           t == TerminationState(e)
<1>1. e \in TerminationEvents /\ (s => e = "user_stop")
  BY DEF TerminationEvent, TerminationEvents
<1>2. t \in Terminal /\ (s => t = "stopped")
  BY <1>1 DEF TerminationState, TerminationEvents, Terminal
<1>3. NextStates("running", e) = {t}
  BY <1>1, <1>2 DEF NextStates, IsTerminal, Terminal, State, Live, LiveTransitions,
                    TerminatableStates, TerminationEvents
<1>4. QED
  BY <1>2, <1>3 DEF ClassifyExitState

(* There is an account to stand for "none chosen yet".                     *)
LEMMA SomeAccountFact == SomeAccount \in Accounts /\ NoAccounts \in Accounts \X Accounts
  BY ConstantsAssumption DEF SomeAccount, NoAccounts

(* MarkTerminal keeps the row in its type.                                 *)
LEMMA MarkedTerminalType ==
    ASSUME NEW s \in {"none", "removed"} \union RowStates, NEW t \in Terminal
    PROVE  MarkedTerminal(s, t) \in {"none", "removed"} \union RowStates
  BY DEF MarkedTerminal, RowStates

(***************************************************************************)
(* Type correctness: what the building blocks of the actions do to the     *)
(* types of the variables they set.                                        *)
(***************************************************************************)

(* A call that enters keeps the callers' variables typed.                  *)
LEMMA EnterType ==
    ASSUME CallTypeOK, NEW c \in Callers, NEW o \in AllOps, NEW id \in Ids,
           NEW p \in Pcs, NEW a \in Accounts \X Accounts, Enter(c, o, id, p, a)
    PROVE  CallTypeOK'
  BY DEF CallTypeOK, Enter

(* A call that returns gives its variables their neutral values.           *)
LEMMA ReturnType ==
    ASSUME CallTypeOK, NEW c \in Callers, Return(c)
    PROVE  CallTypeOK'
<1>1. "idle" \in Pcs
  BY DEF Pcs
<1>2. QED
  BY <1>1, SomeAccountFact DEF CallTypeOK, Return

(* A caller that moves on inside its call keeps its session id.            *)
LEMMA GotoType ==
    ASSUME CallTypeOK, NEW c \in Callers, NEW p \in Pcs, pc[c] # "idle", Goto(c, p),
           UNCHANGED <<op, cid>>,
           acct' \in [Callers -> Accounts \X Accounts],
           crs' \in [Callers -> Runs \union {NoRun}],
           crun' \in [Callers -> Runs \union {NoRun}]
    PROVE  CallTypeOK'
  BY DEF CallTypeOK, Goto

(* The error return of spawn: release, roll back, or return.               *)
LEMMA SpawnFailsType ==
    ASSUME CallTypeOK, NEW c \in Callers, pc[c] # "idle", SpawnFails(c)
    PROVE  CallTypeOK'
<1>1. "release" \in Pcs /\ "prepare" \in Pcs
  BY DEF Pcs, SpawnPcs
<1>2. CASE Goto(c, "release") /\ crun' = [crun EXCEPT ![c] = NoRun]
           /\ UNCHANGED <<op, cid, acct, crs>>
  BY <1>1, <1>2, GotoType DEF CallTypeOK
<1>3. CASE /\ acct' = [acct EXCEPT ![c] = <<acct[c][2], acct[c][2]>>]
           /\ Goto(c, "prepare") /\ crun' = [crun EXCEPT ![c] = NoRun]
           /\ UNCHANGED <<op, cid, crs>>
  BY <1>1, <1>3, GotoType DEF CallTypeOK
<1>4. CASE Return(c)
  BY <1>4, ReturnType
<1>5. QED
  BY <1>2, <1>3, <1>4 DEF SpawnFails

(* A run that is given back has the values of an unused one.               *)
LEMMA ForgetRunType ==
    ASSUME RunTypeOK, NEW r \in Runs \union {NoRun}, ForgetRun(r)
    PROVE  RunTypeOK'
<1>1. "free" \in WaitPcs /\ "ended" \in RowStates
  BY DEF WaitPcs, RowStates, Terminal
<1>2. QED
  BY <1>1, SomeAccountFact DEF RunTypeOK, ForgetRun

(* pty.Start fills in a run with the caller's session and account.         *)
LEMMA LaunchRunType ==
    ASSUME RunTypeOK, CallTypeOK, NEW r \in Runs, NEW c \in Callers, LaunchRun(c, r)
    PROVE  RunTypeOK'
<1>1. "launched" \in WaitPcs /\ "running" \in RowStates
  BY DEF WaitPcs, RowStates, Terminal
<1>2. acct[c][1] \in Accounts
  BY DEF CallTypeOK
<1>3. QED
  BY <1>1, <1>2 DEF RunTypeOK, CallTypeOK, LaunchRun

(* The states an earlier gateway can leave behind are typed.               *)
LEMMA TypeInit == Init => TypeOK
<1> SUFFICES ASSUME Init PROVE TypeOK
  OBVIOUS
<1>1. DbTypeOK
  <2>1. row \in [Ids -> {"none", "removed"} \union RowStates]
    BY DEF Init
  <2>2. faults \in 0..MaxFaults
    <3>1. faults = MaxFaults
      BY DEF Init
    <3>2. QED
      BY <3>1, BoundsAssumption
  <2>3. QED
    BY <2>1, <2>2, SomeAccountFact DEF Init, DbTypeOK
<1>2. MemTypeOK
  BY DEF Init, MemTypeOK, NoSessions, GwPhases
<1>3. RunTypeOK
  BY SomeAccountFact DEF Init, RunTypeOK, AllRuns, RowStates, Terminal, WaitPcs
<1>4. CallTypeOK
  BY SomeAccountFact DEF Init, CallTypeOK, AllCallers, Pcs
<1>5. QED
  BY <1>1, <1>2, <1>3, <1>4 DEF TypeOK

(* The names that appear in Goto and Enter are values of pc and op.        *)
LEMMA PcFacts ==
    /\ {"idle", "reserve", "get", "release", "remove_get", "switch_get",
        "switch_persist", "prepare", "launch", "persist", "install", "stop_lookup",
        "stop_get", "stop_stale", "stop_mark", "stop_wait", "stop_kill_wait",
        "stop_ok"} \subseteq Pcs
    /\ SwitchOps \union {"create", "start", "resume", "stop", "remove"} \subseteq AllOps
  BY DEF Pcs, StopPcs, SpawnPcs, AllOps, SpawnOps, ReserveOps

(* The two ways an SQL write ends: it succeeds, or one fault is used up.    *)
LEMMA FaultsType ==
    ASSUME DbTypeOK, \/ UNCHANGED faults
                     \/ faults > 0 /\ faults' = faults - 1
    PROVE  faults' \in 0..MaxFaults
<1>1. faults \in 0..MaxFaults
  BY DEF DbTypeOK
<1>2. QED
  BY <1>1, BoundsAssumption

(* What is to be shown of the persistent variables.                        *)
LEMMA DbType ==
    ASSUME DbTypeOK, faults' \in 0..MaxFaults,
           row' \in [Ids -> {"none", "removed"} \union RowStates],
           rowAcct' \in [Ids -> Accounts],
           tmp' \in [Ids -> BOOLEAN]
    PROVE  DbTypeOK'
  BY DEF DbTypeOK

(* A call of a client, or a resume, that begins.                           *)
LEMMA TypeBegin ==
    ASSUME TypeOK, NEW c \in Callers, Begin(c)
    PROVE  TypeOK'
<1> USE DEF TypeOK
<1>1. PICK id \in Ids :
        \/ BeginStart(c, id) \/ BeginStop(c, id) \/ BeginRemove(c, id)
        \/ BeginResume(c, id)
        \/ \E a \in Accounts : \/ BeginCreate(c, id, a)
                               \/ \E o \in SwitchOps : BeginSwitch(c, o, id, a)
  BY DEF Begin
<1>2. DbTypeOK' /\ RunTypeOK'
  BY <1>1 DEF BeginStart, BeginStop, BeginRemove, BeginResume, BeginCreate, BeginSwitch,
              DbTypeOK, RunTypeOK, dbVars, runVars
<1>3. MemTypeOK'
  BY <1>1 DEF BeginStart, BeginStop, BeginRemove, BeginResume, BeginCreate, BeginSwitch,
              MemTypeOK, memVars
<1>4. CallTypeOK'
  <2>1. PICK o \in AllOps, p \in Pcs, x \in Accounts \X Accounts : Enter(c, o, id, p, x)
    BY <1>1, PcFacts, SomeAccountFact
       DEF BeginStart, BeginStop, BeginRemove, BeginResume, BeginCreate, BeginSwitch
  <2>2. QED
    BY <2>1, EnterType
<1>5. QED
  BY <1>2, <1>3, <1>4

(* The steps of Start, spawn, Stop, Remove and the account switches, one   *)
(* by one.                                                                 *)
LEMMA TypeCallerStep ==
    ASSUME TypeOK, NEW c \in Callers, CallerStep(c) \/ StopCancelled(c)
    PROVE  TypeOK'
<1> USE DEF TypeOK
<1>1. pc[c] # "idle" => cid[c] \in Ids
  BY DEF CallTypeOK
<1>2. crun[c] \in Runs \union {NoRun} /\ crs[c] \in Runs \union {NoRun}
  BY DEF CallTypeOK
<1>3. acct[c][1] \in Accounts
  BY DEF CallTypeOK
<1>4. CASE TryReserveStart(c)
  <2>1. DbTypeOK'
    BY <1>4 DEF TryReserveStart, DbTypeOK, dbVars
  <2>2. MemTypeOK'
    BY <1>4, <1>1 DEF TryReserveStart, MemTypeOK
  <2>3. RunTypeOK'
    BY <1>4 DEF TryReserveStart, RunTypeOK, runVars
  <2>4. CallTypeOK'
    BY <1>4, PcFacts, GotoType, ReturnType DEF TryReserveStart, CallTypeOK
  <2>5. QED
    BY <2>1, <2>2, <2>3, <2>4 DEF TypeOK
<1>5. CASE StartGet(c)
  <2>1. DbTypeOK'
    BY <1>5 DEF StartGet, DbTypeOK, dbVars
  <2>2. MemTypeOK'
    BY <1>5 DEF StartGet, MemTypeOK, memVars
  <2>3. RunTypeOK'
    BY <1>5 DEF StartGet, RunTypeOK, runVars
  <2>4. CallTypeOK'
    <3>1. cid[c] \in Ids => rowAcct[cid[c]] \in Accounts
      BY DEF DbTypeOK
    <3>2. acct' \in [Callers -> Accounts \X Accounts]
      <4>1. CASE UNCHANGED acct
        BY <4>1 DEF CallTypeOK
      <4>2. CASE acct' = [acct EXCEPT ![c] = <<rowAcct[cid[c]], rowAcct[cid[c]]>>]
        BY <1>5, <1>1, <3>1, <4>2 DEF StartGet, CallTypeOK
      <4>3. QED
        BY <1>5, <4>1, <4>2 DEF StartGet
    <3>3. QED
      BY <1>5, <3>2, PcFacts, GotoType DEF StartGet, CallTypeOK
  <2>5. QED
    BY <2>1, <2>2, <2>3, <2>4 DEF TypeOK
<1>6. CASE Release(c)
  <2>1. DbTypeOK'
    BY <1>6 DEF Release, DbTypeOK, dbVars
  <2>2. MemTypeOK'
    BY <1>6 DEF Release, MemTypeOK
  <2>3. RunTypeOK'
    BY <1>6 DEF Release, RunTypeOK, runVars
  <2>4. CallTypeOK'
    BY <1>6, PcFacts, GotoType, ReturnType DEF Release, CallTypeOK
  <2>5. QED
    BY <2>1, <2>2, <2>3, <2>4 DEF TypeOK
<1>7. CASE Prepare(c)
  <2>1. DbTypeOK'
    BY <1>7 DEF Prepare, DbTypeOK, dbVars
  <2>2. MemTypeOK'
    BY <1>7 DEF Prepare, MemTypeOK, memVars
  <2>3. RunTypeOK'
    BY <1>7 DEF Prepare, RunTypeOK, runVars
  <2>4. CallTypeOK'
    BY <1>7, PcFacts, GotoType, SpawnFailsType DEF Prepare, CallTypeOK
  <2>5. QED
    BY <2>1, <2>2, <2>3, <2>4 DEF TypeOK
<1>8. CASE PtyStart(c)
  <2>1. DbTypeOK'
    BY <1>8 DEF PtyStart, DbTypeOK, dbVars
  <2>2. MemTypeOK'
    BY <1>8 DEF PtyStart, MemTypeOK, memVars
  <2>3. RunTypeOK'
    BY <1>8, LaunchRunType DEF PtyStart, FreeRuns, RunTypeOK, runVars
  <2>4. CallTypeOK'
    <3>1. CASE SpawnFails(c)
      BY <1>8, <3>1, SpawnFailsType DEF PtyStart
    <3>2. ASSUME NEW r \in Runs, crun' = [crun EXCEPT ![c] = r], Goto(c, "persist"),
                 UNCHANGED <<op, cid, acct, crs>>
          PROVE  CallTypeOK'
      BY <1>8, <3>2, PcFacts, GotoType DEF PtyStart, CallTypeOK
    <3>3. QED
      BY <1>8, <3>1, <3>2 DEF PtyStart, FreeRuns
  <2>5. QED
    BY <2>1, <2>2, <2>3, <2>4 DEF TypeOK
<1>9. CASE Persist(c)
  <2>1. DbTypeOK'
    <3>1. faults' \in 0..MaxFaults
      BY <1>9, FaultsType DEF Persist
    <3>2. row' \in [Ids -> {"none", "removed"} \union RowStates]
      BY <1>9 DEF Persist, DbTypeOK, RowStates, WriteRunning
    <3>3. rowAcct' \in [Ids -> Accounts] /\ tmp' \in [Ids -> BOOLEAN]
      BY <1>9, <1>3 DEF Persist, DbTypeOK, WriteRunning
    <3>4. QED
      BY <3>1, <3>2, <3>3, DbType
  <2>2. MemTypeOK'
    BY <1>9 DEF Persist, MemTypeOK, memVars
  <2>3. RunTypeOK'
    BY <1>9, <1>2, ForgetRunType DEF Persist, RunTypeOK, runVars
  <2>4. CallTypeOK'
    BY <1>9, PcFacts, GotoType, SpawnFailsType DEF Persist, CallTypeOK
  <2>5. QED
    BY <2>1, <2>2, <2>3, <2>4 DEF TypeOK
<1>10. CASE Install(c)
  <2>1. DbTypeOK'
    BY <1>10 DEF Install, DbTypeOK, dbVars
  <2>2. MemTypeOK'
    BY <1>10, <1>2 DEF Install, MemTypeOK
  <2>3. RunTypeOK'
    <3>1. "wait" \in WaitPcs
      BY DEF WaitPcs
    <3>2. QED
      BY <1>10, <3>1 DEF Install, RunTypeOK
  <2>4. CallTypeOK'
    BY <1>10, PcFacts, GotoType, ReturnType DEF Install, CallTypeOK
  <2>5. QED
    BY <2>1, <2>2, <2>3, <2>4 DEF TypeOK
<1>11. CASE StopLookup(c)
  <2>1. DbTypeOK'
    BY <1>11 DEF StopLookup, DbTypeOK, dbVars
  <2>2. MemTypeOK'
    BY <1>11 DEF StopLookup, MemTypeOK, memVars
  <2>3. RunTypeOK'
    BY <1>11 DEF StopLookup, RunTypeOK, runVars
  <2>4. CallTypeOK'
    BY <1>11, PcFacts, GotoType DEF StopLookup, CallTypeOK, MemTypeOK
  <2>5. QED
    BY <2>1, <2>2, <2>3, <2>4 DEF TypeOK
<1>12. CASE StopGet(c)
  <2>1. DbTypeOK'
    BY <1>12 DEF StopGet, DbTypeOK, dbVars
  <2>2. MemTypeOK'
    BY <1>12 DEF StopGet, MemTypeOK, memVars
  <2>3. RunTypeOK'
    BY <1>12 DEF StopGet, RunTypeOK, runVars
  <2>4. CallTypeOK'
    BY <1>12, PcFacts, GotoType, ReturnType DEF StopGet, CallTypeOK
  <2>5. QED
    BY <2>1, <2>2, <2>3, <2>4 DEF TypeOK
<1>13. CASE StopStale(c)
  <2>1. DbTypeOK'
    <3>1. faults' \in 0..MaxFaults
      BY <1>13, FaultsType DEF StopStale
    <3>2. row' \in [Ids -> {"none", "removed"} \union RowStates]
      BY <1>13 DEF StopStale, DbTypeOK, RowStates, MarkedTerminal, Terminal
    <3>3. rowAcct' \in [Ids -> Accounts] /\ tmp' \in [Ids -> BOOLEAN]
      BY <1>13 DEF StopStale, DbTypeOK
    <3>4. QED
      BY <3>1, <3>2, <3>3, DbType
  <2>2. MemTypeOK'
    BY <1>13 DEF StopStale, MemTypeOK, memVars
  <2>3. RunTypeOK'
    BY <1>13 DEF StopStale, RunTypeOK, runVars
  <2>4. CallTypeOK'
    BY <1>13, PcFacts, GotoType, ReturnType DEF StopStale, CallTypeOK
  <2>5. QED
    BY <2>1, <2>2, <2>3, <2>4 DEF TypeOK
<1>14. CASE StopMark(c)
  <2>1. DbTypeOK'
    BY <1>14 DEF StopMark, DbTypeOK, dbVars
  <2>2. MemTypeOK'
    BY <1>14, <1>1 DEF StopMark, MemTypeOK
  <2>3. RunTypeOK'
    BY <1>14 DEF StopMark, RunTypeOK
  <2>4. CallTypeOK'
    BY <1>14, PcFacts, GotoType, ReturnType DEF StopMark, CallTypeOK
  <2>5. QED
    BY <2>1, <2>2, <2>3, <2>4 DEF TypeOK
<1>15. CASE StopTimeout(c)
  <2>1. DbTypeOK'
    BY <1>15 DEF StopTimeout, DbTypeOK, dbVars
  <2>2. MemTypeOK'
    BY <1>15 DEF StopTimeout, MemTypeOK, memVars
  <2>3. RunTypeOK'
    BY <1>15 DEF StopTimeout, RunTypeOK
  <2>4. CallTypeOK'
    BY <1>15, PcFacts, GotoType, ReturnType DEF StopTimeout, CallTypeOK
  <2>5. QED
    BY <2>1, <2>2, <2>3, <2>4 DEF TypeOK
<1>16. CASE StopEnded(c)
  <2>1. DbTypeOK'
    BY <1>16 DEF StopEnded, DbTypeOK, dbVars
  <2>2. MemTypeOK'
    BY <1>16 DEF StopEnded, MemTypeOK, memVars
  <2>3. RunTypeOK'
    BY <1>16 DEF StopEnded, RunTypeOK, runVars
  <2>4. CallTypeOK'
    BY <1>16, PcFacts, GotoType, ReturnType DEF StopEnded, CallTypeOK
  <2>5. QED
    BY <2>1, <2>2, <2>3, <2>4 DEF TypeOK
<1>17. CASE StopCancelled(c)
  <2>1. DbTypeOK'
    BY <1>17 DEF StopCancelled, DbTypeOK, dbVars
  <2>2. MemTypeOK'
    BY <1>17 DEF StopCancelled, MemTypeOK, memVars
  <2>3. RunTypeOK'
    BY <1>17 DEF StopCancelled, RunTypeOK, runVars
  <2>4. CallTypeOK'
    BY <1>17, PcFacts, GotoType, ReturnType DEF StopCancelled, CallTypeOK
  <2>5. QED
    BY <2>1, <2>2, <2>3, <2>4 DEF TypeOK
<1>18. CASE StopReturns(c)
  <2>1. DbTypeOK'
    BY <1>18 DEF StopReturns, DbTypeOK, dbVars
  <2>2. MemTypeOK'
    BY <1>18 DEF StopReturns, MemTypeOK, memVars
  <2>3. RunTypeOK'
    BY <1>18 DEF StopReturns, RunTypeOK, runVars
  <2>4. CallTypeOK'
    BY <1>18, PcFacts, GotoType, ReturnType DEF StopReturns, CallTypeOK
  <2>5. QED
    BY <2>1, <2>2, <2>3, <2>4 DEF TypeOK
<1>19. CASE RemoveGet(c)
  <2>1. DbTypeOK'
    BY <1>19 DEF RemoveGet, DbTypeOK, dbVars
  <2>2. MemTypeOK'
    BY <1>19 DEF RemoveGet, MemTypeOK, memVars
  <2>3. RunTypeOK'
    BY <1>19 DEF RemoveGet, RunTypeOK, runVars
  <2>4. CallTypeOK'
    BY <1>19, PcFacts, GotoType, ReturnType DEF RemoveGet, CallTypeOK
  <2>5. QED
    BY <2>1, <2>2, <2>3, <2>4 DEF TypeOK
<1>20. CASE Delete(c)
  <2>1. DbTypeOK'
    <3>1. faults' \in 0..MaxFaults
      BY <1>20, FaultsType DEF Delete
    <3>2. row' \in [Ids -> {"none", "removed"} \union RowStates]
      BY <1>20 DEF Delete, DbTypeOK, RowStates
    <3>3. rowAcct' \in [Ids -> Accounts] /\ tmp' \in [Ids -> BOOLEAN]
      BY <1>20 DEF Delete, DbTypeOK
    <3>4. QED
      BY <3>1, <3>2, <3>3, DbType
  <2>2. MemTypeOK'
    BY <1>20 DEF Delete, MemTypeOK, memVars
  <2>3. RunTypeOK'
    BY <1>20 DEF Delete, RunTypeOK, runVars
  <2>4. CallTypeOK'
    BY <1>20, PcFacts, GotoType, ReturnType DEF Delete, CallTypeOK
  <2>5. QED
    BY <2>1, <2>2, <2>3, <2>4 DEF TypeOK
<1>21. CASE SwitchGet(c)
  <2>1. DbTypeOK'
    BY <1>21 DEF SwitchGet, DbTypeOK, dbVars
  <2>2. MemTypeOK'
    BY <1>21 DEF SwitchGet, MemTypeOK, memVars
  <2>3. RunTypeOK'
    BY <1>21 DEF SwitchGet, RunTypeOK, runVars
  <2>4. CallTypeOK'
    <3>1. CASE Return(c)
      BY <3>1, ReturnType
    <3>2. CASE /\ acct' = [acct EXCEPT ![c] = <<@[1], CurrentAccount(cid[c])>>]
               /\ Goto(c, "stop_lookup") /\ UNCHANGED <<op, cid, crs, crun>>
      <4>1. CurrentAccount(cid[c]) \in Accounts
        BY <1>21, <1>1 DEF SwitchGet, CurrentAccount, MemTypeOK, RunTypeOK, DbTypeOK
      <4>2. acct' \in [Callers -> Accounts \X Accounts]
        BY <3>2, <4>1 DEF CallTypeOK
      <4>3. QED
        BY <1>21, <3>2, <4>2, PcFacts, GotoType DEF SwitchGet, CallTypeOK
    <3>3. QED
      BY <1>21, <3>1, <3>2 DEF SwitchGet
  <2>5. QED
    BY <2>1, <2>2, <2>3, <2>4 DEF TypeOK
<1>22. CASE SwitchRow(c)
  <2>1. DbTypeOK'
    BY <1>22 DEF SwitchRow, DbTypeOK, dbVars
  <2>2. MemTypeOK'
    BY <1>22 DEF SwitchRow, MemTypeOK, memVars
  <2>3. RunTypeOK'
    BY <1>22 DEF SwitchRow, RunTypeOK, runVars
  <2>4. CallTypeOK'
    BY <1>22, PcFacts, GotoType, ReturnType DEF SwitchRow, CallTypeOK
  <2>5. QED
    BY <2>1, <2>2, <2>3, <2>4 DEF TypeOK
<1>23. CASE SwitchPersist(c)
  <2>1. DbTypeOK'
    <3>1. faults' \in 0..MaxFaults
      BY <1>23, FaultsType DEF SwitchPersist
    <3>2. row' \in [Ids -> {"none", "removed"} \union RowStates]
      BY <1>23 DEF SwitchPersist, DbTypeOK, RowStates
    <3>3. rowAcct' \in [Ids -> Accounts] /\ tmp' \in [Ids -> BOOLEAN]
      BY <1>23, <1>3 DEF SwitchPersist, DbTypeOK
    <3>4. QED
      BY <3>1, <3>2, <3>3, DbType
  <2>2. MemTypeOK'
    BY <1>23 DEF SwitchPersist, MemTypeOK, memVars
  <2>3. RunTypeOK'
    BY <1>23 DEF SwitchPersist, RunTypeOK, runVars
  <2>4. CallTypeOK'
    BY <1>23, PcFacts, GotoType, ReturnType DEF SwitchPersist, CallTypeOK
  <2>5. QED
    BY <2>1, <2>2, <2>3, <2>4 DEF TypeOK
<1>24. QED
  BY <1>4, <1>5, <1>6, <1>7, <1>8, <1>9, <1>10, <1>11, <1>12, <1>13, <1>14,
     <1>15, <1>16, <1>17, <1>18, <1>19, <1>20, <1>21, <1>22, <1>23
  DEF CallerStep

(* The process exits, and waitExit takes it through its steps.             *)
LEMMA TypeRunStep ==
    ASSUME TypeOK, NEW r \in Runs, ProcExit(r) \/ WaitExit(r)
    PROVE  TypeOK'
<1> USE DEF TypeOK
<1>1. {"free", "launched", "wait", "classify", "mark", "set", "cleanup", "drop"}
        \subseteq WaitPcs
  BY DEF WaitPcs
<1>2. Terminal \subseteq RowStates /\ "none" \notin Terminal
  BY DEF RowStates, Terminal
<1>3. CASE ProcExit(r)
  <2>1. DbTypeOK'
    BY <1>3 DEF ProcExit, DbTypeOK, dbVars
  <2>2. MemTypeOK'
    BY <1>3 DEF ProcExit, MemTypeOK, memVars
  <2>3. RunTypeOK'
    BY <1>3 DEF ProcExit, RunTypeOK
  <2>4. CallTypeOK'
    BY <1>3 DEF ProcExit, CallTypeOK, callVars
  <2>5. QED
    BY <2>1, <2>2, <2>3, <2>4 DEF TypeOK
<1>4. CASE ConsumeStopRequest(r)
  <2>1. DbTypeOK'
    BY <1>4 DEF ConsumeStopRequest, DbTypeOK, dbVars
  <2>2. MemTypeOK'
    BY <1>4 DEF ConsumeStopRequest, MemTypeOK
  <2>3. RunTypeOK'
    <3>1. stopFlag' \in [Runs -> BOOLEAN]
      <4>1. (runOf[r] \in stopReq) \in BOOLEAN
        OBVIOUS
      <4>2. QED
        BY <1>4, <4>1, Zenon DEF ConsumeStopRequest, RunTypeOK
    <3>2. QED
      BY <1>4, <1>1, <3>1 DEF ConsumeStopRequest, RunTypeOK
  <2>4. CallTypeOK'
    BY <1>4 DEF ConsumeStopRequest, CallTypeOK, callVars
  <2>5. QED
    BY <2>1, <2>2, <2>3, <2>4 DEF TypeOK
<1>5. CASE Classify(r)
  <2>1. DbTypeOK'
    BY <1>5 DEF Classify, DbTypeOK, dbVars
  <2>2. MemTypeOK'
    BY <1>5 DEF Classify, MemTypeOK, memVars
  <2>3. RunTypeOK'
    <3>1. ClassifyExitState(stopFlag[r], Closed) \in Terminal
      BY ClassifyFacts
    <3>2. QED
      BY <1>5, <1>1, <1>2, <3>1 DEF Classify, RunTypeOK
  <2>4. CallTypeOK'
    BY <1>5 DEF Classify, CallTypeOK, callVars
  <2>5. QED
    BY <2>1, <2>2, <2>3, <2>4 DEF TypeOK
<1>6. CASE MarkRow(r)
  <2>1. DbTypeOK'
    <3>1. faults' \in 0..MaxFaults
      BY <1>6, FaultsType DEF MarkRow
    <3>2. final[r] \in Terminal
      BY <1>6 DEF MarkRow, RunTypeOK
    <3>3. row' \in [Ids -> {"none", "removed"} \union RowStates]
      BY <1>6, <1>2, <3>2 DEF MarkRow, DbTypeOK, MarkedTerminal
    <3>4. QED
      BY <1>6, <3>1, <3>3, DbType DEF MarkRow, DbTypeOK
  <2>2. MemTypeOK'
    BY <1>6 DEF MarkRow, MemTypeOK, memVars
  <2>3. RunTypeOK'
    BY <1>6, <1>1 DEF MarkRow, RunTypeOK
  <2>4. CallTypeOK'
    BY <1>6 DEF MarkRow, CallTypeOK, callVars
  <2>5. QED
    BY <2>1, <2>2, <2>3, <2>4 DEF TypeOK
<1>7. CASE SetState(r)
  <2>1. DbTypeOK'
    BY <1>7 DEF SetState, DbTypeOK, dbVars
  <2>2. MemTypeOK'
    BY <1>7 DEF SetState, MemTypeOK, memVars
  <2>3. RunTypeOK'
    BY <1>7, <1>1, <1>2 DEF SetState, RunTypeOK
  <2>4. CallTypeOK'
    BY <1>7 DEF SetState, CallTypeOK, callVars
  <2>5. QED
    BY <2>1, <2>2, <2>3, <2>4 DEF TypeOK
<1>8. CASE Cleanup(r)
  <2>1. DbTypeOK'
    BY <1>8 DEF Cleanup, DbTypeOK, dbVars
  <2>2. MemTypeOK'
    BY <1>8 DEF Cleanup, MemTypeOK, memVars
  <2>3. RunTypeOK'
    BY <1>8, <1>1 DEF Cleanup, RunTypeOK
  <2>4. CallTypeOK'
    BY <1>8 DEF Cleanup, CallTypeOK, callVars
  <2>5. QED
    BY <2>1, <2>2, <2>3, <2>4 DEF TypeOK
<1>9. CASE Drop(r)
  <2>1. DbTypeOK'
    BY <1>9 DEF Drop, DbTypeOK, dbVars
  <2>2. MemTypeOK'
    BY <1>9 DEF Drop, MemTypeOK
  <2>3. RunTypeOK'
    BY <1>9, ForgetRunType DEF Drop, RunTypeOK
  <2>4. CallTypeOK'
    BY <1>9 DEF Drop, CallTypeOK, callVars
  <2>5. QED
    BY <2>1, <2>2, <2>3, <2>4 DEF TypeOK
<1>10. QED
  BY <1>3, <1>4, <1>5, <1>6, <1>7, <1>8, <1>9 DEF WaitExit

(* The gateway boots, shuts down or dies.                                  *)
LEMMA TypeGatewayStep ==
    ASSUME TypeOK, ReconcileStartup \/ Shutdown \/ Crash
    PROVE  TypeOK'
<1> USE DEF TypeOK
<1>1. GwPhases = {"down", "serving", "stopping", "closing", "killing"}
  BY DEF GwPhases
<1>2. CASE ReconcileStartup
  <2>1. DbTypeOK'
    <3>1. faults' \in 0..MaxFaults
      BY <1>2, FaultsType DEF ReconcileStartup
    <3>2. row' \in [Ids -> {"none", "removed"} \union RowStates]
      BY <1>2 DEF ReconcileStartup, Reconciled, DbTypeOK, RowStates, Terminal
    <3>3. QED
      BY <1>2, <3>1, <3>2, DbType DEF ReconcileStartup, DbTypeOK
  <2>2. MemTypeOK'
    BY <1>1, <1>2 DEF ReconcileStartup, MemTypeOK
  <2>3. RunTypeOK' /\ CallTypeOK'
    BY <1>2 DEF ReconcileStartup, RunTypeOK, runVars, CallTypeOK, callVars
  <2>4. QED
    BY <2>1, <2>2, <2>3
<1>3. CASE Sigterm \/ ShutdownBegin \/ ShutdownKill
  <2>1. DbTypeOK' /\ CallTypeOK'
    BY <1>3 DEF Sigterm, ShutdownBegin, ShutdownKill, DbTypeOK, dbVars, CallTypeOK, callVars
  <2>2. MemTypeOK'
    BY <1>1, <1>3 DEF Sigterm, ShutdownBegin, ShutdownKill, MemTypeOK
  <2>3. RunTypeOK'
    BY <1>3 DEF Sigterm, ShutdownBegin, ShutdownKill, RunTypeOK, runVars
  <2>4. QED
    BY <2>1, <2>2, <2>3
<1>4. CASE GatewayGone
  <2>1. DbTypeOK'
    BY <1>4 DEF GatewayGone, DbTypeOK, dbVars
  <2>2. MemTypeOK'
    BY <1>1, <1>4 DEF GatewayGone, MemTypeOK, NoSessions
  <2>3. RunTypeOK'
    BY <1>4, SomeAccountFact DEF GatewayGone, RunTypeOK, AllRuns, RowStates, Terminal, WaitPcs
  <2>4. CallTypeOK'
    BY <1>4, SomeAccountFact DEF GatewayGone, CallTypeOK, AllCallers, Pcs
  <2>5. QED
    BY <2>1, <2>2, <2>3, <2>4
<1>5. QED
  BY <1>2, <1>3, <1>4 DEF Shutdown, ShutdownDone, Crash

(* Every step keeps the types.                                             *)
LEMMA TypeNext == TypeOK /\ [Next]_vars => TypeOK'
<1>1. CASE Next
  BY <1>1, TypeBegin, TypeCallerStep, TypeRunStep, TypeGatewayStep DEF Next
<1>2. ASSUME TypeOK, UNCHANGED vars PROVE TypeOK'
  BY <1>2 DEF TypeOK, DbTypeOK, MemTypeOK, RunTypeOK, CallTypeOK,
              vars, dbVars, memVars, runVars, callVars
<1>3. QED
  BY <1>1, <1>2

(* Type correctness: in every behaviour of the session manager, whatever   *)
(* the instance, every variable keeps its type.                            *)
THEOREM TypeCorrect == Spec => []TypeOK
  BY TypeInit, TypeNext, PTL DEF Spec

(***************************************************************************)
(* At most one process per session, for every instance of SessionManager   *)
(* in which each spawn of an existing session goes through                 *)
(* tryReserveStart.  The account switches do not, and a client that learns *)
(* an id before Create has returned it can outrun the live map.  Each      *)
(* breaks the property (the first is run finding_switch_start), so the     *)
(* theorem says exactly what the reservation protects.                     *)
(***************************************************************************)

ReservedSpawnsOnly == Ops \intersect SwitchOps = {} /\ ~EarlyIds

(* The invariant is strong enough.                                         *)
LEMMA InvImpliesOneProcess == OneProcessInv => AtMostOneProcess
<1> SUFFICES ASSUME OneProcessInv,
                    NEW r \in Runs, NEW s \in Runs,
                    alive[r], alive[s], runOf[r] = runOf[s]
             PROVE  r = s
  BY DEF AtMostOneProcess
<1> USE DEF OneProcessInv
<1>1. wpc[r] \in {"launched", "wait"} /\ wpc[s] \in {"launched", "wait"}
  BY DEF RunShape
<1>2. ASSUME NEW x \in Runs, wpc[x] = "launched"
      PROVE  \E c \in Callers : /\ crun[c] = x /\ cid[c] = runOf[x]
                                /\ Installing(c) /\ Spawning(c)
  <2>1. PICK c \in Callers : crun[c] = x
    BY <1>2 DEF RunShape
  <2>2. x # NoRun
    BY ConstantsAssumption
  <2>3. pc[c] \in {"persist", "install"} /\ runOf[x] = cid[c]
    BY <2>1, <2>2 DEF CallerShape
  <2>4. QED
    BY <2>1, <2>3 DEF Installing, Spawning, SpawnPcs
<1>3. ASSUME NEW x \in Runs, wpc[x] = "wait"
      PROVE  runOf[x] \in Ids /\ sessions[runOf[x]] = x
  BY <1>3 DEF RunShape, Tracked
<1>4. CASE wpc[r] = "wait" /\ wpc[s] = "wait"
  BY <1>3, <1>4
<1>5. ASSUME NEW x \in Runs, NEW y \in Runs, wpc[x] = "launched", wpc[y] = "wait",
             runOf[x] = runOf[y]
      PROVE  FALSE
  <2>1. PICK c \in Callers : cid[c] = runOf[x] /\ Installing(c)
    BY <1>2, <1>5
  <2>2. sessions[cid[c]] = y /\ y # NoRun
    BY <1>3, <1>5, <2>1, ConstantsAssumption
  <2>3. QED
    BY <1>5, <2>1, <2>2 DEF Vacant, Tracked
<1>6. CASE wpc[r] = "launched" /\ wpc[s] = "launched"
  <2>1. PICK c \in Callers : crun[c] = r /\ cid[c] = runOf[r] /\ Spawning(c)
    BY <1>2, <1>6
  <2>2. PICK d \in Callers : crun[d] = s /\ cid[d] = runOf[s] /\ Spawning(d)
    BY <1>2, <1>6
  <2>3. c = d
    BY <2>1, <2>2 DEF Exclusive
  <2>4. QED
    BY <2>1, <2>2, <2>3
<1>7. QED
  BY <1>1, <1>4, <1>5, <1>6

(* It holds of whatever an earlier gateway left: no caller, no run, an     *)
(* empty live map.                                                         *)
LEMMA OneProcessInit == Init => OneProcessInv
<1> SUFFICES ASSUME Init PROVE OneProcessInv
  OBVIOUS
<1>1. TypeOK
  BY TypeInit
<1>2. \A c \in Callers : pc[c] = "idle" /\ op[c] = "none" /\ crun[c] = NoRun
  BY DEF Init, AllCallers
<1>3. \A r \in Runs : ~alive[r] /\ wpc[r] = "free"
  BY DEF Init, AllRuns
<1>4. \A id \in Ids : sessions[id] = NoRun
  BY DEF Init, NoSessions
<1>5. toResume = {}
  BY DEF Init
<1>6. CallerShape
  BY <1>2 DEF CallerShape, SwitchOps, SpawnPcs, StopPcs
<1>7. FreshIds
  BY <1>2, <1>4, <1>5 DEF FreshIds
<1>8. Exclusive /\ Vacant /\ QuietWhenDown
  BY <1>2 DEF Exclusive, Vacant, Installing, Spawning, SpawnPcs, QuietWhenDown
<1>9. RunShape /\ LiveMap
  BY <1>3, <1>4 DEF RunShape, LiveMap, Tracked
<1>10. QED
  BY <1>1, <1>6, <1>7, <1>8, <1>9 DEF OneProcessInv

(***************************************************************************)
(* Steps of Stop and Remove, and returns of any call outside a spawn, move *)
(* one caller and leave the reservations, the live map and the runs alone. *)
(***************************************************************************)
StopMove(c) ==
    /\ pc[c] \in StopPcs \union {"remove_get"}
    /\ \/ Return(c)
       \/ /\ \E p \in StopPcs : Goto(c, p)
          /\ UNCHANGED <<op, cid, crun>>
    /\ \A id \in Ids : /\ row'[id] = "none" => row[id] = "none"
                       /\ row[id] = "none" => row'[id] = "none"
    /\ UNCHANGED <<gw, sessions, starting, toResume, runOf, alive, rst, wpc>>

(* Such a step disturbs nothing the invariant relates: the caller owns no  *)
(* run and no reservation.                                                 *)
LEMMA StopMovePreserves ==
    ASSUME OneProcessInv, TypeOK', NEW c \in Callers, StopMove(c)
    PROVE  OneProcessInv'
<1>1. /\ TypeOK /\ CallerShape /\ FreshIds /\ Exclusive
      /\ RunShape /\ LiveMap /\ Vacant /\ QuietWhenDown
  BY DEF OneProcessInv
<1>2. /\ DOMAIN pc = Callers /\ DOMAIN op = Callers /\ DOMAIN cid = Callers
      /\ DOMAIN crun = Callers /\ \A d \in Callers : pc[d] # "idle" => cid[d] \in Ids
  BY <1>1 DEF TypeOK, CallTypeOK
<1>3. /\ pc[c] \in StopPcs \union {"remove_get"} /\ op[c] \in {"stop", "remove"}
      /\ crun[c] = NoRun /\ cid[c] \in Ids
  BY <1>1, <1>2 DEF StopMove, CallerShape, StopPcs
<1>4. /\ UNCHANGED <<gw, sessions, starting, toResume, runOf, alive, rst, wpc>>
      /\ \A id \in Ids : /\ row'[id] = "none" => row[id] = "none"
                         /\ row[id] = "none" => row'[id] = "none"
  BY DEF StopMove
<1>5. \A d \in Callers : d # c =>
        pc'[d] = pc[d] /\ op'[d] = op[d] /\ cid'[d] = cid[d] /\ crun'[d] = crun[d]
  <2>1. CASE Return(c)
    BY <1>2, <2>1 DEF Return
  <2>2. CASE (\E p \in StopPcs : Goto(c, p)) /\ UNCHANGED <<op, cid, crun>>
    BY <1>2, <2>2 DEF Goto
  <2>3. QED
    BY <2>1, <2>2 DEF StopMove
<1>6. /\ crun'[c] = NoRun
      /\ \/ pc'[c] = "idle" /\ op'[c] = "none"
         \/ pc'[c] \in StopPcs /\ op'[c] = op[c] /\ cid'[c] = cid[c]
  <2>1. CASE Return(c)
    BY <1>2, <2>1 DEF Return
  <2>2. CASE (\E p \in StopPcs : Goto(c, p)) /\ UNCHANGED <<op, cid, crun>>
    BY <1>2, <1>3, <2>2 DEF Goto
  <2>3. QED
    BY <2>1, <2>2 DEF StopMove
<1>7. CallerShape'
  <2>1. ASSUME NEW d \in Callers, d # c PROVE CallerShape!(d)'
    BY <1>1, <1>4, <1>5, <2>1 DEF CallerShape
  <2>2. CallerShape!(c)'
    BY <1>3, <1>4, <1>6 DEF StopPcs, SpawnPcs, SwitchOps, ReserveOps
  <2>3. QED
    BY <2>1, <2>2 DEF CallerShape
<1>8. FreshIds'
  BY <1>1, <1>2, <1>3, <1>4, <1>5, <1>6 DEF FreshIds, StopPcs
<1>9. ~Spawning(c)' /\ \A d \in Callers : d # c => (Spawning(d)' <=> Spawning(d))
  BY <1>5, <1>6 DEF Spawning, StopPcs, SpawnPcs
<1>10. Exclusive'
  BY <1>1, <1>3, <1>4, <1>5, <1>6, <1>9 DEF Exclusive, StopPcs
<1>11. RunShape'
  BY <1>1, <1>3, <1>4, <1>5, ConstantsAssumption DEF RunShape
<1>12. LiveMap'
  BY <1>1, <1>4 DEF LiveMap
<1>13. Vacant'
  BY <1>1, <1>4, <1>5, <1>9 DEF Vacant, Installing
<1>14. QuietWhenDown'
  BY <1>1, <1>3, <1>4 DEF QuietWhenDown, StopPcs
<1>15. QED
  BY <1>7, <1>8, <1>10, <1>11, <1>12, <1>13, <1>14 DEF OneProcessInv

(***************************************************************************)
(* Steps of a spawn before its process exists, or after it is installed.   *)
(***************************************************************************)
SpawnMove(c) ==
    /\ pc[c] \in {"reserve", "get", "prepare", "launch", "release"}
    /\ \/ Return(c) /\ (op[c] = "create" \/ pc[c] \in {"reserve", "release"})
       \/ /\ \E p \in {"prepare", "launch", "release"} :
               Goto(c, p) /\ (p = "release" => op[c] \in ReserveOps)
          /\ pc[c] \notin {"reserve", "release"}
          /\ UNCHANGED <<op, cid>> /\ crun' \in {crun, [crun EXCEPT ![c] = NoRun]}
    /\ \/ UNCHANGED starting
       \/ pc[c] = "release" /\ starting' = starting \ {cid[c]}
    /\ UNCHANGED <<row, gw, sessions, toResume, runOf, alive, rst, wpc>>

(* Such a step keeps or gives up the caller's reservation, and owns no run *)
(* before or after it.                                                     *)
LEMMA SpawnMovePreserves ==
    ASSUME OneProcessInv, TypeOK', NEW c \in Callers, SpawnMove(c)
    PROVE  OneProcessInv'
<1>1. /\ TypeOK /\ CallerShape /\ FreshIds /\ Exclusive
      /\ RunShape /\ LiveMap /\ Vacant /\ QuietWhenDown
  BY DEF OneProcessInv
<1>2. /\ DOMAIN pc = Callers /\ DOMAIN op = Callers /\ DOMAIN cid = Callers
      /\ DOMAIN crun = Callers
  BY <1>1 DEF TypeOK, CallTypeOK
<1>3. /\ pc[c] \in {"reserve", "get", "prepare", "launch", "release"}
      /\ op[c] \in ReserveOps \union {"create"} /\ crun[c] = NoRun
  BY <1>1 DEF SpawnMove, CallerShape, SpawnPcs
<1>4. UNCHANGED <<row, gw, sessions, toResume, runOf, alive, rst, wpc>>
  BY DEF SpawnMove
<1>5. \A d \in Callers : d # c =>
        pc'[d] = pc[d] /\ op'[d] = op[d] /\ cid'[d] = cid[d] /\ crun'[d] = crun[d]
  <2>1. CASE Return(c)
    BY <1>2, <2>1 DEF Return
  <2>2. CASE /\ \E p \in {"prepare", "launch", "release"} : Goto(c, p)
             /\ UNCHANGED <<op, cid>> /\ crun' \in {crun, [crun EXCEPT ![c] = NoRun]}
    BY <1>2, <2>2 DEF Goto
  <2>3. QED
    BY <2>1, <2>2 DEF SpawnMove
<1>6. /\ crun'[c] = NoRun
      /\ \/ /\ pc'[c] = "idle" /\ op'[c] = "none"
            /\ op[c] = "create" \/ pc[c] \in {"reserve", "release"}
         \/ /\ pc'[c] \in {"prepare", "launch", "release"}
            /\ pc'[c] = "release" => op[c] \in ReserveOps
            /\ op'[c] = op[c] /\ cid'[c] = cid[c]
            /\ pc[c] \notin {"reserve", "release"}
  <2>1. CASE Return(c) /\ (op[c] = "create" \/ pc[c] \in {"reserve", "release"})
    BY <1>2, <2>1 DEF Return
  <2>2. CASE /\ \E p \in {"prepare", "launch", "release"} :
                  Goto(c, p) /\ (p = "release" => op[c] \in ReserveOps)
             /\ pc[c] \notin {"reserve", "release"}
             /\ UNCHANGED <<op, cid>> /\ crun' \in {crun, [crun EXCEPT ![c] = NoRun]}
    BY <1>2, <1>3, <2>2 DEF Goto
  <2>3. QED
    BY <2>1, <2>2 DEF SpawnMove
<1>7. CallerShape'
  <2>1. ASSUME NEW d \in Callers, d # c PROVE CallerShape!(d)'
    BY <1>1, <1>4, <1>5, <2>1 DEF CallerShape
  <2>2. CallerShape!(c)'
    BY <1>3, <1>4, <1>6 DEF StopPcs, SpawnPcs, SwitchOps, ReserveOps
  <2>3. QED
    BY <2>1, <2>2 DEF CallerShape
<1>8. FreshIds'
  BY <1>1, <1>3, <1>4, <1>5, <1>6 DEF FreshIds
<1>9. /\ \A d \in Callers : d # c => (Spawning(d)' <=> Spawning(d))
      /\ Spawning(c)' => /\ Spawning(c) /\ op'[c] = op[c] /\ cid'[c] = cid[c]
                         /\ UNCHANGED starting
      /\ op[c] # "create" /\ pc[c] # "reserve" => Spawning(c)
  BY <1>3, <1>5, <1>6 DEF SpawnMove, Spawning, SpawnPcs
<1>10. Exclusive'
  <2>1. ASSUME NEW d \in Callers, Spawning(d)', op'[d] # "create"
        PROVE  cid'[d] \in starting'
    <3>1. CASE d = c
      BY <1>1, <1>9, <2>1, <3>1 DEF Exclusive
    <3>2. CASE d # c
      <4>1. Spawning(d) /\ cid'[d] = cid[d] /\ cid[d] \in starting
        BY <1>1, <1>5, <1>9, <2>1, <3>2 DEF Exclusive
      <4>2. pc[c] = "release" => cid[c] # cid[d]
        BY <1>1, <3>2, <4>1 DEF Exclusive, Spawning
      <4>3. QED
        BY <4>1, <4>2 DEF SpawnMove
    <3>3. QED
      BY <3>1, <3>2
  <2>2. QED
    BY <1>1, <1>3, <1>5, <1>6, <1>9, <2>1 DEF Exclusive
<1>11. RunShape'
  BY <1>1, <1>3, <1>4, <1>5, ConstantsAssumption DEF RunShape
<1>12. LiveMap'
  BY <1>1, <1>4 DEF LiveMap
<1>13. Vacant'
  <2>1. \A d \in Callers : Installing(d)' => Installing(d) /\ cid'[d] = cid[d]
    BY <1>3, <1>5, <1>6, <1>9 DEF Installing, Spawning, SpawnPcs
  <2>2. QED
    BY <1>1, <1>4, <2>1 DEF Vacant
<1>14. QuietWhenDown'
  BY <1>1, <1>3, <1>4 DEF QuietWhenDown
<1>15. QED
  BY <1>7, <1>8, <1>10, <1>11, <1>12, <1>13, <1>14 DEF OneProcessInv

(***************************************************************************)
(* A call begins.                                                          *)
(***************************************************************************)
BeginMove(c, o, id, p) ==
    /\ \E x \in Accounts \X Accounts : Enter(c, o, id, p, x)
    /\ row[id] # "none" => \A d \in Callers : ~(op[d] = "create" /\ cid[d] = id)
    /\ \/ o \in ReserveOps /\ p = "reserve" /\ row[id] # "none"
       \/ o \in {"stop", "remove"} /\ p \in StopPcs \union {"remove_get"} /\ row[id] # "none"
       \/ /\ o = "create" /\ p = "prepare" /\ row[id] = "none"
          /\ \A d \in Callers : cid[d] # id
    /\ gw # "down" /\ toResume' \subseteq toResume
    /\ UNCHANGED <<row, gw, sessions, starting, runOf, alive, rst, wpc>>

(* A call that begins owns nothing yet; its id is fresh if it is a Create, *)
(* and has a row if not.                                                   *)
LEMMA BeginMovePreserves ==
    ASSUME OneProcessInv, TypeOK', NEW c \in Callers, NEW o, NEW id \in Ids, NEW p,
           BeginMove(c, o, id, p)
    PROVE  OneProcessInv'
<1>1. /\ TypeOK /\ CallerShape /\ FreshIds /\ Exclusive
      /\ RunShape /\ LiveMap /\ Vacant /\ QuietWhenDown
  BY DEF OneProcessInv
<1>2. /\ DOMAIN pc = Callers /\ DOMAIN op = Callers /\ DOMAIN cid = Callers
      /\ DOMAIN crun = Callers /\ \A d \in Callers : pc[d] # "idle" => cid[d] \in Ids
  BY <1>1 DEF TypeOK, CallTypeOK
<1>3. pc[c] = "idle" /\ crun[c] = NoRun /\ op[c] = "none"
  BY <1>1 DEF BeginMove, Enter, CallerShape
<1>4. /\ UNCHANGED <<row, gw, sessions, starting, runOf, alive, rst, wpc, crun>>
      /\ toResume' \subseteq toResume
  BY DEF BeginMove, Enter
<1>5. \A d \in Callers : d # c => pc'[d] = pc[d] /\ op'[d] = op[d] /\ cid'[d] = cid[d]
  BY <1>2 DEF BeginMove, Enter
<1>6. pc'[c] = p /\ op'[c] = o /\ cid'[c] = id /\ p # "idle"
  BY <1>2 DEF BeginMove, Enter, StopPcs
<1>7. \/ o \in ReserveOps /\ p = "reserve" /\ row[id] # "none"
      \/ o \in {"stop", "remove"} /\ p \in StopPcs \union {"remove_get"} /\ row[id] # "none"
      \/ o = "create" /\ p = "prepare" /\ row[id] = "none" /\ \A d \in Callers : cid[d] # id
  BY DEF BeginMove
<1>8. CallerShape'
  <2>1. ASSUME NEW d \in Callers, d # c PROVE CallerShape!(d)'
    BY <1>1, <1>4, <1>5, <2>1 DEF CallerShape
  <2>2. CallerShape!(c)'
    BY <1>3, <1>4, <1>6, <1>7 DEF StopPcs, SpawnPcs, SwitchOps, ReserveOps
  <2>3. QED
    BY <2>1, <2>2 DEF CallerShape
<1>9. FreshIds'
  BY <1>1, <1>4, <1>5, <1>6, <1>7 DEF FreshIds, ReserveOps
<1>10. /\ \A d \in Callers : d # c => /\ (Spawning(d)' <=> Spawning(d))
                                      /\ (Spawning(d) => pc[d] # "idle")
       /\ Spawning(c)' => o = "create"
  BY <1>5, <1>6, <1>7 DEF Spawning, SpawnPcs, StopPcs
<1>11. Exclusive'
  <2>1. \A d \in Callers : op[d] = "create" => cid[d] # id
    BY <1>7 DEF BeginMove
  <2>2. o = "create" => \A d \in Callers : cid[d] # id
    BY <1>7 DEF ReserveOps
  <2>3. QED
    BY <1>1, <1>4, <1>5, <1>6, <1>10, <2>1, <2>2 DEF Exclusive
<1>12. RunShape'
  BY <1>1, <1>4 DEF RunShape
<1>13. LiveMap'
  BY <1>1, <1>4 DEF LiveMap
<1>14. Vacant'
  <2>1. o = "create" => sessions[id] = NoRun
    BY <1>1, <1>7 DEF FreshIds, ReserveOps
  <2>2. QED
    BY <1>1, <1>4, <1>5, <1>6, <1>10, <2>1 DEF Vacant, Installing
<1>15. QuietWhenDown'
  BY <1>4 DEF QuietWhenDown, BeginMove
<1>16. QED
  BY <1>8, <1>9, <1>11, <1>12, <1>13, <1>14, <1>15 DEF OneProcessInv

(***************************************************************************)
(* tryReserveStart succeeds: the id was not reserved, and the run the live *)
(* map holds for it, if any, is recorded as terminal.                      *)
(***************************************************************************)
LEMMA ReservePreserves ==
    ASSUME OneProcessInv, TypeOK', NEW c \in Callers, pc[c] = "reserve", MayReserve(cid[c]),
           starting' = starting \union {cid[c]}, Goto(c, "get"),
           UNCHANGED <<op, cid, crun, row, gw, sessions, toResume, runOf, alive, rst, wpc>>
    PROVE  OneProcessInv'
<1>1. /\ TypeOK /\ CallerShape /\ FreshIds /\ Exclusive
      /\ RunShape /\ LiveMap /\ Vacant /\ QuietWhenDown
  BY DEF OneProcessInv
<1>2. /\ DOMAIN pc = Callers /\ DOMAIN op = Callers /\ DOMAIN cid = Callers
      /\ DOMAIN crun = Callers /\ \A d \in Callers : pc[d] # "idle" => cid[d] \in Ids
  BY <1>1 DEF TypeOK, CallTypeOK
<1>3. op[c] \in ReserveOps /\ crun[c] = NoRun /\ cid[c] \in Ids
  BY <1>1, <1>2 DEF CallerShape
<1>4. pc'[c] = "get" /\ \A d \in Callers : d # c => pc'[d] = pc[d]
  BY <1>2 DEF Goto
<1>5. CallerShape'
  <2>1. ASSUME NEW d \in Callers, d # c PROVE CallerShape!(d)'
    BY <1>1, <1>4, <2>1 DEF CallerShape
  <2>2. CallerShape!(c)'
    BY <1>3, <1>4 DEF StopPcs, SpawnPcs, SwitchOps, ReserveOps
  <2>3. QED
    BY <2>1, <2>2 DEF CallerShape
<1>6. FreshIds'
  BY <1>1, <1>3, <1>4 DEF FreshIds, ReserveOps
<1>7. /\ \A d \in Callers : d # c => /\ (Spawning(d)' <=> Spawning(d))
                                     /\ (Spawning(d) => pc[d] # "idle")
      /\ Spawning(c)'
  BY <1>4 DEF Spawning, SpawnPcs
<1>8. Exclusive'
  <2>1. cid[c] \notin starting
    BY DEF MayReserve
  <2>2. \A d \in Callers : Spawning(d) => d = c \/ cid[d] # cid[c]
    BY <1>1, <1>3, <2>1 DEF Exclusive, ReserveOps
  <2>3. QED
    BY <1>1, <1>4, <1>7, <2>2 DEF Exclusive
<1>9. RunShape'
  BY <1>1 DEF RunShape
<1>10. LiveMap'
  BY <1>1 DEF LiveMap
<1>11. Vacant'
  <2>1. ~CanTransition("running", "start")
    BY DEF CanTransition, NextStates, IsTerminal, Terminal, LiveTransitions,
           TerminationEvents, State, Live
  <2>2. sessions[cid[c]] # NoRun => wpc[sessions[cid[c]]] \notin Tracked
    <3> SUFFICES ASSUME sessions[cid[c]] # NoRun, wpc[sessions[cid[c]]] \in Tracked
                 PROVE  FALSE
      OBVIOUS
    <3>1. sessions[cid[c]] \in Runs
      BY <1>1, <1>3 DEF TypeOK, MemTypeOK
    <3>2. rst[sessions[cid[c]]] = "running"
      BY <1>1, <3>1 DEF RunShape
    <3>3. QED
      BY <2>1, <3>2 DEF MayReserve
  <2>3. QED
    BY <1>1, <1>4, <1>7, <2>2 DEF Vacant, Installing
<1>12. QuietWhenDown'
  BY <1>1 DEF QuietWhenDown
<1>13. QED
  BY <1>5, <1>6, <1>8, <1>9, <1>10, <1>11, <1>12 DEF OneProcessInv

(***************************************************************************)
(* pty.Start succeeds: a free run becomes the caller's own.                *)
(***************************************************************************)
LEMMA LaunchPreserves ==
    ASSUME OneProcessInv, TypeOK', NEW c \in Callers, NEW r \in Runs, pc[c] = "launch",
           wpc[r] = "free", LaunchRun(c, r), crun' = [crun EXCEPT ![c] = r],
           Goto(c, "persist"),
           UNCHANGED <<op, cid, row, gw, sessions, starting, toResume>>
    PROVE  OneProcessInv'
<1>1. /\ TypeOK /\ CallerShape /\ FreshIds /\ Exclusive
      /\ RunShape /\ LiveMap /\ Vacant /\ QuietWhenDown
  BY DEF OneProcessInv
<1>2. /\ DOMAIN pc = Callers /\ DOMAIN op = Callers /\ DOMAIN cid = Callers
      /\ DOMAIN crun = Callers /\ \A d \in Callers : pc[d] # "idle" => cid[d] \in Ids
      /\ DOMAIN wpc = Runs /\ DOMAIN alive = Runs /\ DOMAIN rst = Runs /\ DOMAIN runOf = Runs
  BY <1>1 DEF TypeOK, CallTypeOK, RunTypeOK
<1>3. op[c] \in ReserveOps \union {"create"} /\ crun[c] = NoRun /\ cid[c] \in Ids
  BY <1>1, <1>2 DEF CallerShape, SpawnPcs
<1>4. /\ pc'[c] = "persist" /\ crun'[c] = r
      /\ \A d \in Callers : d # c => pc'[d] = pc[d] /\ crun'[d] = crun[d]
  BY <1>2 DEF Goto
<1>5. /\ wpc'[r] = "launched" /\ runOf'[r] = cid[c] /\ rst'[r] = "running"
      /\ \A s \in Runs : s # r => /\ wpc'[s] = wpc[s] /\ runOf'[s] = runOf[s]
                                  /\ rst'[s] = rst[s] /\ alive'[s] = alive[s]
  BY <1>2 DEF LaunchRun
<1>6. r # NoRun
  BY ConstantsAssumption
<1>7. CallerShape'
  <2>1. ASSUME NEW d \in Callers, d # c PROVE CallerShape!(d)'
    <3>1. crun[d] # r /\ crun[d] \in Runs \union {NoRun}
      BY <1>1, <1>6 DEF CallerShape, TypeOK, CallTypeOK
    <3>2. QED
      BY <1>1, <1>4, <1>5, <2>1, <3>1 DEF CallerShape
  <2>2. CallerShape!(c)'
    BY <1>1, <1>3, <1>4, <1>5, <1>6 DEF CallerShape, StopPcs, SpawnPcs, SwitchOps, ReserveOps
  <2>3. QED
    BY <2>1, <2>2 DEF CallerShape
<1>8. FreshIds'
  BY <1>1, <1>3, <1>4 DEF FreshIds
<1>9. \A d \in Callers : (Spawning(d)' <=> Spawning(d)) /\ (Installing(d)' <=> Installing(d))
  BY <1>4 DEF Installing, Spawning, SpawnPcs
<1>10. Exclusive'
  BY <1>1, <1>4, <1>9 DEF Exclusive
<1>11. RunShape'
  <2>1. ASSUME NEW s \in Runs, s # r PROVE RunShape!(s)'
    <3>1. wpc[s] = "launched" => \E d \in Callers : crun'[d] = s
      BY <1>1, <1>3, <1>4, ConstantsAssumption DEF RunShape
    <3>2. QED
      BY <1>1, <1>5, <2>1, <3>1 DEF RunShape
  <2>2. RunShape!(r)'
    BY <1>4, <1>5 DEF Tracked
  <2>3. QED
    BY <2>1, <2>2 DEF RunShape
<1>12. LiveMap'
  <2>1. \A id \in Ids : sessions[id] # r /\ sessions[id] \in Runs \union {NoRun}
    BY <1>1, <1>6 DEF LiveMap, Tracked, TypeOK, MemTypeOK
  <2>2. QED
    BY <1>1, <1>5, <2>1 DEF LiveMap
<1>13. Vacant'
  <2>1. \A id \in Ids : sessions[id] # r /\ sessions[id] \in Runs \union {NoRun}
    BY <1>1, <1>6 DEF LiveMap, Tracked, TypeOK, MemTypeOK
  <2>2. \A d \in Callers : Installing(d) => cid[d] \in Ids
    BY <1>2 DEF Installing, Spawning, SpawnPcs
  <2>3. QED
    BY <1>1, <1>5, <1>9, <2>1, <2>2 DEF Vacant
<1>14. QuietWhenDown'
  BY <1>1 DEF QuietWhenDown
<1>15. QED
  BY <1>7, <1>8, <1>10, <1>11, <1>12, <1>13, <1>14 DEF OneProcessInv

(***************************************************************************)
(* The row is written.                                                     *)
(***************************************************************************)
LEMMA PersistPreserves ==
    ASSUME OneProcessInv, TypeOK', NEW c \in Callers, pc[c] = "persist", WriteRunning(c),
           Goto(c, "install"),
           UNCHANGED <<op, cid, crun, gw, sessions, starting, toResume, runOf, alive, rst, wpc>>
    PROVE  OneProcessInv'
<1>1. /\ TypeOK /\ CallerShape /\ FreshIds /\ Exclusive
      /\ RunShape /\ LiveMap /\ Vacant /\ QuietWhenDown
  BY DEF OneProcessInv
<1>2. /\ DOMAIN pc = Callers /\ DOMAIN op = Callers /\ DOMAIN cid = Callers
      /\ DOMAIN crun = Callers /\ \A d \in Callers : pc[d] # "idle" => cid[d] \in Ids
  BY <1>1 DEF TypeOK, CallTypeOK
<1>3. op[c] \in ReserveOps \union {"create"} /\ cid[c] \in Ids
  BY <1>1, <1>2 DEF CallerShape, SpawnPcs
<1>4. pc'[c] = "install" /\ \A d \in Callers : d # c => pc'[d] = pc[d]
  BY <1>2 DEF Goto
<1>5. /\ \A id \in Ids : row'[id] = "none" => row[id] = "none"
      /\ row'[cid[c]] # "none"
  <2>1. op[c] # "create" => row[cid[c]] # "none"
    BY <1>1 DEF FreshIds
  <2>2. DOMAIN row = Ids
    BY <1>1 DEF TypeOK, DbTypeOK
  <2>3. QED
    BY <1>3, <2>1, <2>2 DEF WriteRunning
<1>6. CallerShape'
  <2>1. ASSUME NEW d \in Callers, d # c PROVE CallerShape!(d)'
    BY <1>1, <1>4, <2>1 DEF CallerShape
  <2>2. CallerShape!(c)'
    BY <1>1, <1>3, <1>4 DEF CallerShape, StopPcs, SpawnPcs, SwitchOps, ReserveOps
  <2>3. QED
    BY <2>1, <2>2 DEF CallerShape
<1>7. FreshIds'
  BY <1>1, <1>2, <1>3, <1>4, <1>5 DEF FreshIds
<1>8. \A d \in Callers : (Spawning(d)' <=> Spawning(d)) /\ (Installing(d)' <=> Installing(d))
  BY <1>4 DEF Installing, Spawning, SpawnPcs
<1>9. Exclusive'
  BY <1>1, <1>4, <1>8 DEF Exclusive
<1>10. RunShape' /\ LiveMap'
  BY <1>1 DEF RunShape, LiveMap
<1>11. Vacant'
  BY <1>1, <1>8 DEF Vacant
<1>12. QuietWhenDown'
  BY <1>1 DEF QuietWhenDown
<1>13. QED
  BY <1>6, <1>7, <1>9, <1>10, <1>11, <1>12 DEF OneProcessInv

(***************************************************************************)
(* The write failed: the process is killed, and the caller goes on to      *)
(* release its reservation (Start) or returns (Create).                    *)
(***************************************************************************)
LEMMA PersistFailsPreserves ==
    ASSUME OneProcessInv, TypeOK', NEW c \in Callers, pc[c] = "persist",
           ForgetRun(crun[c]), SpawnFails(c),
           UNCHANGED <<row, gw, sessions, starting, toResume>>
    PROVE  OneProcessInv'
<1>1. /\ TypeOK /\ CallerShape /\ FreshIds /\ Exclusive
      /\ RunShape /\ LiveMap /\ Vacant /\ QuietWhenDown
  BY DEF OneProcessInv
<1>2. /\ DOMAIN pc = Callers /\ DOMAIN op = Callers /\ DOMAIN cid = Callers
      /\ DOMAIN crun = Callers /\ \A d \in Callers : pc[d] # "idle" => cid[d] \in Ids
      /\ DOMAIN wpc = Runs /\ DOMAIN alive = Runs /\ DOMAIN rst = Runs /\ DOMAIN runOf = Runs
  BY <1>1 DEF TypeOK, CallTypeOK, RunTypeOK
<1>3. /\ op[c] \in ReserveOps \union {"create"} /\ cid[c] \in Ids
      /\ crun[c] # NoRun /\ wpc[crun[c]] = "launched"
  BY <1>1, <1>2 DEF CallerShape, SpawnPcs
<1>4. PICK r \in Runs : r = crun[c]
  BY <1>1, <1>3 DEF TypeOK, CallTypeOK
<1>5. \A d \in Callers : d # c =>
        pc'[d] = pc[d] /\ op'[d] = op[d] /\ cid'[d] = cid[d] /\ crun'[d] = crun[d]
  BY <1>2 DEF SpawnFails, Goto, Return
<1>6. /\ crun'[c] = NoRun
      /\ \/ pc'[c] = "idle" /\ op'[c] = "none"
         \/ pc'[c] = "release" /\ op'[c] = op[c] /\ cid'[c] = cid[c] /\ op[c] \in ReserveOps
  <2>1. ~RollsBack(c)
    BY <1>3 DEF RollsBack, ReserveOps
  <2>2. QED
    BY <1>2, <2>1 DEF SpawnFails, Goto, Return
<1>7. /\ wpc'[r] = "free" /\ ~alive'[r]
      /\ \A s \in Runs : s # r => /\ wpc'[s] = wpc[s] /\ runOf'[s] = runOf[s]
                                  /\ rst'[s] = rst[s] /\ alive'[s] = alive[s]
  BY <1>2, <1>4 DEF ForgetRun
<1>8. \A d \in Callers : d # c => crun[d] # r /\ crun[d] \in Runs \union {NoRun}
  <2> SUFFICES ASSUME NEW d \in Callers, d # c, crun[d] = r PROVE FALSE
    BY <1>1 DEF TypeOK, CallTypeOK
  <2>1. pc[d] = "persist" \/ pc[d] = "install"
    BY <1>1, <1>3, <1>4 DEF CallerShape
  <2>2. Spawning(d) /\ Spawning(c)
    BY <2>1 DEF Spawning, SpawnPcs
  <2>3. cid[c] = cid[d]
    BY <1>1, <1>3, <1>4 DEF CallerShape
  <2>4. QED
    BY <1>1, <2>2, <2>3 DEF Exclusive
<1>9. CallerShape'
  <2>1. ASSUME NEW d \in Callers, d # c PROVE CallerShape!(d)'
    BY <1>1, <1>5, <1>7, <1>8, <2>1 DEF CallerShape
  <2>2. CallerShape!(c)'
    BY <1>3, <1>6 DEF StopPcs, SpawnPcs, SwitchOps, ReserveOps
  <2>3. QED
    BY <2>1, <2>2 DEF CallerShape
<1>10. FreshIds'
  BY <1>1, <1>3, <1>5, <1>6 DEF FreshIds, ReserveOps
<1>11. /\ \A d \in Callers : d # c => /\ Spawning(d)' <=> Spawning(d)
                                      /\ Installing(d)' <=> Installing(d)
       /\ ~Installing(c)'
       /\ Spawning(c)
       /\ Spawning(c)' => op'[c] = op[c] /\ cid'[c] = cid[c]
  BY <1>5, <1>6 DEF Installing, Spawning, SpawnPcs
<1>12. Exclusive'
  BY <1>1, <1>5, <1>6, <1>11 DEF Exclusive
<1>13. RunShape'
  <2>1. ASSUME NEW s \in Runs, s # r PROVE RunShape!(s)'
    <3>1. wpc[s] = "launched" => \E d \in Callers : crun'[d] = s
      BY <1>1, <1>4, <1>5, <2>1 DEF RunShape
    <3>2. QED
      BY <1>1, <1>7, <2>1, <3>1 DEF RunShape
  <2>2. RunShape!(r)'
    BY <1>7 DEF Tracked
  <2>3. QED
    BY <2>1, <2>2 DEF RunShape
<1>14. \A id \in Ids : sessions[id] # r /\ sessions[id] \in Runs \union {NoRun}
  BY <1>1, <1>3, <1>4 DEF LiveMap, Tracked, TypeOK, MemTypeOK
<1>15. LiveMap'
  BY <1>1, <1>7, <1>14 DEF LiveMap
<1>16. Vacant'
  <2>1. \A d \in Callers : Installing(d) => cid[d] \in Ids
    BY <1>2 DEF Installing, Spawning, SpawnPcs
  <2>2. QED
    BY <1>1, <1>5, <1>7, <1>11, <1>14, <2>1 DEF Vacant
<1>17. QuietWhenDown'
  BY <1>1 DEF QuietWhenDown
<1>18. QED
  BY <1>9, <1>10, <1>12, <1>13, <1>15, <1>16, <1>17 DEF OneProcessInv

(***************************************************************************)
(* The run enters the live map.                                            *)
(***************************************************************************)
LEMMA InstallPreserves ==
    ASSUME OneProcessInv, TypeOK', NEW c \in Callers, Install(c)
    PROVE  OneProcessInv'
<1>1. /\ TypeOK /\ CallerShape /\ FreshIds /\ Exclusive
      /\ RunShape /\ LiveMap /\ Vacant /\ QuietWhenDown
  BY DEF OneProcessInv
<1>2. /\ DOMAIN pc = Callers /\ DOMAIN op = Callers /\ DOMAIN cid = Callers
      /\ DOMAIN crun = Callers /\ \A d \in Callers : pc[d] # "idle" => cid[d] \in Ids
      /\ DOMAIN sessions = Ids /\ DOMAIN wpc = Runs /\ DOMAIN alive = Runs /\ DOMAIN rst = Runs
      /\ DOMAIN runOf = Runs
  BY <1>1 DEF TypeOK, CallTypeOK, RunTypeOK, MemTypeOK
<1>3. /\ pc[c] = "install"
      /\ op[c] \in ReserveOps \union {"create"} /\ cid[c] \in Ids /\ row[cid[c]] # "none"
      /\ crun[c] # NoRun /\ wpc[crun[c]] = "launched" /\ runOf[crun[c]] = cid[c]
  BY <1>1, <1>2 DEF Install, CallerShape, SpawnPcs, FreshIds
<1>4. PICK r \in Runs : r = crun[c]
  BY <1>1, <1>3 DEF TypeOK, CallTypeOK
<1>5. \A d \in Callers : d # c =>
        pc'[d] = pc[d] /\ op'[d] = op[d] /\ cid'[d] = cid[d] /\ crun'[d] = crun[d]
  BY <1>2 DEF Install, Goto, Return
<1>6. /\ crun'[c] = NoRun
      /\ \/ pc'[c] = "idle" /\ op'[c] = "none"
         \/ pc'[c] = "release" /\ op'[c] = op[c] /\ cid'[c] = cid[c] /\ op[c] \in ReserveOps
  BY <1>2, <1>3 DEF Install, Goto, Return, SwitchOps, ReserveOps
<1>7. /\ UNCHANGED <<row, gw, starting, toResume, runOf, alive, rst>>
      /\ wpc'[r] = "wait" /\ \A s \in Runs : s # r => wpc'[s] = wpc[s]
      /\ sessions'[cid[c]] = r
      /\ \A id \in Ids : id # cid[c] => sessions'[id] = sessions[id]
  BY <1>2, <1>3, <1>4 DEF Install, dbVars
<1>8. \A d \in Callers : d # c => crun[d] # r /\ crun[d] \in Runs \union {NoRun}
  <2> SUFFICES ASSUME NEW d \in Callers, d # c, crun[d] = r PROVE FALSE
    BY <1>1 DEF TypeOK, CallTypeOK
  <2>1. pc[d] = "persist" \/ pc[d] = "install"
    BY <1>1, <1>3, <1>4 DEF CallerShape
  <2>2. Spawning(d) /\ Spawning(c)
    BY <1>3, <2>1 DEF Spawning, SpawnPcs
  <2>3. cid[c] = cid[d]
    BY <1>1, <1>3, <1>4 DEF CallerShape
  <2>4. QED
    BY <1>1, <2>2, <2>3 DEF Exclusive
<1>9. CallerShape'
  <2>1. ASSUME NEW d \in Callers, d # c PROVE CallerShape!(d)'
    BY <1>1, <1>5, <1>7, <1>8, <2>1 DEF CallerShape
  <2>2. CallerShape!(c)'
    BY <1>3, <1>6 DEF StopPcs, SpawnPcs, SwitchOps, ReserveOps
  <2>3. QED
    BY <2>1, <2>2 DEF CallerShape
<1>10. FreshIds'
  BY <1>1, <1>3, <1>5, <1>6, <1>7 DEF FreshIds, ReserveOps
<1>11. /\ \A d \in Callers : d # c => /\ Spawning(d)' <=> Spawning(d)
                                      /\ Installing(d)' <=> Installing(d)
       /\ ~Installing(c)'
       /\ Spawning(c) /\ Installing(c)
       /\ Spawning(c)' => op'[c] = op[c] /\ cid'[c] = cid[c]
  BY <1>3, <1>5, <1>6 DEF Installing, Spawning, SpawnPcs
<1>12. Exclusive'
  BY <1>1, <1>3, <1>5, <1>6, <1>7, <1>11 DEF Exclusive
<1>13. RunShape'
  <2>1. ASSUME NEW s \in Runs, s # r PROVE RunShape!(s)'
    <3>1. wpc[s] = "launched" => \E d \in Callers : crun'[d] = s
      BY <1>1, <1>4, <1>5, <2>1 DEF RunShape
    <3>2. wpc[s] \in Tracked => runOf[s] # cid[c]
      BY <1>1, <1>11, ConstantsAssumption DEF RunShape, Vacant
    <3>3. QED
      BY <1>1, <1>7, <2>1, <3>1, <3>2 DEF RunShape
  <2>2. RunShape!(r)'
    BY <1>1, <1>3, <1>4, <1>7 DEF RunShape, Tracked
  <2>3. QED
    BY <2>1, <2>2 DEF RunShape
<1>14. \A id \in Ids : sessions[id] # r /\ sessions[id] \in Runs \union {NoRun}
  BY <1>1, <1>3, <1>4 DEF LiveMap, Tracked, TypeOK, MemTypeOK
<1>15. LiveMap'
  <2>1. ASSUME NEW id \in Ids, id # cid[c] PROVE LiveMap!(id)'
    BY <1>1, <1>7, <1>14, <2>1 DEF LiveMap
  <2>2. ASSUME NEW id \in Ids, id = cid[c] PROVE LiveMap!(id)'
    BY <1>3, <1>4, <1>7, <2>2 DEF Tracked
  <2>3. QED
    BY <2>1, <2>2 DEF LiveMap
<1>16. Vacant'
  <2>1. ASSUME NEW d \in Callers, d # c, Installing(d)
        PROVE  cid[d] \in Ids /\ cid[d] # cid[c]
    BY <1>1, <1>2, <1>11, <2>1 DEF Exclusive, Installing, Spawning, SpawnPcs
  <2>2. QED
    BY <1>1, <1>5, <1>7, <1>11, <1>14, <2>1 DEF Vacant
<1>17. QuietWhenDown'
  BY <1>1, <1>3, <1>7 DEF QuietWhenDown
<1>18. QED
  BY <1>9, <1>10, <1>12, <1>13, <1>15, <1>16, <1>17 DEF OneProcessInv

(***************************************************************************)
(* waitExit: the process exits and its run goes through the exit path.     *)
(***************************************************************************)
LEMMA RunStepPreserves ==
    ASSUME OneProcessInv, TypeOK', NEW r \in Runs, ProcExit(r) \/ WaitExit(r)
    PROVE  OneProcessInv'
<1>1. /\ TypeOK /\ CallerShape /\ FreshIds /\ Exclusive
      /\ RunShape /\ LiveMap /\ Vacant /\ QuietWhenDown
  BY DEF OneProcessInv
<1>2. /\ DOMAIN wpc = Runs /\ DOMAIN alive = Runs /\ DOMAIN rst = Runs
      /\ DOMAIN runOf = Runs /\ DOMAIN sessions = Ids /\ DOMAIN row = Ids
      /\ \A d \in Callers : pc[d] # "idle" => cid[d] \in Ids
      /\ \A d \in Callers : crun[d] \in Runs \union {NoRun}
      /\ \A id \in Ids : sessions[id] \in Runs \union {NoRun}
  BY <1>1 DEF TypeOK, RunTypeOK, MemTypeOK, DbTypeOK, CallTypeOK
<1>3. UNCHANGED <<pc, op, cid, crun, gw, starting, toResume>>
  BY DEF ProcExit, WaitExit, ConsumeStopRequest, Classify, MarkRow, SetState, Cleanup, Drop,
         callVars, memVars
<1>4. \A d \in Callers : (Spawning(d)' <=> Spawning(d)) /\ (Installing(d)' <=> Installing(d))
  BY <1>3 DEF Installing, Spawning
<1>5. Exclusive' /\ QuietWhenDown'
  BY <1>1, <1>3, <1>4 DEF Exclusive, QuietWhenDown
<1>6. CASE ProcExit(r)
  <2>1. /\ UNCHANGED <<row, sessions, wpc, runOf, rst>>
        /\ \A s \in Runs : alive'[s] => alive[s]
    BY <1>2, <1>6 DEF ProcExit, dbVars, memVars
  <2>2. CallerShape' /\ FreshIds'
    BY <1>1, <1>3, <2>1 DEF CallerShape, FreshIds
  <2>3. RunShape' /\ LiveMap'
    BY <1>1, <1>3, <2>1 DEF RunShape, LiveMap
  <2>4. Vacant'
    BY <1>1, <1>3, <1>4, <2>1 DEF Vacant
  <2>5. QED
    BY <1>5, <2>2, <2>3, <2>4 DEF OneProcessInv
<1>7. CASE WaitExit(r) /\ ~Drop(r)
  <2>1. /\ wpc[r] \in Tracked \union {"cleanup"}
        /\ wpc'[r] \in (Tracked \ {"wait"}) \union {"cleanup", "drop"}
        /\ \A s \in Runs : s # r => wpc'[s] = wpc[s] /\ rst'[s] = rst[s]
        /\ wpc'[r] \in Tracked => wpc[r] \in Tracked /\ rst'[r] = rst[r]
        /\ UNCHANGED <<sessions, runOf, alive>>
    BY <1>2, <1>7 DEF WaitExit, ConsumeStopRequest, Classify, MarkRow, SetState, Cleanup,
                      Tracked, memVars
  <2>2. ~alive[r]
    <3>1. CASE ConsumeStopRequest(r)
      BY <3>1 DEF ConsumeStopRequest
    <3>2. CASE Classify(r) \/ MarkRow(r) \/ SetState(r) \/ Cleanup(r)
      <4>1. wpc[r] \notin {"launched", "wait"}
        BY <3>2 DEF Classify, MarkRow, SetState, Cleanup
      <4>2. QED
        BY <1>1, <4>1 DEF RunShape
    <3>3. QED
      BY <1>7, <3>1, <3>2 DEF WaitExit
  <2>3. \A id \in Ids : row'[id] = "none" => row[id] = "none"
    <3>1. CASE MarkRow(r)
      <4>1. final[r] # "none"
        BY <1>1, <3>1 DEF MarkRow, TypeOK, RunTypeOK
      <4>2. QED
        BY <1>2, <3>1, <4>1 DEF MarkRow, MarkedTerminal
    <3>2. CASE UNCHANGED row
      BY <3>2
    <3>3. QED
      BY <1>7, <3>1, <3>2 DEF WaitExit, ConsumeStopRequest, Classify, SetState, Cleanup, dbVars
  <2>4. \A d \in Callers : crun[d] # r
    BY <1>1, <2>1, ConstantsAssumption DEF CallerShape, Tracked
  <2>5. CallerShape'
    BY <1>1, <1>2, <1>3, <2>1, <2>4 DEF CallerShape
  <2>6. FreshIds'
    BY <1>1, <1>2, <1>3, <2>1, <2>3 DEF FreshIds
  <2>7. RunShape'
    <3>1. ASSUME NEW s \in Runs, s # r PROVE RunShape!(s)'
      BY <1>1, <1>3, <2>1, <3>1 DEF RunShape
    <3>2. RunShape!(r)'
      BY <1>1, <2>1, <2>2 DEF RunShape, Tracked
    <3>3. QED
      BY <3>1, <3>2 DEF RunShape
  <2>8. LiveMap'
    BY <1>1, <1>2, <2>1 DEF LiveMap, Tracked
  <2>9. Vacant'
    <3>1. \A d \in Callers : Installing(d) => cid[d] \in Ids
      BY <1>2 DEF Installing, Spawning, SpawnPcs
    <3>2. QED
      BY <1>1, <1>2, <1>3, <1>4, <2>1, <3>1 DEF Vacant
  <2>10. QED
    BY <1>5, <2>5, <2>6, <2>7, <2>8, <2>9 DEF OneProcessInv
<1>8. CASE Drop(r)
  <2>1. /\ wpc[r] = "drop" /\ wpc'[r] = "free" /\ ~alive'[r] /\ UNCHANGED row
        /\ \A s \in Runs : s # r => /\ wpc'[s] = wpc[s] /\ runOf'[s] = runOf[s]
                                    /\ rst'[s] = rst[s] /\ alive'[s] = alive[s]
    BY <1>2, <1>8 DEF Drop, ForgetRun, dbVars
  <2>2. \A id \in Ids : \/ sessions'[id] = sessions[id] /\ sessions[id] # r
                        \/ sessions'[id] = NoRun
    <3>1. \A id \in Ids : sessions[id] = r => runOf[r] = id
      BY <1>1, ConstantsAssumption DEF LiveMap
    <3>2. sessions' = [sessions EXCEPT ![runOf[r]] = IF @ = r THEN NoRun ELSE @]
      BY <1>8 DEF Drop
    <3>3. QED
      BY <1>2, <3>1, <3>2
  <2>3. \A id \in Ids : sessions[id] # r => sessions'[id] = sessions[id]
    BY <1>2, <1>8 DEF Drop
  <2>4. \A d \in Callers : crun[d] # r
    BY <1>1, <2>1, ConstantsAssumption DEF CallerShape
  <2>5. CallerShape'
    BY <1>1, <1>2, <1>3, <2>1, <2>4 DEF CallerShape
  <2>6. FreshIds'
    BY <1>1, <1>3, <2>1, <2>2 DEF FreshIds
  <2>7. RunShape'
    <3>1. ASSUME NEW s \in Runs, s # r PROVE RunShape!(s)'
      BY <1>1, <1>3, <2>1, <2>3, <3>1 DEF RunShape
    <3>2. RunShape!(r)'
      BY <2>1 DEF Tracked
    <3>3. QED
      BY <3>1, <3>2 DEF RunShape
  <2>8. LiveMap'
    BY <1>1, <1>2, <2>1, <2>2 DEF LiveMap
  <2>9. Vacant'
    <3>1. \A d \in Callers : Installing(d) => cid[d] \in Ids
      BY <1>2 DEF Installing, Spawning, SpawnPcs
    <3>2. QED
      BY <1>1, <1>2, <1>3, <1>4, <2>1, <2>2, <3>1 DEF Vacant
  <2>10. QED
    BY <1>5, <2>5, <2>6, <2>7, <2>8, <2>9 DEF OneProcessInv
<1>9. QED
  BY <1>6, <1>7, <1>8

(***************************************************************************)
(* The gateway boots, shuts down or dies.                                  *)
(***************************************************************************)
LEMMA GatewayStepPreserves ==
    ASSUME OneProcessInv, TypeOK', ReconcileStartup \/ Shutdown \/ Crash
    PROVE  OneProcessInv'
<1>1. /\ TypeOK /\ CallerShape /\ FreshIds /\ Exclusive
      /\ RunShape /\ LiveMap /\ Vacant /\ QuietWhenDown
  BY DEF OneProcessInv
<1>2. ASSUME UNCHANGED <<pc, op, cid, crun, sessions, starting, runOf, alive, rst, wpc>>,
             gw' # "down", FreshIds'
      PROVE  OneProcessInv'
  <2>1. \A d \in Callers : (Spawning(d)' <=> Spawning(d)) /\ (Installing(d)' <=> Installing(d))
    BY <1>2 DEF Installing, Spawning
  <2>2. CallerShape'
    BY <1>1, <1>2 DEF CallerShape
  <2>3. Exclusive'
    BY <1>1, <1>2, <2>1 DEF Exclusive
  <2>4. RunShape' /\ LiveMap'
    BY <1>1, <1>2 DEF RunShape, LiveMap
  <2>5. Vacant'
    BY <1>1, <1>2, <2>1 DEF Vacant
  <2>6. QED
    BY <1>2, <2>2, <2>3, <2>4, <2>5 DEF OneProcessInv, QuietWhenDown
<1>3. CASE ReconcileStartup
  <2>1. /\ UNCHANGED <<pc, op, cid, crun, sessions, starting, runOf, alive, rst, wpc>>
        /\ gw' = "serving" /\ gw = "down"
    BY <1>3 DEF ReconcileStartup, runVars, callVars
  <2>2. \A d \in Callers : pc[d] = "idle" /\ op[d] = "none"
    BY <1>1, <2>1 DEF QuietWhenDown, CallerShape
  <2>3. \A id \in Ids : row'[id] = "none" => row[id] = "none" /\ id \notin toResume'
    <3>1. CASE UNCHANGED <<row, toResume>>
      BY <1>1, <3>1 DEF FreshIds
    <3>2. CASE /\ row' = [id \in Ids |-> Reconciled(row[id])]
               /\ toResume' \subseteq { id \in Ids : row'[id] = "interrupted" }
      BY <3>2 DEF Reconciled
    <3>3. QED
      BY <1>3, <3>1, <3>2 DEF ReconcileStartup
  <2>4. FreshIds'
    BY <1>1, <2>1, <2>2, <2>3 DEF FreshIds
  <2>5. QED
    BY <1>2, <2>1, <2>4
<1>4. CASE Sigterm \/ ShutdownBegin \/ ShutdownKill
  <2>1. /\ UNCHANGED <<pc, op, cid, crun, sessions, starting, runOf, alive, rst, wpc, row>>
        /\ toResume' \subseteq toResume /\ gw' # "down"
    BY <1>4 DEF Sigterm, ShutdownBegin, ShutdownKill, runVars, callVars, dbVars
  <2>2. FreshIds'
    BY <1>1, <2>1 DEF FreshIds
  <2>3. QED
    BY <1>2, <2>1, <2>2
<1>5. CASE GatewayGone
  <2>1. \A c \in Callers : pc'[c] = "idle" /\ op'[c] = "none" /\ crun'[c] = NoRun
    BY <1>5 DEF GatewayGone, AllCallers
  <2>2. \A r \in Runs : ~alive'[r] /\ wpc'[r] = "free"
    BY <1>5 DEF GatewayGone, AllRuns
  <2>3. toResume' = {} /\ \A id \in Ids : sessions'[id] = NoRun
    BY <1>5 DEF GatewayGone, NoSessions
  <2>4. CallerShape'
    BY <2>1 DEF CallerShape, SwitchOps, SpawnPcs, StopPcs
  <2>5. FreshIds'
    BY <2>1, <2>3 DEF FreshIds
  <2>6. Exclusive' /\ Vacant' /\ QuietWhenDown'
    BY <2>1 DEF Exclusive, Vacant, Installing, Spawning, SpawnPcs, QuietWhenDown
  <2>7. RunShape' /\ LiveMap'
    BY <2>2, <2>3 DEF RunShape, LiveMap, Tracked
  <2>8. QED
    BY <2>4, <2>5, <2>6, <2>7 DEF OneProcessInv
<1>6. QED
  BY <1>3, <1>4, <1>5 DEF Shutdown, ShutdownDone, Crash

(***************************************************************************)
(* Every step of the specification is one of the moves above.              *)
(***************************************************************************)

(* The beginnings: without EarlyIds an addressable id has its row.         *)
LEMMA BeginPreserves ==
    ASSUME OneProcessInv, TypeOK', ReservedSpawnsOnly, NEW c \in Callers, Begin(c)
    PROVE  OneProcessInv'
<1>1. FreshIds /\ NoAccounts \in Accounts \X Accounts
  BY SomeAccountFact DEF OneProcessInv
<1>2. PICK id \in Ids :
        \/ BeginStart(c, id) \/ BeginStop(c, id) \/ BeginRemove(c, id) \/ BeginResume(c, id)
        \/ \E a \in Accounts : \/ BeginCreate(c, id, a)
                               \/ \E o \in SwitchOps : BeginSwitch(c, o, id, a)
  BY DEF Begin
<1>3. CASE BeginStart(c, id)
  <2>1. BeginMove(c, "start", id, "reserve")
    BY <1>1, <1>3 DEF BeginStart, BeginMove, Addressable, ReservedSpawnsOnly, ReserveOps, Open,
                      dbVars, memVars, runVars
  <2>2. QED
    BY <2>1, BeginMovePreserves
<1>4. CASE BeginStop(c, id)
  <2>1. BeginMove(c, "stop", id, "stop_lookup")
    BY <1>1, <1>4 DEF BeginStop, BeginMove, Addressable, ReservedSpawnsOnly, StopPcs, Up,
                      dbVars, memVars, runVars
  <2>2. QED
    BY <2>1, BeginMovePreserves
<1>5. CASE BeginRemove(c, id)
  <2>1. BeginMove(c, "remove", id, "remove_get")
    BY <1>1, <1>5 DEF BeginRemove, BeginMove, Addressable, ReservedSpawnsOnly, Up,
                      dbVars, memVars, runVars
  <2>2. QED
    BY <2>1, BeginMovePreserves
<1>6. CASE BeginResume(c, id)
  <2>1. row[id] # "none" /\ \A d \in Callers : ~(op[d] = "create" /\ cid[d] = id)
    BY <1>1, <1>6 DEF BeginResume, FreshIds
  <2>2. BeginMove(c, "resume", id, "reserve")
    BY <1>1, <1>6, <2>1 DEF BeginResume, BeginMove, ReserveOps, dbVars, runVars
  <2>3. QED
    BY <2>2, BeginMovePreserves
<1>7. CASE \E a \in Accounts : BeginCreate(c, id, a)
  <2>1. BeginMove(c, "create", id, "prepare")
    BY <1>7 DEF BeginCreate, BeginMove, Open, dbVars, memVars, runVars
  <2>2. QED
    BY <2>1, BeginMovePreserves
<1>8. ~ \E a \in Accounts : \E o \in SwitchOps : BeginSwitch(c, o, id, a)
  BY DEF BeginSwitch, ReservedSpawnsOnly
<1>9. QED
  BY <1>2, <1>3, <1>4, <1>5, <1>6, <1>7, <1>8

(* Start and the spawn it shares with Create.                              *)
LEMMA SpawnStepPreserves ==
    ASSUME OneProcessInv, TypeOK', NEW c \in Callers,
           \/ TryReserveStart(c) \/ StartGet(c) \/ Release(c) \/ Prepare(c)
           \/ PtyStart(c) \/ Persist(c) \/ Install(c)
    PROVE  OneProcessInv'
<1>1. CallerShape
  BY DEF OneProcessInv
<1>2. ASSUME SpawnFails(c), pc[c] \in {"prepare", "launch"},
             UNCHANGED <<row, gw, sessions, starting, toResume, runOf, alive, rst, wpc>>
      PROVE  OneProcessInv'
  <2>1. op[c] \in ReserveOps \union {"create"} /\ ~RollsBack(c)
    BY <1>1, <1>2 DEF CallerShape, SpawnPcs, RollsBack, SwitchOps
  <2>2. SpawnMove(c)
    BY <1>2, <2>1 DEF SpawnMove, SpawnFails
  <2>3. QED
    BY <2>2, SpawnMovePreserves
<1>3. CASE TryReserveStart(c)
  <2>1. CASE MayReserve(cid[c]) /\ starting' = starting \union {cid[c]} /\ Goto(c, "get")
             /\ UNCHANGED <<op, cid, acct, crs, crun>>
    BY <1>3, <2>1, ReservePreserves DEF TryReserveStart, dbVars, runVars
  <2>2. CASE Return(c) /\ UNCHANGED starting
    <3>1. SpawnMove(c)
      BY <1>3, <2>2 DEF TryReserveStart, SpawnMove, dbVars, runVars
    <3>2. QED
      BY <3>1, SpawnMovePreserves
  <2>3. QED
    BY <1>3, <2>1, <2>2 DEF TryReserveStart
<1>4. CASE StartGet(c)
  <2>1. op[c] \in ReserveOps
    BY <1>1, <1>4 DEF StartGet, CallerShape
  <2>2. SpawnMove(c)
    BY <1>4, <2>1 DEF StartGet, SpawnMove, dbVars, memVars, runVars
  <2>3. QED
    BY <2>2, SpawnMovePreserves
<1>5. CASE Release(c)
  <2>1. SpawnMove(c)
    BY <1>5 DEF Release, SpawnMove, dbVars, runVars
  <2>2. QED
    BY <2>1, SpawnMovePreserves
<1>6. CASE Prepare(c)
  <2>1. /\ pc[c] = "prepare"
        /\ UNCHANGED <<row, gw, sessions, starting, toResume, runOf, alive, rst, wpc>>
    BY <1>6 DEF Prepare, dbVars, memVars, runVars
  <2>2. CASE Goto(c, "launch") /\ UNCHANGED <<op, cid, acct, crs, crun>>
    <3>1. SpawnMove(c)
      BY <2>1, <2>2 DEF SpawnMove
    <3>2. QED
      BY <3>1, SpawnMovePreserves
  <2>3. QED
    BY <1>2, <1>6, <2>1, <2>2 DEF Prepare
<1>7. CASE PtyStart(c)
  <2>1. pc[c] = "launch" /\ UNCHANGED <<row, gw, sessions, starting, toResume>>
    BY <1>7 DEF PtyStart, dbVars, memVars
  <2>2. ASSUME NEW r \in FreeRuns, LaunchRun(c, r), crun' = [crun EXCEPT ![c] = r],
               Goto(c, "persist"), UNCHANGED <<tmp, op, cid, acct, crs>>
        PROVE  OneProcessInv'
    <3>1. r \in Runs /\ wpc[r] = "free"
      BY DEF FreeRuns
    <3>2. QED
      BY <2>1, <2>2, <3>1, LaunchPreserves
  <2>3. CASE SpawnFails(c) /\ UNCHANGED runVars
    BY <1>2, <2>1, <2>3 DEF runVars
  <2>4. QED
    BY <1>7, <2>2, <2>3 DEF PtyStart
<1>8. CASE Persist(c)
  <2>1. pc[c] = "persist" /\ UNCHANGED <<gw, sessions, starting, toResume>>
    BY <1>8 DEF Persist, memVars
  <2>2. CASE WriteRunning(c) /\ Goto(c, "install")
             /\ UNCHANGED <<faults, tmp, runVars, op, cid, acct, crs, crun>>
    BY <2>1, <2>2, PersistPreserves DEF runVars
  <2>3. CASE ForgetRun(crun[c]) /\ SpawnFails(c) /\ UNCHANGED <<row, rowAcct>>
    BY <2>1, <2>3, PersistFailsPreserves
  <2>4. QED
    BY <1>8, <2>2, <2>3 DEF Persist
<1>9. CASE Install(c)
  BY <1>9, InstallPreserves
<1>10. QED
  BY <1>3, <1>4, <1>5, <1>6, <1>7, <1>8, <1>9

(* Stop and Remove.  The row of a session they touch exists before and     *)
(* after the step.                                                         *)
LEMMA StopStepPreserves ==
    ASSUME OneProcessInv, TypeOK', NEW c \in Callers,
           \/ StopLookup(c) \/ StopGet(c) \/ StopStale(c) \/ StopMark(c) \/ StopTimeout(c)
           \/ StopEnded(c) \/ StopReturns(c) \/ StopCancelled(c) \/ RemoveGet(c) \/ Delete(c)
    PROVE  OneProcessInv'
<1>1. DOMAIN row = Ids
  BY DEF OneProcessInv, TypeOK, DbTypeOK
<1>2. \A id \in Ids : row'[id] = "none" <=> row[id] = "none"
  <2>1. CASE StopStale(c)
    BY <1>1, <2>1 DEF StopStale, MarkedTerminal, RowStates, Terminal
  <2>2. CASE Delete(c)
    BY <1>1, <2>2 DEF Delete, HasRow, RowStates, Terminal
  <2>3. CASE UNCHANGED row
    BY <2>3
  <2>4. QED
    BY <2>1, <2>2, <2>3 DEF StopLookup, StopGet, StopMark, StopTimeout, StopEnded, StopReturns,
                            StopCancelled, RemoveGet, dbVars
<1>3. UNCHANGED <<gw, sessions, starting, toResume, runOf, alive, rst, wpc>>
  BY DEF StopLookup, StopGet, StopStale, StopMark, StopTimeout, StopEnded, StopReturns,
         StopCancelled, RemoveGet, Delete, memVars, runVars
<1>4. /\ pc[c] \in StopPcs \union {"remove_get"}
      /\ \/ Return(c)
         \/ (\E p \in StopPcs : Goto(c, p)) /\ UNCHANGED <<op, cid, crun>>
  BY DEF StopLookup, StopGet, StopStale, StopMark, StopTimeout, StopEnded, StopReturns,
         StopCancelled, RemoveGet, Delete, StopPcs
<1>5. StopMove(c)
  BY <1>2, <1>3, <1>4 DEF StopMove
<1>6. QED
  BY <1>5, StopMovePreserves

(* Without switch operations nobody takes a step of Switch*Account.        *)
LEMMA CallerStepPreserves ==
    ASSUME OneProcessInv, TypeOK', NEW c \in Callers, CallerStep(c) \/ StopCancelled(c)
    PROVE  OneProcessInv'
<1>1. ~SwitchGet(c) /\ ~SwitchRow(c) /\ ~SwitchPersist(c)
  BY DEF OneProcessInv, CallerShape, SwitchGet, SwitchRow, SwitchPersist
<1>2. QED
  BY <1>1, SpawnStepPreserves, StopStepPreserves DEF CallerStep

(* The invariant is inductive.                                             *)
LEMMA OneProcessNext ==
    ASSUME ReservedSpawnsOnly
    PROVE  OneProcessInv /\ [Next]_vars => OneProcessInv'
<1> SUFFICES ASSUME OneProcessInv, [Next]_vars PROVE OneProcessInv'
  OBVIOUS
<1>1. TypeOK'
  BY TypeNext DEF OneProcessInv
<1>2. CASE Next
  BY <1>1, <1>2, BeginPreserves, CallerStepPreserves, RunStepPreserves, GatewayStepPreserves
     DEF Next
<1>3. CASE UNCHANGED vars
  <2>1. UNCHANGED <<row, gw, sessions, starting, toResume, runOf, alive, rst, wpc,
                    pc, op, cid, crun>>
    BY <1>3 DEF vars, dbVars, memVars, runVars, callVars
  <2>2. CallerShape' /\ FreshIds' /\ Exclusive'
    BY <2>1 DEF OneProcessInv, CallerShape, FreshIds, Exclusive, Spawning
  <2>3. RunShape' /\ LiveMap' /\ Vacant' /\ QuietWhenDown'
    BY <2>1 DEF OneProcessInv, RunShape, LiveMap, Vacant, Installing, Spawning, QuietWhenDown
  <2>4. QED
    BY <1>1, <2>2, <2>3 DEF OneProcessInv
<1>4. QED
  BY <1>2, <1>3

(* At most one process runs for a session at any moment, for any number of *)
(* sessions, clients, resumers and processes, through crashes, shutdowns,  *)
(* failing writes and reboots, as long as every spawn of an existing       *)
(* session is reserved (Manager.starting) and ids are learnt from Create.  *)
THEOREM OneProcess ==
    ASSUME ReservedSpawnsOnly
    PROVE  Spec => []AtMostOneProcess
  BY OneProcessInit, OneProcessNext, InvImpliesOneProcess, PTL DEF Spec

(***************************************************************************)
(* SessionManager implements SessionLifecycle: whatever calls, exits,      *)
(* failed writes, shutdowns and crashes interleave, account switches       *)
(* included, the persisted row moves along the lifecycle matrix only.      *)
(*                                                                         *)
(* All a step may rely on is that the row of a session being created does  *)
(* not exist until its own Create inserts it: CreateOwnsRow.               *)
(***************************************************************************)

CreateOwnsRow ==
    /\ \A c \in Callers : op[c] = "create" => pc[c] \in SpawnPcs
    /\ \A c \in Callers : op[c] = "create" /\ pc[c] # "install" => row[cid[c]] = "none"
    /\ \A c, d \in Callers : c # d /\ op[c] = "create" /\ op[d] = "create"
                                => cid[c] # cid[d]

(* The moves of the matrix that the code makes.                            *)
LEMMA LegalMoves ==
    /\ Lifecycle!LegalMove("none", "running")
    /\ \A s \in Terminal : Lifecycle!LegalMove(s, "running")
    /\ \A t \in Terminal : Lifecycle!LegalMove("running", t)
    /\ \A t \in {"stopped", "ended"} : Lifecycle!LegalMove("interrupted", t)
    /\ \A s \in RowStates : Lifecycle!LegalMove(s, "removed")
<1> USE DEF Lifecycle!LegalMove, Lifecycle!NextStates, Lifecycle!Event, Lifecycle!State,
            Lifecycle!Live, Lifecycle!Terminal, Lifecycle!TerminationEvents,
            Lifecycle!LiveTransitions, Lifecycle!IsTerminal, Terminal
<1>1. Lifecycle!LegalMove("none", "running")
  <2>1. "start" \in Lifecycle!Event /\ "running" \in Lifecycle!NextStates("none", "start")
    OBVIOUS
  <2>2. QED
    BY <2>1
<1>2. ASSUME NEW s \in Terminal PROVE Lifecycle!LegalMove(s, "running")
  <2>1. "start" \in Lifecycle!Event /\ "running" \in Lifecycle!NextStates(s, "start")
    OBVIOUS
  <2>2. QED
    BY <2>1
<1>3. ASSUME NEW t \in Terminal PROVE Lifecycle!LegalMove("running", t)
  <2> USE DEF Lifecycle!TerminationState, Lifecycle!TerminatableStates
  <2>1. CASE t = "stopped"
    <3>1. "user_stop" \in Lifecycle!Event /\ t \in Lifecycle!NextStates("running", "user_stop")
      BY <2>1
    <3>2. QED
      BY <3>1
  <2>2. CASE t = "ended"
    <3>1. "exit" \in Lifecycle!Event /\ t \in Lifecycle!NextStates("running", "exit")
      BY <2>2
    <3>2. QED
      BY <3>1
  <2>3. CASE t = "interrupted"
    <3>1. /\ "gateway_shutdown" \in Lifecycle!Event
          /\ t \in Lifecycle!NextStates("running", "gateway_shutdown")
      BY <2>3
    <3>2. QED
      BY <3>1
  <2>4. QED
    BY <2>1, <2>2, <2>3
<1>4. \A t \in {"stopped", "ended"} : Lifecycle!LegalMove("interrupted", t)
  OBVIOUS
<1>5. \A s \in RowStates : Lifecycle!LegalMove(s, "removed")
  BY DEF RowStates
<1>6. QED
  BY <1>1, <1>2, <1>3, <1>4, <1>5

(* What a step has to show of the row.                                     *)
MovesLegally == \A id \in Ids : row'[id] = row[id] \/ Lifecycle!LegalMove(row[id], row'[id])

(* Rows that do not exist are not brought into existence.                  *)
AddsNoRow == \A id \in Ids : row[id] = "none" => row'[id] = "none"

(* MarkTerminal and MarkInterrupted, whichever end they record.            *)
LEMMA MarkMoves ==
    ASSUME NEW s \in {"none", "removed"} \union RowStates, NEW t \in Terminal
    PROVE  /\ MarkedTerminal(s, t) = s \/ Lifecycle!LegalMove(s, MarkedTerminal(s, t))
           /\ s = "none" => MarkedTerminal(s, t) = "none"
<1>1. CASE s = "running"
  BY <1>1, LegalMoves DEF MarkedTerminal, RowStates, Terminal
<1>2. CASE s = "interrupted"
  BY <1>2, LegalMoves DEF MarkedTerminal, RowStates, Terminal
<1>3. CASE s \in {"none", "removed", "stopped", "ended"}
  BY <1>3 DEF MarkedTerminal, RowStates, Terminal
<1>4. QED
  BY <1>1, <1>2, <1>3 DEF RowStates, Terminal

(***************************************************************************)
(* CreateOwnsRow is inductive.                                             *)
(***************************************************************************)

(* Creates that are in flight stay where they were or move on in spawn,    *)
(* none enters, and none has its row written.                              *)
CreatesMoveOn ==
    \A d \in Callers : op'[d] = "create" =>
      /\ op[d] = "create" /\ cid'[d] = cid[d]
      /\ pc'[d] \in SpawnPcs /\ (pc[d] = "install" => pc'[d] = "install")

(* Such a step keeps CreateOwnsRow.                                        *)
LEMMA MoveOnKeepsOwner ==
    ASSUME TypeOK, CreateOwnsRow, CreatesMoveOn, AddsNoRow
    PROVE  CreateOwnsRow'
<1>1. \A d \in Callers : op[d] = "create" => cid[d] \in Ids
  BY DEF CreateOwnsRow, TypeOK, CallTypeOK, SpawnPcs
<1>2. QED
  BY <1>1 DEF CreateOwnsRow, CreatesMoveOn, AddsNoRow

(* Steps in which no caller moves.                                         *)
LEMMA CallersStill ==
    ASSUME CreateOwnsRow, UNCHANGED callVars
    PROVE  CreatesMoveOn
  BY DEF CreateOwnsRow, CreatesMoveOn, callVars

(* A call that returns is a Create no longer.                              *)
LEMMA ReturnMovesOn ==
    ASSUME TypeOK, CreateOwnsRow, NEW c \in Callers, Return(c)
    PROVE  CreatesMoveOn
<1>1. \A d \in Callers : op'[d] = "create" =>
        d # c /\ op[d] = "create" /\ cid'[d] = cid[d] /\ pc'[d] = pc[d]
  BY DEF TypeOK, CallTypeOK, Return
<1>2. QED
  BY <1>1 DEF CreateOwnsRow, CreatesMoveOn

(* A caller outside Create, or a Create before its insert, goes on.        *)
LEMMA GotoMovesOn ==
    ASSUME TypeOK, CreateOwnsRow, NEW c \in Callers, NEW p, Goto(c, p),
           UNCHANGED <<op, cid>>,
           op[c] = "create" => p \in SpawnPcs /\ pc[c] # "install"
    PROVE  CreatesMoveOn
<1>1. \A d \in Callers : pc'[d] = IF d = c THEN p ELSE pc[d]
  BY DEF TypeOK, CallTypeOK, Goto
<1>2. QED
  BY <1>1 DEF CreateOwnsRow, CreatesMoveOn

(* The error return of spawn: a Create returns.                            *)
LEMMA SpawnFailsMovesOn ==
    ASSUME TypeOK, CreateOwnsRow, NEW c \in Callers, SpawnFails(c)
    PROVE  CreatesMoveOn
<1>1. CASE op[c] \in ReserveOps /\ Goto(c, "release") /\ UNCHANGED <<op, cid>>
  BY <1>1, GotoMovesOn DEF ReserveOps
<1>2. CASE RollsBack(c) /\ Goto(c, "prepare") /\ UNCHANGED <<op, cid>>
  BY <1>2, GotoMovesOn DEF RollsBack
<1>3. CASE Return(c)
  BY <1>3, ReturnMovesOn
<1>4. QED
  BY <1>1, <1>2, <1>3 DEF SpawnFails

(* A call that enters: only Create claims an id, and one nobody else names.*)
LEMMA BeginOwner ==
    ASSUME TypeOK, CreateOwnsRow, NEW c \in Callers, Begin(c)
    PROVE  CreateOwnsRow' /\ UNCHANGED row
<1>1. ASSUME NEW o, NEW id \in Ids, NEW p, NEW a, Enter(c, o, id, p, a)
      PROVE  \A d \in Callers : /\ op'[d] = IF d = c THEN o ELSE op[d]
                                /\ cid'[d] = IF d = c THEN id ELSE cid[d]
                                /\ pc'[d] = IF d = c THEN p ELSE pc[d]
  BY <1>1 DEF Enter, TypeOK, CallTypeOK
<1>2. ASSUME NEW o, NEW id \in Ids, NEW p, NEW a, Enter(c, o, id, p, a), o # "create",
             UNCHANGED row
      PROVE  CreateOwnsRow'
  <2>1. CreatesMoveOn /\ AddsNoRow
    BY <1>1, <1>2 DEF CreatesMoveOn, AddsNoRow, CreateOwnsRow
  <2>2. QED
    BY <2>1, MoveOnKeepsOwner
<1>3. PICK id \in Ids :
        \/ BeginStart(c, id) \/ BeginStop(c, id) \/ BeginRemove(c, id) \/ BeginResume(c, id)
        \/ \E a \in Accounts : \/ BeginCreate(c, id, a)
                               \/ \E o \in SwitchOps : BeginSwitch(c, o, id, a)
  BY DEF Begin
<1>4. UNCHANGED row
  BY <1>3 DEF BeginStart, BeginStop, BeginRemove, BeginResume, BeginCreate, BeginSwitch,
              dbVars
<1>5. CASE BeginStart(c, id)
  BY <1>2, <1>4, <1>5 DEF BeginStart
<1>6. CASE BeginStop(c, id)
  BY <1>2, <1>4, <1>6 DEF BeginStop
<1>7. CASE BeginRemove(c, id)
  BY <1>2, <1>4, <1>7 DEF BeginRemove
<1>8. CASE BeginResume(c, id)
  BY <1>2, <1>4, <1>8 DEF BeginResume
<1>9. ASSUME NEW a \in Accounts, NEW o \in SwitchOps, BeginSwitch(c, o, id, a)
      PROVE  CreateOwnsRow'
  BY <1>2, <1>4, <1>9 DEF BeginSwitch, SwitchOps
<1>10. ASSUME NEW a \in Accounts, BeginCreate(c, id, a)
       PROVE  CreateOwnsRow'
  <2>1. /\ row[id] = "none" /\ \A d \in Callers : cid[d] # id
        /\ Enter(c, "create", id, "prepare", <<a, a>>)
    BY <1>10 DEF BeginCreate
  <2>2. \A d \in Callers : /\ op'[d] = IF d = c THEN "create" ELSE op[d]
                           /\ cid'[d] = IF d = c THEN id ELSE cid[d]
                           /\ pc'[d] = IF d = c THEN "prepare" ELSE pc[d]
    BY <1>1, <2>1
  <2>3. QED
    BY <1>4, <2>1, <2>2 DEF CreateOwnsRow, SpawnPcs
<1>11. QED
  BY <1>3, <1>4, <1>5, <1>6, <1>7, <1>8, <1>9, <1>10

(***************************************************************************)
(* The steps that write rows.                                              *)
(***************************************************************************)

(* What the induction needs of every step.                                 *)
RowGoal == CreateOwnsRow' /\ MovesLegally

(* A step that leaves the rows alone and lets creates move on.             *)
LEMMA QuietStep ==
    ASSUME TypeOK, CreateOwnsRow, CreatesMoveOn, UNCHANGED row
    PROVE  RowGoal
  BY MoveOnKeepsOwner DEF RowGoal, MovesLegally, AddsNoRow

(* A step that changes one row, along the matrix, and inserts none.        *)
LEMMA OneRowStep ==
    ASSUME TypeOK, CreateOwnsRow, CreatesMoveOn, NEW id \in Ids \union {NoId}, NEW t,
           row' = [row EXCEPT ![id] = t],
           id \in Ids => /\ t = row[id] \/ Lifecycle!LegalMove(row[id], t)
                         /\ row[id] = "none" => t = "none"
    PROVE  RowGoal
<1>1. row \in [Ids -> {"none", "removed"} \union RowStates]
  BY DEF TypeOK, DbTypeOK
<1>2. \A i \in Ids : row'[i] = IF i = id THEN t ELSE row[i]
  BY <1>1
<1>3. MovesLegally /\ AddsNoRow
  BY <1>2 DEF MovesLegally, AddsNoRow
<1>4. QED
  BY <1>3, MoveOnKeepsOwner DEF RowGoal

(* spawn writes "running": Create inserts the row it owns, Start and the   *)
(* switches revive a row that exists.                                      *)
LEMMA PersistOwner ==
    ASSUME TypeOK, CreateOwnsRow, NEW c \in Callers, Persist(c)
    PROVE  RowGoal
<1>1. /\ row \in [Ids -> {"none", "removed"} \union RowStates]
      /\ pc[c] = "persist" /\ cid[c] \in Ids
  BY DEF TypeOK, DbTypeOK, CallTypeOK, Persist
<1>2. CASE SpawnFails(c) /\ UNCHANGED row
  BY <1>2, SpawnFailsMovesOn, QuietStep
<1>3. CASE WriteRunning(c) /\ Goto(c, "install") /\ UNCHANGED <<op, cid>>
  <2>1. CASE op[c] = "create"
    <3>1. row[cid[c]] = "none"
      BY <1>1, <2>1 DEF CreateOwnsRow
    <3>2. \A i \in Ids : row'[i] = IF i = cid[c] THEN "running" ELSE row[i]
      BY <1>1, <1>3, <2>1 DEF WriteRunning
    <3>3. \A d \in Callers : pc'[d] = IF d = c THEN "install" ELSE pc[d]
      BY <1>3 DEF TypeOK, CallTypeOK, Goto
    <3>4. \A d \in Callers : op[d] = "create" => cid[d] \in Ids
      BY DEF CreateOwnsRow, TypeOK, CallTypeOK, SpawnPcs
    <3>5. CreateOwnsRow'
      <4>1. \A d \in Callers : op'[d] = "create" => pc'[d] \in SpawnPcs
        BY <1>3, <3>3 DEF CreateOwnsRow, SpawnPcs
      <4>2. \A d \in Callers : op'[d] = "create" /\ pc'[d] # "install"
                                  => row'[cid'[d]] = "none"
        BY <1>3, <2>1, <3>2, <3>3, <3>4 DEF CreateOwnsRow
      <4>3. QED
        BY <1>3, <4>1, <4>2 DEF CreateOwnsRow
    <3>6. MovesLegally
      BY <3>1, <3>2, LegalMoves DEF MovesLegally
    <3>7. QED
      BY <3>5, <3>6 DEF RowGoal
  <2>2. CASE op[c] # "create"
    <3>1. CreatesMoveOn
      BY <1>3, <2>2, GotoMovesOn
    <3>2. CASE HasRow(cid[c]) /\ row[cid[c]] # "running"
      <4>1. row' = [row EXCEPT ![cid[c]] = "running"]
        BY <1>3, <2>2, <3>2 DEF WriteRunning
      <4>2. row[cid[c]] \in Terminal
        BY <3>2 DEF HasRow, RowStates
      <4>3. Lifecycle!LegalMove(row[cid[c]], "running") /\ row[cid[c]] # "none"
        BY <4>2, LegalMoves DEF Terminal
      <4>4. QED
        BY <1>1, <3>1, <4>1, <4>3, OneRowStep
    <3>3. CASE ~(HasRow(cid[c]) /\ row[cid[c]] # "running")
      <4>1. row' = row
        BY <1>1, <1>3, <2>2, <3>3 DEF WriteRunning
      <4>2. QED
        BY <3>1, <4>1, QuietStep
    <3>4. QED
      BY <3>2, <3>3
  <2>3. QED
    BY <2>1, <2>2
<1>4. QED
  BY <1>2, <1>3 DEF Persist

(* Stop of a session that is not in the live map marks its row.            *)
LEMMA StopStaleOwner ==
    ASSUME TypeOK, CreateOwnsRow, NEW c \in Callers, StopStale(c)
    PROVE  RowGoal
<1>1. /\ row \in [Ids -> {"none", "removed"} \union RowStates]
      /\ pc[c] = "stop_stale" /\ cid[c] \in Ids
  BY DEF TypeOK, DbTypeOK, CallTypeOK, StopStale
<1>2. CASE Return(c) /\ UNCHANGED row
  BY <1>2, ReturnMovesOn, QuietStep
<1>3. CASE /\ row' = [row EXCEPT ![cid[c]] = MarkedTerminal(@, "stopped")]
           /\ Goto(c, "stop_ok") /\ UNCHANGED <<op, cid>>
  <2>1. CreatesMoveOn
    BY <1>1, <1>3, GotoMovesOn DEF CreateOwnsRow, SpawnPcs
  <2> DEFINE t == MarkedTerminal(row[cid[c]], "stopped")
  <2>2. /\ t = row[cid[c]] \/ Lifecycle!LegalMove(row[cid[c]], t)
        /\ row[cid[c]] = "none" => t = "none"
    BY <1>1, MarkMoves DEF Terminal
  <2>3. row' = [row EXCEPT ![cid[c]] = t]
    BY <1>3
  <2>4. QED
    BY <1>1, <2>1, <2>2, <2>3, OneRowStep
<1>4. QED
  BY <1>2, <1>3 DEF StopStale

(* Remove deletes a row that exists.                                       *)
LEMMA DeleteOwner ==
    ASSUME TypeOK, CreateOwnsRow, NEW c \in Callers, Delete(c)
    PROVE  RowGoal
<1>1. /\ row \in [Ids -> {"none", "removed"} \union RowStates]
      /\ pc[c] = "stop_ok" /\ cid[c] \in Ids
  BY DEF TypeOK, DbTypeOK, CallTypeOK, Delete
<1>2. CreatesMoveOn
  BY ReturnMovesOn DEF Delete
<1>3. CASE HasRow(cid[c]) /\ row' = [row EXCEPT ![cid[c]] = "removed"]
  <2>1. Lifecycle!LegalMove(row[cid[c]], "removed") /\ row[cid[c]] # "none"
    BY <1>3, LegalMoves DEF HasRow, RowStates, Terminal
  <2>2. QED
    BY <1>1, <1>2, <1>3, <2>1, OneRowStep
<1>4. CASE row' = row
  BY <1>2, <1>4, QuietStep
<1>5. QED
  BY <1>1, <1>3, <1>4 DEF Delete

(* waitExit records the end of its run.                                    *)
LEMMA MarkRowOwner ==
    ASSUME TypeOK, CreateOwnsRow, NEW r \in Runs, MarkRow(r)
    PROVE  RowGoal
<1>1. /\ row \in [Ids -> {"none", "removed"} \union RowStates]
      /\ runOf[r] \in Ids \union {NoId} /\ final[r] \in Terminal
  BY DEF TypeOK, DbTypeOK, RunTypeOK, MarkRow
<1>2. CreatesMoveOn
  BY CallersStill DEF MarkRow
<1>3. CASE row' = [row EXCEPT ![runOf[r]] = MarkedTerminal(@, final[r])]
  <2> DEFINE t == MarkedTerminal(row[runOf[r]], final[r])
  <2>1. runOf[r] \in Ids => /\ t = row[runOf[r]] \/ Lifecycle!LegalMove(row[runOf[r]], t)
                            /\ row[runOf[r]] = "none" => t = "none"
    BY <1>1, MarkMoves
  <2>2. row' = [row EXCEPT ![runOf[r]] = t]
    BY <1>3
  <2>3. QED
    BY <1>1, <1>2, <2>1, <2>2, OneRowStep
<1>4. CASE row' = row
  BY <1>2, <1>4, QuietStep
<1>5. QED
  BY <1>3, <1>4 DEF MarkRow

(* The boot of a gateway interrupts every row left running, in one UPDATE. *)
LEMMA ReconcileOwner ==
    ASSUME TypeOK, CreateOwnsRow, ReconcileStartup
    PROVE  RowGoal
<1>1. row \in [Ids -> {"none", "removed"} \union RowStates]
  BY DEF TypeOK, DbTypeOK
<1>2. CreatesMoveOn
  BY CallersStill DEF ReconcileStartup
<1>3. CASE row' = row
  BY <1>2, <1>3, QuietStep
<1>4. CASE row' = [id \in Ids |-> Reconciled(row[id])]
  <2>1. \A id \in Ids : row'[id] = IF row[id] = "running" THEN "interrupted" ELSE row[id]
    BY <1>1, <1>4 DEF Reconciled, Live, RowStates, Terminal
  <2>2. MovesLegally
    BY <2>1, LegalMoves DEF MovesLegally, Terminal
  <2>3. AddsNoRow
    BY <2>1 DEF AddsNoRow
  <2>4. QED
    BY <1>2, <2>2, <2>3, MoveOnKeepsOwner DEF RowGoal
<1>5. QED
  BY <1>3, <1>4 DEF ReconcileStartup

(***************************************************************************)
(* The steps that do not.                                                  *)
(***************************************************************************)

(* spawn before and after its write, and the reservation around it.        *)
LEMMA SpawnOwner ==
    ASSUME TypeOK, CreateOwnsRow, NEW c \in Callers,
           \/ TryReserveStart(c) \/ StartGet(c) \/ Release(c)
           \/ Prepare(c) \/ PtyStart(c) \/ Install(c)
    PROVE  RowGoal
<1>1. UNCHANGED row
  BY DEF TryReserveStart, StartGet, Release, Prepare, PtyStart, Install, dbVars
<1>2. op[c] = "create" => pc[c] \in SpawnPcs
  BY DEF CreateOwnsRow
<1>3. CASE TryReserveStart(c) \/ StartGet(c) \/ Release(c)
  <2>1. op[c] # "create"
    BY <1>2, <1>3 DEF TryReserveStart, StartGet, Release, SpawnPcs
  <2>2. \/ Return(c)
        \/ /\ \E p \in {"get", "prepare", "release"} : Goto(c, p)
           /\ UNCHANGED <<op, cid>>
    BY <1>3 DEF TryReserveStart, StartGet, Release
  <2>3. CreatesMoveOn
    BY <2>1, <2>2, ReturnMovesOn, GotoMovesOn
  <2>4. QED
    BY <1>1, <2>3, QuietStep
<1>4. CASE Prepare(c)
  <2>1. \/ SpawnFails(c)
        \/ pc[c] = "prepare" /\ Goto(c, "launch") /\ UNCHANGED <<op, cid>>
    BY <1>4 DEF Prepare
  <2>2. CreatesMoveOn
    BY <2>1, SpawnFailsMovesOn, GotoMovesOn DEF SpawnPcs
  <2>3. QED
    BY <1>1, <2>2, QuietStep
<1>5. CASE PtyStart(c)
  <2>1. \/ SpawnFails(c)
        \/ pc[c] = "launch" /\ Goto(c, "persist") /\ UNCHANGED <<op, cid>>
    BY <1>5 DEF PtyStart
  <2>2. CreatesMoveOn
    BY <2>1, SpawnFailsMovesOn, GotoMovesOn DEF SpawnPcs
  <2>3. QED
    BY <1>1, <2>2, QuietStep
<1>6. CASE Install(c)
  <2>1. \/ Return(c)
        \/ /\ op[c] \in ReserveOps \union SwitchOps
           /\ \E p \in {"release", "switch_persist"} : Goto(c, p)
           /\ UNCHANGED <<op, cid>>
    BY <1>6 DEF Install
  <2>2. CreatesMoveOn
    BY <2>1, ReturnMovesOn, GotoMovesOn DEF ReserveOps, SwitchOps
  <2>3. QED
    BY <1>1, <2>2, QuietStep
<1>7. QED
  BY <1>3, <1>4, <1>5, <1>6

(* Stop, Remove and the account switches around their writes.              *)
LEMMA StopSwitchOwner ==
    ASSUME TypeOK, CreateOwnsRow, NEW c \in Callers,
           \/ StopLookup(c) \/ StopGet(c) \/ StopMark(c) \/ StopTimeout(c) \/ StopEnded(c)
           \/ StopCancelled(c) \/ StopReturns(c) \/ RemoveGet(c)
           \/ SwitchGet(c) \/ SwitchRow(c) \/ SwitchPersist(c)
    PROVE  RowGoal
<1>1. UNCHANGED row
  BY DEF StopLookup, StopGet, StopMark, StopTimeout, StopEnded, StopCancelled, StopReturns,
         RemoveGet, SwitchGet, SwitchRow, SwitchPersist, dbVars
<1>2. pc[c] \notin SpawnPcs
  BY DEF StopLookup, StopGet, StopMark, StopTimeout, StopEnded, StopCancelled, StopReturns,
         RemoveGet, SwitchGet, SwitchRow, SwitchPersist, SpawnPcs
<1>3. op[c] # "create"
  BY <1>2 DEF CreateOwnsRow
<1>4. \/ Return(c)
      \/ (\E p \in StopPcs \union SpawnPcs : Goto(c, p)) /\ UNCHANGED <<op, cid>>
  <2> USE DEF StopPcs, SpawnPcs
  <2>1. CASE StopLookup(c) \/ StopMark(c) \/ StopTimeout(c) \/ StopEnded(c)
    BY <2>1 DEF StopLookup, StopMark, StopTimeout, StopEnded
  <2>2. CASE StopGet(c)
    BY <2>2 DEF StopGet
  <2>3. CASE RemoveGet(c)
    BY <2>3 DEF RemoveGet
  <2>4. CASE SwitchGet(c)
    BY <2>4 DEF SwitchGet
  <2>5. CASE SwitchRow(c)
    BY <2>5 DEF SwitchRow
  <2>6. CASE StopCancelled(c)
    BY <2>6 DEF StopCancelled
  <2>7. CASE StopReturns(c)
    BY <2>7 DEF StopReturns
  <2>8. CASE SwitchPersist(c)
    BY <2>8 DEF SwitchPersist
  <2>9. QED
    BY <2>1, <2>2, <2>3, <2>4, <2>5, <2>6, <2>7, <2>8
<1>5. CreatesMoveOn
  BY <1>3, <1>4, ReturnMovesOn, GotoMovesOn
<1>6. QED
  BY <1>1, <1>5, QuietStep

(* Exits, the other steps of waitExit, shutdowns and crashes.              *)
LEMMA BackgroundOwner ==
    ASSUME TypeOK, CreateOwnsRow,
           \/ \E r \in Runs : ProcExit(r) \/ WaitExit(r)
           \/ ReconcileStartup \/ Shutdown \/ Crash
    PROVE  RowGoal
<1>1. ASSUME NEW r \in Runs, ProcExit(r) \/ WaitExit(r), ~MarkRow(r)
      PROVE  RowGoal
  <2>1. UNCHANGED row /\ UNCHANGED callVars
    BY <1>1 DEF ProcExit, WaitExit, ConsumeStopRequest, Classify, SetState, Cleanup, Drop,
                dbVars
  <2>2. QED
    BY <2>1, CallersStill, QuietStep
<1>2. ASSUME NEW r \in Runs, MarkRow(r)
      PROVE  RowGoal
  BY <1>2, MarkRowOwner
<1>3. CASE Sigterm \/ ShutdownBegin \/ ShutdownKill
  <2>1. UNCHANGED row /\ UNCHANGED callVars
    BY <1>3 DEF Sigterm, ShutdownBegin, ShutdownKill, dbVars
  <2>2. QED
    BY <2>1, CallersStill, QuietStep
<1>4. CASE GatewayGone
  <2>1. UNCHANGED row /\ \A d \in Callers : op'[d] = "none"
    BY <1>4 DEF GatewayGone, dbVars, AllCallers
  <2>2. CreatesMoveOn
    BY <2>1 DEF CreatesMoveOn
  <2>3. QED
    BY <2>1, <2>2, QuietStep
<1>5. CASE ReconcileStartup
  BY <1>5, ReconcileOwner
<1>6. QED
  BY <1>1, <1>2, <1>3, <1>4, <1>5 DEF Shutdown, ShutdownDone, Crash

(***************************************************************************)
(* The refinement.                                                         *)
(***************************************************************************)

RefinementInv == TypeOK /\ CreateOwnsRow

(* It holds initially, and the row starts where the lifecycle starts.      *)
LEMMA RefinementInit == Init => RefinementInv /\ Lifecycle!Init
<1> SUFFICES ASSUME Init PROVE RefinementInv /\ Lifecycle!Init
  OBVIOUS
<1>1. \A c \in Callers : op[c] = "none"
  BY DEF Init, AllCallers
<1>2. CreateOwnsRow
  BY <1>1 DEF CreateOwnsRow
<1>3. Lifecycle!Init
  BY DEF Init, Lifecycle!Init, RowStates, Terminal, Lifecycle!State, Lifecycle!Terminal,
         Lifecycle!Live
<1>4. QED
  BY <1>2, <1>3, TypeInit DEF RefinementInv

(* Every step keeps it, and is a step of the lifecycle or a stutter.       *)
LEMMA RefinementStep ==
    RefinementInv /\ [Next]_vars => RefinementInv' /\ [Lifecycle!Next]_row
<1> SUFFICES ASSUME RefinementInv, [Next]_vars
             PROVE  RefinementInv' /\ [Lifecycle!Next]_row
  OBVIOUS
<1>1. TypeOK /\ CreateOwnsRow /\ TypeOK'
  BY TypeNext DEF RefinementInv
<1>2. RowGoal
  <2>1. ASSUME NEW c \in Callers, Begin(c) PROVE RowGoal
    BY <1>1, <2>1, BeginOwner DEF RowGoal, MovesLegally
  <2>2. ASSUME NEW c \in Callers, CallerStep(c) \/ StopCancelled(c) PROVE RowGoal
    BY <1>1, <2>2, PersistOwner, StopStaleOwner, DeleteOwner, SpawnOwner, StopSwitchOwner
       DEF CallerStep
  <2>3. CASE UNCHANGED vars
    BY <1>1, <2>3, CallersStill, QuietStep DEF vars, dbVars
  <2>4. QED
    BY <1>1, <2>1, <2>2, <2>3, BackgroundOwner DEF Next
<1>3. row' \in [Ids -> {"none", "removed"} \union Lifecycle!State]
  BY <1>1 DEF TypeOK, DbTypeOK, RowStates, Terminal, Lifecycle!State, Lifecycle!Terminal,
              Lifecycle!Live
<1>4. QED
  BY <1>1, <1>2, <1>3 DEF RowGoal, MovesLegally, Lifecycle!Next, RefinementInv

(* The session manager implements the lifecycle of transitions.go: in      *)
(* every behaviour, with any number of sessions, callers, accounts, lost   *)
(* writes and restarts, the row moves along the matrix, a removed row      *)
(* never comes back and an id is never inserted twice.                     *)
THEOREM ManagerImplementsLifecycle == Spec => RowFollowsLifecycle
<1>1. Init => RefinementInv /\ Lifecycle!Init
  BY RefinementInit
<1>2. RefinementInv /\ [Next]_vars => RefinementInv' /\ [Lifecycle!Next]_row
  BY RefinementStep
<1>3. QED
  BY <1>1, <1>2, PTL DEF Spec, RowFollowsLifecycle, Lifecycle!Spec
(***************************************************************************)
(* NoPhantomRunning, for every instance, account switches included.  A row *)
(* that says running may be backed by a run that is being installed only   *)
(* once its launcher is past the write: a launcher before it may still     *)
(* fail and forget its run.                                                *)
(***************************************************************************)

(* A caller owns the run it launched until it is installed, and alone.     *)
Launches ==
    \A c \in Callers :
      /\ crun[c] # NoRun <=> pc[c] \in {"persist", "install"}
      /\ crun[c] # NoRun => /\ wpc[crun[c]] = "launched" /\ runOf[crun[c]] = cid[c]
                            /\ \A d \in Callers : crun[d] = crun[c] => d = c

(* Its exit is not recorded, and its row was written.                      *)
Backs(r) == wpc[r] \in {"wait", "classify", "mark"} \/ \E c \in Callers : crun[c] = r /\ pc[c] = "install"

RowsBacked ==
    Up /\ faults = MaxFaults =>
      \A id \in Ids : row[id] = "running" => \E r \in Runs : runOf[r] = id /\ Backs(r)

PhantomInv == TypeOK /\ Launches /\ RowsBacked

(* The invariant is strong enough.                                         *)
LEMMA BackedMeansNoPhantom == PhantomInv => NoPhantomRunning
<1> SUFFICES ASSUME PhantomInv, Up, faults = MaxFaults, NEW id \in Ids, row[id] = "running"
             PROVE  \E r \in Runs : runOf[r] = id /\ wpc[r] \in {"launched", "wait", "classify", "mark"}
  BY DEF NoPhantomRunning
<1>1. PICK r \in Runs : runOf[r] = id /\ Backs(r)
  BY DEF PhantomInv, RowsBacked
<1>2. (\E c \in Callers : crun[c] = r) => wpc[r] = "launched"
  BY ConstantsAssumption DEF PhantomInv, Launches
<1> QED
  BY <1>1, <1>2 DEF Backs

(* At first no row says running.                                           *)
LEMMA PhantomInit == Init => PhantomInv
<1> SUFFICES ASSUME Init PROVE PhantomInv
  OBVIOUS
<1>1. \A c \in Callers : pc[c] = "idle" /\ crun[c] = NoRun
  BY DEF Init, AllCallers
<1>2. ~Up
  BY DEF Init, Up
<1> QED
  BY <1>1, <1>2, TypeInit DEF PhantomInv, Launches, RowsBacked

(* No SQL write has failed if none has failed after the step.              *)
LEMMA FaultsFall ==
    ASSUME TypeOK, UNCHANGED faults \/ (faults > 0 /\ faults' = faults - 1), faults' = MaxFaults
    PROVE  faults = MaxFaults
<1>1. faults \in 0..MaxFaults
  BY DEF TypeOK, DbTypeOK
<1> QED
  BY <1>1, BoundsAssumption

(* A step of a caller that owns no run before or after it, and makes no    *)
(* row running.                                                            *)
BystanderMove(c) ==
    /\ pc[c] \notin {"persist", "install"}
    /\ \/ Return(c)
       \/ /\ \E p \in Pcs \ {"persist", "install"} : Goto(c, p)
          /\ crun' \in {crun, [crun EXCEPT ![c] = NoRun]} /\ UNCHANGED cid
    /\ \A id \in Ids : row'[id] = "running" => row[id] = "running"
    /\ UNCHANGED faults \/ (faults > 0 /\ faults' = faults - 1)
    /\ UNCHANGED <<gw, runOf, wpc>>

(* Steps that leave runs, rows and launchers alone.                        *)
LEMMA BystanderPreserves ==
    ASSUME PhantomInv, TypeOK', NEW c \in Callers, BystanderMove(c)
    PROVE  PhantomInv'
<1>1. /\ TypeOK /\ Launches /\ RowsBacked
      /\ DOMAIN pc = Callers /\ DOMAIN cid = Callers /\ DOMAIN crun = Callers
  BY DEF PhantomInv, TypeOK, CallTypeOK
<1>2. crun[c] = NoRun
  BY <1>1 DEF BystanderMove, Launches
<1>3. \A d \in Callers : d # c => pc'[d] = pc[d] /\ cid'[d] = cid[d] /\ crun'[d] = crun[d]
  BY <1>1 DEF BystanderMove, Return, Goto
<1>4. pc'[c] \notin {"persist", "install"} /\ crun'[c] = NoRun
  BY <1>1, <1>2 DEF BystanderMove, Return, Goto
<1>5. Launches'
  BY <1>1, <1>2, <1>3, <1>4 DEF Launches, BystanderMove
<1>6. \A r \in Runs : Backs(r) => Backs(r)'
  <2> SUFFICES ASSUME NEW r \in Runs, Backs(r) PROVE Backs(r)'
    OBVIOUS
  <2>1. r # NoRun
    BY ConstantsAssumption
  <2> QED
    BY <1>2, <1>3, <2>1 DEF Backs, BystanderMove
<1>7. Up' /\ faults' = MaxFaults => Up /\ faults = MaxFaults
  BY <1>1, FaultsFall DEF BystanderMove, Up
<1>8. RowsBacked'
  BY <1>1, <1>6, <1>7 DEF RowsBacked, BystanderMove
<1> QED
  BY <1>5, <1>8 DEF PhantomInv

(* pty.Start: the new run was nobody's.                                    *)
LEMMA LaunchKeepsBacked ==
    ASSUME PhantomInv, TypeOK', NEW c \in Callers, NEW r \in FreeRuns, pc[c] = "launch",
           LaunchRun(c, r), crun' = [crun EXCEPT ![c] = r], Goto(c, "persist"),
           UNCHANGED <<cid, dbVars, memVars>>
    PROVE  PhantomInv'
<1>1. /\ TypeOK /\ Launches /\ RowsBacked /\ r \in Runs /\ r # NoRun /\ wpc[r] = "free"
      /\ DOMAIN pc = Callers /\ DOMAIN cid = Callers /\ DOMAIN crun = Callers
      /\ DOMAIN wpc = Runs /\ DOMAIN runOf = Runs
  BY ConstantsAssumption DEF PhantomInv, TypeOK, CallTypeOK, RunTypeOK, FreeRuns
<1>2. \A d \in Callers : crun[d] # r /\ (crun[d] # NoRun => crun[d] \in Runs)
  BY <1>1 DEF Launches, TypeOK, CallTypeOK
<1>3. \A d \in Callers : /\ crun'[d] = IF d = c THEN r ELSE crun[d]
                         /\ pc'[d] = IF d = c THEN "persist" ELSE pc[d]
                         /\ cid'[d] = cid[d]
  BY <1>1 DEF Goto
<1>4. \A s \in Runs : /\ wpc'[s] = IF s = r THEN "launched" ELSE wpc[s]
                      /\ runOf'[s] = IF s = r THEN cid[c] ELSE runOf[s]
  BY <1>1 DEF LaunchRun
<1>5. Launches'
  BY <1>1, <1>2, <1>3, <1>4 DEF Launches
<1>6. \A s \in Runs : Backs(s) => s # r /\ Backs(s)'
  <2> SUFFICES ASSUME NEW s \in Runs, Backs(s) PROVE s # r /\ Backs(s)'
    OBVIOUS
  <2>1. s # r
    BY <1>1, <1>2 DEF Backs
  <2>2. \A d \in Callers : pc[d] = "install" => d # c
    OBVIOUS
  <2> QED
    BY <1>3, <1>4, <2>1, <2>2 DEF Backs
<1>7. RowsBacked'
  BY <1>1, <1>4, <1>6 DEF RowsBacked, Up, dbVars, memVars
<1> QED
  BY <1>5, <1>7 DEF PhantomInv

(* The row is written: from now on the launched run backs it.              *)
LEMMA PersistBacks ==
    ASSUME PhantomInv, TypeOK', NEW c \in Callers, pc[c] = "persist", WriteRunning(c), Goto(c, "install"),
           UNCHANGED <<faults, runVars, cid, crun, memVars>>
    PROVE  PhantomInv'
<1>1. /\ TypeOK /\ Launches /\ RowsBacked
      /\ DOMAIN pc = Callers /\ DOMAIN row = Ids /\ crun[c] \in Runs /\ crun[c] # NoRun
      /\ runOf[crun[c]] = cid[c]
  BY DEF PhantomInv, TypeOK, CallTypeOK, DbTypeOK, Launches
<1>2. \A d \in Callers : pc'[d] = IF d = c THEN "install" ELSE pc[d]
  BY <1>1 DEF Goto
<1>3. Launches'
  BY <1>1, <1>2 DEF Launches, runVars
<1>4. \A s \in Runs : Backs(s) => Backs(s)'
  BY <1>2 DEF Backs, runVars
<1>5. Backs(crun[c])'
  BY <1>2 DEF Backs
<1>6. \A id \in Ids : id # cid[c] => row'[id] = row[id]
  BY <1>1 DEF WriteRunning
<1>7. RowsBacked'
  BY <1>1, <1>4, <1>5, <1>6 DEF RowsBacked, Up, memVars, runVars
<1> QED
  BY <1>3, <1>7 DEF PhantomInv

(* The write fails: the run forgotten backed nothing.                      *)
LEMMA PersistFailsBacked ==
    ASSUME PhantomInv, TypeOK', NEW c \in Callers, pc[c] = "persist", ForgetRun(crun[c]), SpawnFails(c),
           UNCHANGED faults \/ (faults > 0 /\ faults' = faults - 1), UNCHANGED <<row, memVars>>
    PROVE  PhantomInv'
<1>1. /\ TypeOK /\ Launches /\ RowsBacked
      /\ DOMAIN pc = Callers /\ DOMAIN cid = Callers /\ DOMAIN crun = Callers
      /\ DOMAIN wpc = Runs /\ DOMAIN runOf = Runs
      /\ crun[c] \in Runs /\ crun[c] # NoRun /\ wpc[crun[c]] = "launched"
      /\ \A d \in Callers : crun[d] = crun[c] => d = c
  BY DEF PhantomInv, TypeOK, CallTypeOK, RunTypeOK, Launches
<1>2. \A d \in Callers : d # c => pc'[d] = pc[d] /\ cid'[d] = cid[d] /\ crun'[d] = crun[d]
  BY <1>1 DEF SpawnFails, Return, Goto
<1>3. pc'[c] \notin {"persist", "install"} /\ crun'[c] = NoRun
  BY <1>1 DEF SpawnFails, Return, Goto
<1>4. \A s \in Runs : s # crun[c] => wpc'[s] = wpc[s] /\ runOf'[s] = runOf[s]
  BY <1>1 DEF ForgetRun
<1>5. \A d \in Callers : crun[d] # NoRun => crun[d] \in Runs
  BY <1>1 DEF TypeOK, CallTypeOK
<1>6. Launches'
  BY <1>1, <1>2, <1>3, <1>4, <1>5 DEF Launches
<1>7. \A s \in Runs : Backs(s) => s # crun[c] /\ Backs(s)'
  <2> SUFFICES ASSUME NEW s \in Runs, Backs(s) PROVE s # crun[c] /\ Backs(s)'
    OBVIOUS
  <2>1. s # crun[c]
    BY <1>1 DEF Backs
  <2> QED
    BY <1>2, <1>4, <2>1 DEF Backs
<1>8. Up' /\ faults' = MaxFaults => Up /\ faults = MaxFaults
  BY <1>1, FaultsFall DEF Up, memVars
<1>9. RowsBacked'
  BY <1>1, <1>4, <1>7, <1>8 DEF RowsBacked
<1> QED
  BY <1>6, <1>9 DEF PhantomInv

(* The run is handed to waitExit.                                          *)
LEMMA InstallKeepsBacked ==
    ASSUME PhantomInv, TypeOK', NEW c \in Callers, Install(c)
    PROVE  PhantomInv'
<1>1. /\ TypeOK /\ Launches /\ RowsBacked
      /\ DOMAIN pc = Callers /\ DOMAIN cid = Callers /\ DOMAIN crun = Callers /\ DOMAIN wpc = Runs
      /\ pc[c] = "install" /\ crun[c] \in Runs /\ crun[c] # NoRun
      /\ \A d \in Callers : crun[d] = crun[c] => d = c
  BY DEF PhantomInv, TypeOK, CallTypeOK, RunTypeOK, Launches, Install
<1>2. \A d \in Callers : d # c => pc'[d] = pc[d] /\ cid'[d] = cid[d] /\ crun'[d] = crun[d]
  BY <1>1 DEF Install, Return, Goto
<1>3. pc'[c] \notin {"persist", "install"} /\ crun'[c] = NoRun
  BY <1>1 DEF Install, Return, Goto
<1>4. \A s \in Runs : wpc'[s] = IF s = crun[c] THEN "wait" ELSE wpc[s]
  BY <1>1 DEF Install
<1>5. UNCHANGED <<runOf, row, faults, gw>>
  BY DEF Install, dbVars
<1>6. Launches'
  BY <1>1, <1>2, <1>3, <1>4, <1>5 DEF Launches, TypeOK, CallTypeOK
<1>7. \A s \in Runs : Backs(s) => Backs(s)'
  BY <1>1, <1>2, <1>4 DEF Backs
<1>8. RowsBacked'
  BY <1>1, <1>5, <1>7 DEF RowsBacked, Up
<1> QED
  BY <1>6, <1>8 DEF PhantomInv

(* waitExit: the row is marked before the run stops backing it.            *)
LEMMA WaitExitKeepsBacked ==
    ASSUME PhantomInv, TypeOK', NEW r \in Runs, ProcExit(r) \/ WaitExit(r)
    PROVE  PhantomInv'
<1>1. /\ TypeOK /\ Launches /\ RowsBacked
      /\ DOMAIN wpc = Runs /\ DOMAIN runOf = Runs /\ DOMAIN row = Ids
      /\ \A d \in Callers : crun[d] # NoRun => crun[d] \in Runs
  BY DEF PhantomInv, TypeOK, CallTypeOK, RunTypeOK, DbTypeOK
<1>2. UNCHANGED <<pc, cid, crun, gw>>
  BY DEF ProcExit, WaitExit, ConsumeStopRequest, Classify, MarkRow, SetState, Cleanup, Drop, callVars, memVars
<1>3. UNCHANGED faults \/ (faults > 0 /\ faults' = faults - 1)
  BY DEF ProcExit, WaitExit, ConsumeStopRequest, Classify, MarkRow, SetState, Cleanup, Drop, dbVars
<1>4. Up' /\ faults' = MaxFaults => Up /\ faults = MaxFaults
  BY <1>1, <1>2, <1>3, FaultsFall DEF Up
<1>5. ASSUME NEW p, NEW q, wpc[r] = p, p # "launched", wpc' = [wpc EXCEPT ![r] = q],
             p \in {"wait", "classify", "mark"} => q \in {"wait", "classify", "mark"},
             UNCHANGED <<runOf, row>>
      PROVE  PhantomInv'
  <2>1. \A s \in Runs : wpc'[s] = IF s = r THEN q ELSE wpc[s]
    BY <1>1, <1>5
  <2>2. Launches'
    BY <1>1, <1>2, <1>5, <2>1 DEF Launches
  <2>3. \A s \in Runs : Backs(s) => Backs(s)'
    BY <1>2, <1>5, <2>1 DEF Backs
  <2>4. RowsBacked'
    BY <1>1, <1>4, <1>5, <2>3 DEF RowsBacked
  <2> QED
    BY <2>2, <2>4 DEF PhantomInv
<1>6. CASE ProcExit(r)
  BY <1>1, <1>2, <1>4, <1>6 DEF ProcExit, PhantomInv, Launches, RowsBacked, Backs, dbVars
<1>7. CASE ConsumeStopRequest(r) \/ Classify(r) \/ SetState(r) \/ Cleanup(r)
  BY <1>5, <1>7 DEF ConsumeStopRequest, Classify, SetState, Cleanup, dbVars
<1>8. CASE MarkRow(r)
  <2>1. wpc[r] = "mark" /\ wpc' = [wpc EXCEPT ![r] = "set"] /\ UNCHANGED runOf
    BY <1>8 DEF MarkRow
  <2>2. \A s \in Runs : wpc'[s] = IF s = r THEN "set" ELSE wpc[s]
    BY <1>1, <2>1
  <2>3. Launches'
    BY <1>1, <1>2, <2>1, <2>2 DEF Launches
  <2>4. \A s \in Runs : Backs(s) /\ s # r => Backs(s)'
    BY <1>2, <2>2 DEF Backs
  <2>5. faults' = MaxFaults => row' = [row EXCEPT ![runOf[r]] = MarkedTerminal(@, final[r])]
    BY <1>1, <1>8, BoundsAssumption DEF MarkRow, TypeOK, DbTypeOK
  <2>6. final[r] \in Terminal
    BY <1>1, <2>1 DEF TypeOK, RunTypeOK
  <2>7. \A s \in {"none", "removed"} \union RowStates : MarkedTerminal(s, final[r]) # "running"
    BY <2>6 DEF MarkedTerminal, RowStates, Terminal
  <2>8. faults' = MaxFaults => \A id \in Ids : row'[id] = "running" => id # runOf[r] /\ row[id] = "running"
    BY <1>1, <2>5, <2>7 DEF TypeOK, DbTypeOK
  <2>9. RowsBacked'
    BY <1>1, <1>4, <2>1, <2>4, <2>8 DEF RowsBacked
  <2> QED
    BY <2>3, <2>9 DEF PhantomInv
<1>9. CASE Drop(r)
  <2>1. wpc[r] = "drop" /\ UNCHANGED row
    BY <1>9 DEF Drop, dbVars
  <2>2. \A s \in Runs : s # r => wpc'[s] = wpc[s] /\ runOf'[s] = runOf[s]
    BY <1>1, <1>9 DEF Drop, ForgetRun
  <2>3. \A d \in Callers : crun[d] # r
    BY <2>1, <1>1, ConstantsAssumption DEF Launches
  <2>4. Launches'
    BY <1>1, <1>2, <2>2, <2>3 DEF Launches
  <2>5. \A s \in Runs : Backs(s) => s # r /\ Backs(s)'
    BY <1>2, <2>1, <2>2, <2>3 DEF Backs
  <2>6. RowsBacked'
    BY <1>1, <1>4, <2>1, <2>2, <2>5 DEF RowsBacked
  <2> QED
    BY <2>4, <2>6 DEF PhantomInv
<1> QED
  BY <1>6, <1>7, <1>8, <1>9 DEF WaitExit

(* A gateway that boots relabels every running row, or lost that write; a  *)
(* gateway that is gone has no callers.                                    *)
LEMMA GatewayKeepsBacked ==
    ASSUME PhantomInv, TypeOK', ReconcileStartup \/ Shutdown \/ Crash
    PROVE  PhantomInv'
<1>1. TypeOK /\ Launches /\ RowsBacked
  BY DEF PhantomInv
<1>2. CASE ReconcileStartup
  <2>1. UNCHANGED <<pc, cid, crun, runOf, wpc>>
    BY <1>2 DEF ReconcileStartup, callVars, runVars
  <2>2. Launches'
    BY <1>1, <2>1 DEF Launches
  <2>3. faults' = MaxFaults => row' = [id \in Ids |-> Reconciled(row[id])]
    BY <1>1, <1>2, BoundsAssumption DEF ReconcileStartup, TypeOK, DbTypeOK
  <2>4. faults' = MaxFaults => \A id \in Ids : row'[id] # "running"
    BY <2>3 DEF Reconciled, Live
  <2>5. RowsBacked'
    BY <2>4 DEF RowsBacked
  <2> QED
    BY <2>2, <2>5 DEF PhantomInv
<1>3. CASE Sigterm \/ ShutdownBegin \/ ShutdownKill
  <2>1. UNCHANGED <<pc, cid, crun, runOf, wpc, row, faults>> /\ Up
    BY <1>3 DEF Sigterm, ShutdownBegin, ShutdownKill, callVars, runVars, dbVars, Up
  <2> QED
    BY <1>1, <2>1 DEF PhantomInv, Launches, RowsBacked, Backs
<1>4. CASE GatewayGone
  <2>1. ~Up' /\ \A d \in Callers : pc'[d] = "idle" /\ crun'[d] = NoRun
    BY <1>4 DEF GatewayGone, Up, AllCallers
  <2> QED
    BY <2>1 DEF PhantomInv, Launches, RowsBacked
<1> QED
  BY <1>2, <1>3, <1>4 DEF Shutdown, ShutdownDone, Crash

(* Every other step of a caller.                                           *)
LEMMA CallerKeepsBacked ==
    ASSUME PhantomInv, TypeOK', NEW c \in Callers, Begin(c) \/ CallerStep(c) \/ StopCancelled(c)
    PROVE  PhantomInv'
<1>1. /\ TypeOK /\ Launches /\ RowsBacked
      /\ DOMAIN pc = Callers /\ DOMAIN cid = Callers /\ DOMAIN crun = Callers
  BY DEF PhantomInv, TypeOK, CallTypeOK
<1>2. CASE Begin(c)
  <2>1. PICK o \in AllOps, id \in Ids, p \in Pcs \ {"persist", "install"},
             a \in Accounts \X Accounts : Enter(c, o, id, p, a)
    BY <1>2, PcFacts, SomeAccountFact DEF AllOps, SpawnOps, Begin, BeginStart, BeginStop, BeginRemove, BeginResume, BeginCreate, BeginSwitch
  <2>2. UNCHANGED <<row, faults, gw, runOf, wpc>>
    BY <1>2 DEF Begin, BeginStart, BeginStop, BeginRemove, BeginResume, BeginCreate, BeginSwitch,
                dbVars, memVars, runVars
  <2>3. /\ pc[c] = "idle" /\ UNCHANGED crun
        /\ \A d \in Callers : d # c => pc'[d] = pc[d] /\ cid'[d] = cid[d]
        /\ pc'[c] \notin {"persist", "install"}
    BY <1>1, <2>1 DEF Enter
  <2>4. Launches' /\ \A r \in Runs : Backs(r) => Backs(r)'
    BY <1>1, <2>2, <2>3 DEF Launches, Backs
  <2> QED
    BY <1>1, <2>2, <2>4 DEF PhantomInv, RowsBacked, Up
<1>3. ASSUME SpawnFails(c), pc[c] \in {"prepare", "launch"}, UNCHANGED <<row, faults, gw, runOf, wpc>>
      PROVE  PhantomInv'
  <2>1. BystanderMove(c)
    BY <1>3, PcFacts DEF BystanderMove, SpawnFails
  <2> QED
    BY <2>1, BystanderPreserves
<1>4. CASE Prepare(c)
  <2>1. CASE SpawnFails(c)
    BY <1>3, <1>4, <2>1 DEF Prepare, dbVars, memVars, runVars
  <2>2. CASE ~SpawnFails(c)
    <3>1. BystanderMove(c)
      BY <1>4, <2>2, PcFacts DEF Prepare, BystanderMove, dbVars, memVars, runVars
    <3> QED
      BY <3>1, BystanderPreserves
  <2> QED
    BY <2>1, <2>2
<1>5. CASE PtyStart(c)
  <2>1. CASE SpawnFails(c) /\ UNCHANGED runVars
    BY <1>3, <1>5, <2>1 DEF PtyStart, dbVars, memVars, runVars
  <2>2. CASE ~(SpawnFails(c) /\ UNCHANGED runVars)
    BY <1>5, <2>2, LaunchKeepsBacked DEF PtyStart
  <2> QED
    BY <2>1, <2>2
<1>6. CASE Persist(c)
  BY <1>6, PersistBacks, PersistFailsBacked DEF Persist
<1>7. CASE Install(c)
  BY <1>7, InstallKeepsBacked
<1>8. CASE TryReserveStart(c) \/ StartGet(c) \/ Release(c)
  <2>1. BystanderMove(c)
    BY <1>8, PcFacts DEF TryReserveStart, StartGet, Release, BystanderMove, dbVars, memVars, runVars
  <2> QED
    BY <2>1, BystanderPreserves
<1>9. CASE StopLookup(c) \/ StopGet(c) \/ StopMark(c) \/ StopTimeout(c) \/ StopEnded(c) \/ StopReturns(c) \/ StopCancelled(c)
  <2>1. BystanderMove(c)
    BY <1>9, PcFacts DEF StopLookup, StopGet, StopMark, StopTimeout, StopEnded, StopReturns, StopCancelled,
       BystanderMove, dbVars, memVars, runVars
  <2> QED
    BY <2>1, BystanderPreserves
<1>10. CASE StopStale(c) \/ Delete(c)
  <2>1. DOMAIN row = Ids
    BY <1>1 DEF TypeOK, DbTypeOK
  <2>2. \A id \in Ids : row'[id] = "running" => row[id] = "running"
    BY <1>10, <2>1 DEF StopStale, Delete, MarkedTerminal, RowStates, Terminal
  <2>3. BystanderMove(c)
    BY <1>10, <2>2, PcFacts DEF StopStale, Delete, BystanderMove, memVars, runVars
  <2> QED
    BY <2>3, BystanderPreserves
<1>11. CASE RemoveGet(c) \/ SwitchGet(c) \/ SwitchRow(c) \/ SwitchPersist(c)
  <2>1. BystanderMove(c)
    BY <1>11, PcFacts DEF RemoveGet, SwitchGet, SwitchRow, SwitchPersist, BystanderMove, dbVars, memVars, runVars
  <2> QED
    BY <2>1, BystanderPreserves
<1> QED
  BY <1>2, <1>4, <1>5, <1>6, <1>7, <1>8, <1>9, <1>10, <1>11 DEF CallerStep

(* The invariant is inductive.                                             *)
LEMMA PhantomNext == PhantomInv /\ [Next]_vars => PhantomInv'
<1> SUFFICES ASSUME PhantomInv, [Next]_vars PROVE PhantomInv'
  OBVIOUS
<1>1. TypeOK'
  BY TypeNext DEF PhantomInv
<1>2. CASE UNCHANGED vars
  BY <1>1, <1>2 DEF PhantomInv, Launches, RowsBacked, Backs, Up, vars, dbVars, memVars, runVars, callVars
<1> QED
  BY <1>1, <1>2, CallerKeepsBacked, WaitExitKeepsBacked, GatewayKeepsBacked DEF Next

(* Persist, waitExit, ReconcileStartup: whatever is stopped, fails to      *)
(* start, crashes or boots again, with any number of sessions, callers and *)
(* account switches, a row says running only if a run stands behind it.    *)
THEOREM NoPhantoms == Spec => []NoPhantomRunning
<1>1. Spec => []PhantomInv
  BY PhantomInit, PhantomNext, PTL DEF Spec
<1> QED
  BY <1>1, BackedMeansNoPhantom, PTL

(***************************************************************************)
(* A user stop wins.  The request is a mark on the session id, consumed by *)
(* the next exit of any run of that id; that the run which was asked to    *)
(* stop is the one that consumes it needs OneProcessInv.                   *)
(***************************************************************************)

StopWaits == {"stop_mark", "stop_wait", "stop_kill_wait"}

(* What has become of the request, at each place of the exit detector.     *)
StopHeard ==
    \A r \in Runs :
      /\ asked[r] => wpc[r] \in Tracked
      /\ asked[r] /\ wpc[r] = "wait" => runOf[r] \in stopReq
      /\ asked[r] /\ wpc[r] = "classify" => stopFlag[r]
      /\ asked[r] /\ wpc[r] \in {"mark", "set"} => final[r] = "stopped"
      /\ final[r] # "none" => wpc[r] \in {"mark", "set"}

(* A Stop that waits names a run of its own session.                       *)
StopNames ==
    \A c \in Callers :
      /\ crs[c] # NoRun <=> pc[c] \in StopWaits
      /\ crs[c] # NoRun => wpc[crs[c]] = "free" \/ runOf[crs[c]] = cid[c]

UserStopInv == OneProcessInv /\ StopHeard /\ StopNames

(* Only a run nobody names is filled in again.                             *)
RunsKept ==
    \A r \in Runs : \/ wpc'[r] = "free"
                    \/ runOf'[r] = runOf[r] /\ wpc[r] # "free"
                    \/ wpc[r] = "free" /\ \A c \in Callers : crs[c] # r

OthersStay(c) ==
    \A d \in Callers \ {c} : pc'[d] = pc[d] /\ cid'[d] = cid[d] /\ crs'[d] = crs[d]

(* At first nobody waits for a stop.                                       *)
LEMMA StopInit == Init => StopHeard /\ StopNames
<1> SUFFICES ASSUME Init PROVE StopHeard /\ StopNames
  OBVIOUS
<1>1. \A r \in Runs : final[r] = "none" /\ ~asked[r]
  BY DEF Init, AllRuns
<1>2. \A c \in Callers : crs[c] = NoRun /\ pc[c] = "idle"
  BY DEF Init, AllCallers
<1>3. QED
  BY <1>1, <1>2 DEF StopHeard, StopNames, StopWaits

(* Steps that leave the runs alone and withdraw no request.                *)
LEMMA HeardStays ==
    ASSUME StopHeard, UNCHANGED runVars, stopReq \subseteq stopReq'
    PROVE  StopHeard'
  BY DEF StopHeard, runVars

(* A caller outside the waits of Stop that does not enter them.            *)
LEMMA NamesStay ==
    ASSUME TypeOK, StopNames, RunsKept, NEW c \in Callers, OthersStay(c),
           pc[c] \notin StopWaits, pc'[c] \notin StopWaits, crs'[c] \in {crs[c], NoRun}
    PROVE  StopNames'
<1>1. \A d \in Callers : crs[d] \in Runs \union {NoRun}
  BY DEF TypeOK, CallTypeOK
<1>2. crs'[c] = NoRun
  BY DEF StopNames
<1>3. ASSUME NEW d \in Callers, d # c
      PROVE  /\ crs'[d] # NoRun <=> pc'[d] \in StopWaits
             /\ crs'[d] # NoRun => wpc'[crs'[d]] = "free" \/ runOf'[crs'[d]] = cid'[d]
  BY <1>1, <1>3 DEF StopNames, RunsKept, OthersStay
<1>4. QED
  BY <1>2, <1>3 DEF StopNames

(* A step that touches no run leaves every run running.                    *)
LEMMA StillRunsKept ==
    ASSUME UNCHANGED <<runOf, wpc>>
    PROVE  RunsKept
  BY DEF RunsKept

(* Nothing changes.                                                        *)
LEMMA StopNextSame == StopHeard /\ StopNames /\ UNCHANGED vars => StopHeard' /\ StopNames'
  BY DEF StopHeard, StopNames, vars, runVars, memVars, callVars

(* A call that is over or fails waits for nothing.                         *)
LEMMA ReturnAside ==
    ASSUME CallTypeOK, NEW c \in Callers, Return(c)
    PROVE  OthersStay(c) /\ pc'[c] \notin StopWaits /\ crs'[c] = NoRun
  BY DEF CallTypeOK, Return, OthersStay, StopWaits

(* A call moves on.                                                        *)
LEMMA GotoAside ==
    ASSUME CallTypeOK, NEW c \in Callers, NEW p \in Pcs \ StopWaits, Goto(c, p),
           UNCHANGED <<cid, crs>>
    PROVE  OthersStay(c) /\ pc'[c] \notin StopWaits /\ crs'[c] \in {crs[c], NoRun}
  BY DEF CallTypeOK, Goto, OthersStay, StopWaits

(* A spawn fails.                                                          *)
LEMMA SpawnFailsAside ==
    ASSUME CallTypeOK, NEW c \in Callers, SpawnFails(c)
    PROVE  OthersStay(c) /\ pc'[c] \notin StopWaits /\ crs'[c] \in {crs[c], NoRun}
<1>1. {"release", "prepare"} \subseteq Pcs \ StopWaits
  BY PcFacts DEF StopWaits
<1>2. QED
  BY <1>1, ReturnAside, GotoAside DEF SpawnFails

(* The calls that leave every run alone and do not wait.                   *)
AsideSteps(c) ==
    \/ Begin(c) \/ TryReserveStart(c) \/ StartGet(c) \/ Release(c) \/ Prepare(c)
    \/ StopGet(c) \/ StopStale(c) \/ StopReturns(c)
    \/ RemoveGet(c) \/ Delete(c) \/ SwitchGet(c) \/ SwitchRow(c) \/ SwitchPersist(c)

(* Steps outside the wait of a Stop.                                       *)
LEMMA AsidePreserves ==
    ASSUME TypeOK, StopHeard, StopNames, NEW c \in Callers, AsideSteps(c)
    PROVE  StopHeard' /\ StopNames'
<1>1. CallTypeOK
  BY DEF TypeOK
<1>2. UNCHANGED <<runVars, stopReq>>
  BY DEF AsideSteps, Begin, BeginStart, BeginStop, BeginRemove, BeginResume, BeginCreate,
         BeginSwitch, TryReserveStart, StartGet, Release, Prepare, StopGet, StopStale,
         StopReturns, RemoveGet, Delete, SwitchGet, SwitchRow, SwitchPersist, memVars
<1>3. pc[c] \notin StopWaits
  BY DEF AsideSteps, Begin, BeginStart, BeginStop, BeginRemove, BeginResume, BeginCreate,
         BeginSwitch, Enter, TryReserveStart, StartGet, Release, Prepare, StopGet, StopStale,
         StopReturns, RemoveGet, Delete, SwitchGet, SwitchRow, SwitchPersist, StopWaits
<1>4. OthersStay(c) /\ pc'[c] \notin StopWaits /\ crs'[c] \in {crs[c], NoRun}
  <2>1. CASE Begin(c)
    <3>1. PICK o \in AllOps, id \in Ids, p \in {"prepare", "reserve", "stop_lookup", "remove_get", "switch_get"},
               a \in Accounts \X Accounts : Enter(c, o, id, p, a)
      BY <2>1, PcFacts, SomeAccountFact
         DEF AllOps, SpawnOps, SwitchOps, ReserveOps, Begin, BeginStart, BeginStop, BeginRemove,
             BeginResume, BeginCreate, BeginSwitch
    <3>2. QED
      BY <1>1, <3>1 DEF Enter, CallTypeOK, OthersStay, StopWaits
  <2>2. \A p \in {"get", "prepare", "launch", "release", "stop_ok", "stop_stale", "stop_lookup"} :
           p \in Pcs \ StopWaits
    BY PcFacts DEF StopWaits
  <2>3. CASE TryReserveStart(c) \/ StartGet(c) \/ Release(c)
    BY <1>1, <2>2, <2>3, ReturnAside, GotoAside DEF TryReserveStart, StartGet, Release
  <2>4. CASE Prepare(c)
    BY <1>1, <2>2, <2>4, SpawnFailsAside, GotoAside DEF Prepare
  <2>5. CASE StopGet(c) \/ StopStale(c) \/ StopReturns(c)
    BY <1>1, <2>2, <2>5, ReturnAside, GotoAside DEF StopGet, StopStale, StopReturns
  <2>6. CASE RemoveGet(c) \/ Delete(c)
    BY <1>1, <2>2, <2>6, ReturnAside, GotoAside DEF RemoveGet, Delete
  <2>7. CASE SwitchGet(c) \/ SwitchRow(c) \/ SwitchPersist(c)
    BY <1>1, <2>2, <2>7, ReturnAside, GotoAside DEF SwitchGet, SwitchRow, SwitchPersist
  <2>8. QED
    BY <2>1, <2>3, <2>4, <2>5, <2>6, <2>7 DEF AsideSteps
<1>5. RunsKept
  BY <1>2, StillRunsKept DEF runVars
<1>6. QED
  BY <1>2, <1>3, <1>4, <1>5, HeardStays, NamesStay

(* A step of Stop that leaves the runs alone: c names a run of its session *)
(* while it waits, and nobody else moves.                                  *)
LEMMA StopWaitsName ==
    ASSUME TypeOK, StopNames, NEW c \in Callers, OthersStay(c), UNCHANGED <<runOf, wpc>>,
           crs'[c] # NoRun <=> pc'[c] \in StopWaits,
           crs'[c] # NoRun => wpc[crs'[c]] = "free" \/ runOf[crs'[c]] = cid'[c]
    PROVE  StopNames'
  BY DEF StopNames, OthersStay

(* The steps of Stop.                                                      *)
LEMMA StopPathPreserves ==
    ASSUME OneProcessInv, StopHeard, StopNames, NEW c \in Callers,
           StopLookup(c) \/ StopMark(c) \/ StopTimeout(c) \/ StopEnded(c) \/ StopCancelled(c)
    PROVE  StopHeard' /\ StopNames'
<1>1. TypeOK /\ CallTypeOK /\ LiveMap /\ StopNames
  BY DEF OneProcessInv, TypeOK
<1>2. /\ DOMAIN pc = Callers /\ DOMAIN crs = Callers /\ DOMAIN asked = Runs
      /\ crs[c] \in Runs \union {NoRun}
      /\ \A id \in Ids : sessions[id] \in Runs \union {NoRun}
      /\ pc[c] # "idle" => cid[c] \in Ids
      /\ NoRun \notin Runs
  BY <1>1, ConstantsAssumption DEF TypeOK, CallTypeOK, RunTypeOK, MemTypeOK
<1>3. CASE StopLookup(c)
  <2>1. OthersStay(c) /\ UNCHANGED <<runVars, stopReq, cid>>
    BY <1>2, <1>3 DEF StopLookup, Goto, OthersStay, memVars
  <2>2. StopHeard'
    BY <2>1, HeardStays
  <2>3. /\ crs[c] = NoRun /\ cid[c] \in Ids
        /\ \/ crs'[c] = NoRun /\ pc'[c] \in {"stop_get", "stop_ok"}
           \/ /\ crs'[c] = sessions[cid[c]] /\ crs'[c] # NoRun
              /\ pc'[c] = "stop_mark"
    BY <1>1, <1>2, <1>3 DEF StopLookup, Goto, StopNames, StopWaits
  <2>4. crs'[c] # NoRun => runOf[crs'[c]] = cid'[c]
    BY <1>1, <1>2, <2>1, <2>3 DEF LiveMap
  <2>5. StopNames'
    BY <1>1, <2>1, <2>3, <2>4, StopWaitsName DEF runVars, StopWaits
  <2>6. QED
    BY <2>2, <2>5
<1>4. CASE StopMark(c)
  <2>1. /\ OthersStay(c)
        /\ UNCHANGED <<runOf, wpc, stopFlag, final, cid, crs>>
        /\ stopReq' = stopReq \union {cid[c]}
        /\ pc[c] = "stop_mark" /\ pc'[c] = "stop_wait"
    BY <1>2, <1>4 DEF StopMark, Goto, OthersStay
  <2>2. crs[c] \in Runs /\ (wpc[crs[c]] = "free" \/ runOf[crs[c]] = cid[c])
    BY <1>1, <1>2, <2>1 DEF StopNames, StopWaits
  <2>3. \A r \in Runs : asked'[r] => asked[r] \/ (r = crs[c] /\ wpc[r] = "wait")
    BY <1>2, <1>4, <2>2, Zenon DEF StopMark
  <2>4. \A r \in Runs : asked'[r] => asked[r] \/ (wpc[r] = "wait" /\ runOf[r] = cid[c])
    BY <2>2, <2>3
  <2>5. StopHeard'
    BY <2>1, <2>4 DEF StopHeard, Tracked
  <2>6. StopNames'
    BY <1>1, <2>1, <2>2, StopWaitsName DEF StopWaits, StopNames
  <2>7. QED
    BY <2>5, <2>6
<1>5. CASE StopTimeout(c)
  <2>1. /\ OthersStay(c)
        /\ UNCHANGED <<runOf, wpc, stopFlag, final, asked, stopReq, cid, crs>>
        /\ pc[c] = "stop_wait" /\ pc'[c] = "stop_kill_wait"
    BY <1>2, <1>5 DEF StopTimeout, Goto, OthersStay, memVars
  <2>2. StopHeard'
    BY <2>1 DEF StopHeard
  <2>3. StopNames'
    BY <1>1, <2>1, StopWaitsName DEF StopWaits, StopNames
  <2>4. QED
    BY <2>2, <2>3
<1>6. CASE StopEnded(c) \/ StopCancelled(c)
  <2>1. UNCHANGED <<runVars, stopReq>>
    BY <1>6 DEF StopEnded, StopCancelled, memVars
  <2>2. OthersStay(c) /\ pc'[c] \notin StopWaits /\ crs'[c] = NoRun
    <3>1. CASE StopEnded(c)
      BY <1>2, <3>1 DEF StopEnded, Goto, OthersStay, StopWaits
    <3>2. CASE StopCancelled(c)
      BY <1>1, <3>2, ReturnAside DEF StopCancelled
    <3>3. QED
      BY <1>6, <3>1, <3>2
  <2>3. StopHeard'
    BY <2>1, HeardStays
  <2>4. StopNames'
    BY <1>1, <2>1, <2>2, StopWaitsName DEF runVars
  <2>5. QED
    BY <2>3, <2>4
<1>7. QED
  BY <1>3, <1>4, <1>5, <1>6

(* pty.Start, the write that follows it, and the entry into the live map.  *)
LEMMA SpawnPathPreserves ==
    ASSUME OneProcessInv, StopHeard, StopNames, NEW c \in Callers,
           PtyStart(c) \/ Persist(c) \/ Install(c)
    PROVE  StopHeard' /\ StopNames'
<1>1. TypeOK /\ CallTypeOK /\ RunTypeOK /\ CallerShape
  BY DEF OneProcessInv, TypeOK
<1>2. /\ DOMAIN wpc = Runs /\ DOMAIN runOf = Runs /\ DOMAIN asked = Runs
      /\ DOMAIN stopFlag = Runs /\ DOMAIN final = Runs
      /\ crun[c] \in Runs \union {NoRun}
      /\ NoRun \notin Runs
      /\ {"persist", "install", "release", "switch_persist"} \subseteq Pcs \ StopWaits
  BY <1>1, ConstantsAssumption, PcFacts DEF TypeOK, CallTypeOK, RunTypeOK, StopWaits
<1>3. pc[c] \in {"launch", "persist", "install"} /\ UNCHANGED stopReq
  BY DEF PtyStart, Persist, Install, memVars
<1>4. pc[c] \notin StopWaits
  BY <1>3 DEF StopWaits
<1>5. CASE PtyStart(c)
  <2>1. CASE SpawnFails(c) /\ UNCHANGED runVars
    <3>1. RunsKept
      BY <2>1, StillRunsKept DEF runVars
    <3>2. OthersStay(c) /\ pc'[c] \notin StopWaits /\ crs'[c] \in {crs[c], NoRun}
      BY <1>1, <2>1, SpawnFailsAside
    <3>3. QED
      BY <1>1, <1>3, <1>4, <2>1, <3>1, <3>2, HeardStays, NamesStay
  <2>2. ASSUME NEW r \in FreeRuns, LaunchRun(c, r), Goto(c, "persist"), UNCHANGED <<cid, crs>>
        PROVE  StopHeard' /\ StopNames'
    <3>1. r \in Runs /\ wpc[r] = "free" /\ \A d \in Callers : crs[d] # r
      BY DEF FreeRuns
    <3>2. /\ UNCHANGED <<stopFlag, final, asked>> /\ wpc'[r] = "launched"
          /\ \A s \in Runs : s # r => wpc'[s] = wpc[s] /\ runOf'[s] = runOf[s]
      BY <1>2, <2>2, <3>1 DEF LaunchRun
    <3>3. RunsKept
      BY <3>1, <3>2 DEF RunsKept
    <3>4. StopHeard'
      BY <1>3, <3>1, <3>2 DEF StopHeard, Tracked
    <3>5. OthersStay(c) /\ pc'[c] \notin StopWaits /\ crs'[c] \in {crs[c], NoRun}
      BY <1>1, <1>2, <2>2, GotoAside
    <3>6. QED
      BY <1>1, <1>4, <3>3, <3>4, <3>5, NamesStay
  <2>3. QED
    BY <1>5, <2>1, <2>2 DEF PtyStart
<1>6. CASE Persist(c)
  <2>1. CASE UNCHANGED runVars /\ Goto(c, "install") /\ UNCHANGED <<cid, crs>>
    <3>1. RunsKept
      BY <2>1, StillRunsKept DEF runVars
    <3>2. OthersStay(c) /\ pc'[c] \notin StopWaits /\ crs'[c] \in {crs[c], NoRun}
      BY <1>1, <1>2, <2>1, GotoAside
    <3>3. QED
      BY <1>1, <1>3, <1>4, <2>1, <3>1, <3>2, HeardStays, NamesStay
  <2>2. CASE ForgetRun(crun[c]) /\ SpawnFails(c)
    <3> DEFINE r == crun[c]
    <3>1. \A s \in Runs : s # r => /\ wpc'[s] = wpc[s] /\ runOf'[s] = runOf[s]
                                   /\ stopFlag'[s] = stopFlag[s] /\ final'[s] = final[s]
                                   /\ asked'[s] = asked[s]
      BY <1>2, <2>2 DEF ForgetRun
    <3>2. r \in Runs => wpc'[r] = "free" /\ final'[r] = "none"
      BY <1>2, <2>2 DEF ForgetRun
    <3>3. r \in Runs => ~asked'[r]
      BY <1>2, <2>2, Zenon DEF ForgetRun
    <3> HIDE DEF r
    <3>4. RunsKept
      BY <3>1, <3>2 DEF RunsKept
    <3>5. StopHeard'
      BY <1>3, <3>1, <3>2, <3>3 DEF StopHeard
    <3>6. OthersStay(c) /\ pc'[c] \notin StopWaits /\ crs'[c] \in {crs[c], NoRun}
      BY <1>1, <2>2, SpawnFailsAside
    <3>7. QED
      BY <1>1, <1>4, <3>4, <3>5, <3>6, NamesStay
  <2>3. QED
    BY <1>6, <2>1, <2>2 DEF Persist
<1>7. CASE Install(c)
  <2>1. crun[c] \in Runs /\ wpc[crun[c]] = "launched"
    BY <1>1, <1>2, <1>7 DEF Install, CallerShape
  <2>2. ~asked[crun[c]]
    BY <2>1 DEF StopHeard, Tracked
  <2>3. /\ UNCHANGED <<runOf, stopFlag, final, asked>> /\ wpc'[crun[c]] = "wait"
        /\ \A s \in Runs : s # crun[c] => wpc'[s] = wpc[s]
    BY <1>2, <1>7, <2>1 DEF Install
  <2>4. RunsKept
    BY <2>1, <2>3 DEF RunsKept
  <2>5. StopHeard'
    BY <1>3, <2>1, <2>2, <2>3 DEF StopHeard, Tracked
  <2>6. OthersStay(c) /\ pc'[c] \notin StopWaits /\ crs'[c] \in {crs[c], NoRun}
    <3>1. CASE Return(c)
      BY <1>1, <3>1, ReturnAside
    <3>2. CASE (Goto(c, "release") \/ Goto(c, "switch_persist")) /\ UNCHANGED <<cid, crs>>
      BY <1>1, <1>2, <3>2, GotoAside
    <3>3. QED
      BY <1>7, <3>1, <3>2 DEF Install
  <2>7. QED
    BY <1>1, <1>4, <2>4, <2>5, <2>6, NamesStay
<1>8. QED
  BY <1>5, <1>6, <1>7

(* The exit detector.  The request waits for the run it was made for,      *)
(* because that run is the only tracked one of its session.                *)
LEMMA DetectorPreserves ==
    ASSUME OneProcessInv, StopHeard, StopNames, NEW r \in Runs, ProcExit(r) \/ WaitExit(r)
    PROVE  StopHeard' /\ StopNames'
<1>1. TypeOK /\ RunTypeOK /\ RunShape
  BY DEF OneProcessInv, TypeOK
<1>2. /\ DOMAIN wpc = Runs /\ DOMAIN runOf = Runs /\ DOMAIN asked = Runs
      /\ DOMAIN stopFlag = Runs /\ DOMAIN final = Runs
      /\ \A c \in Callers : crs[c] \in Runs \union {NoRun}
  BY <1>1 DEF TypeOK, CallTypeOK, RunTypeOK
<1>3. UNCHANGED callVars
  BY DEF ProcExit, WaitExit, ConsumeStopRequest, Classify, MarkRow, SetState, Cleanup, Drop
<1>4. /\ \A s \in Runs : s # r => wpc'[s] = wpc[s] /\ runOf'[s] = runOf[s]
      /\ \/ wpc'[r] = "free"
         \/ runOf'[r] = runOf[r] /\ (wpc[r] = "free" => wpc'[r] = "free")
  BY <1>2 DEF ProcExit, WaitExit, ConsumeStopRequest, Classify, MarkRow, SetState, Cleanup,
              Drop, ForgetRun
<1>5. StopNames'
  BY <1>2, <1>3, <1>4 DEF StopNames, callVars
<1>6. CASE ProcExit(r)
  <2>1. UNCHANGED <<runOf, wpc, stopFlag, final, asked, stopReq>>
    BY <1>6 DEF ProcExit, memVars
  <2>2. QED
    BY <1>5, <2>1 DEF StopHeard
<1>7. CASE ConsumeStopRequest(r)
  <2>1. /\ UNCHANGED <<runOf, final, asked>>
        /\ stopReq' = stopReq \ {runOf[r]}
        /\ wpc[r] = "wait" /\ wpc'[r] = "classify"
        /\ \A s \in Runs : s # r => wpc'[s] = wpc[s]
    BY <1>2, <1>7 DEF ConsumeStopRequest
  <2>2. \A s \in Runs : s # r => stopFlag'[s] = stopFlag[s]
    BY <1>2, <1>7 DEF ConsumeStopRequest
  <2>3. runOf[r] \in stopReq => stopFlag'[r]
    BY <1>2, <1>7, Zenon DEF ConsumeStopRequest
  <2>4. \A s \in Runs : s # r /\ wpc[s] = "wait" => runOf[s] # runOf[r]
    BY <1>1, <2>1 DEF RunShape, Tracked
  <2>5. StopHeard'
    BY <2>1, <2>2, <2>3, <2>4 DEF StopHeard, Tracked
  <2>6. QED
    BY <1>5, <2>5
<1>8. CASE Classify(r)
  <2>1. /\ UNCHANGED <<runOf, asked, stopReq>>
        /\ wpc[r] = "classify" /\ wpc'[r] = "mark"
        /\ \A s \in Runs : s # r => wpc'[s] = wpc[s] /\ final'[s] = final[s]
    BY <1>2, <1>8 DEF Classify, memVars
  <2>2. \A s \in Runs : s # r => stopFlag'[s] = stopFlag[s]
    BY <1>2, <1>8 DEF Classify
  <2>3. final'[r] = ClassifyExitState(stopFlag[r], Closed)
    BY <1>2, <1>8 DEF Classify
  <2>4. stopFlag[r] => final'[r] = "stopped"
    BY <2>3, ClassifyFacts
  <2>5. StopHeard'
    BY <2>1, <2>2, <2>4 DEF StopHeard, Tracked
  <2>6. QED
    BY <1>5, <2>5
<1>9. CASE MarkRow(r)
  <2>1. /\ UNCHANGED <<runOf, asked, stopReq, final, stopFlag>>
        /\ wpc[r] = "mark" /\ wpc'[r] = "set"
        /\ \A s \in Runs : s # r => wpc'[s] = wpc[s]
    BY <1>2, <1>9 DEF MarkRow, memVars
  <2>2. QED
    BY <1>5, <2>1 DEF StopHeard, Tracked
<1>10. CASE SetState(r) \/ Cleanup(r) \/ Drop(r)
  <2>1. /\ \A s \in Runs : s # r => /\ wpc'[s] = wpc[s] /\ runOf'[s] = runOf[s]
                                    /\ final'[s] = final[s]
        /\ wpc[r] \in {"set", "cleanup", "drop"} /\ wpc'[r] \in {"cleanup", "drop", "free"}
        /\ wpc[r] = "set" \/ final[r] = "none" => final'[r] = "none"
        /\ UNCHANGED stopReq
    BY <1>2, <1>10 DEF SetState, Cleanup, Drop, ForgetRun, memVars
  <2>2. \A s \in Runs : s # r => stopFlag'[s] = stopFlag[s] /\ asked'[s] = asked[s]
    BY <1>2, <1>10 DEF SetState, Cleanup, Drop, ForgetRun
  <2>3. asked'[r] => asked[r] /\ wpc[r] # "set"
    BY <1>2, <1>10, Zenon DEF SetState, Cleanup, Drop, ForgetRun
  <2>4. StopHeard'
    BY <2>1, <2>2, <2>3 DEF StopHeard, Tracked
  <2>5. QED
    BY <1>5, <2>4
<1>11. QED
  BY <1>5, <1>6, <1>7, <1>8, <1>9, <1>10 DEF WaitExit

(* The gateway: with its memory the marks go.                              *)
LEMMA GatewayPreservesStop ==
    ASSUME TypeOK, StopHeard, StopNames, ReconcileStartup \/ Shutdown \/ Crash
    PROVE  StopHeard' /\ StopNames'
<1>1. CASE ReconcileStartup \/ Sigterm \/ ShutdownBegin \/ ShutdownKill
  <2>1. UNCHANGED <<runOf, wpc, stopFlag, final, asked, stopReq, callVars>>
    BY <1>1 DEF ReconcileStartup, Sigterm, ShutdownBegin, ShutdownKill, runVars
  <2>2. QED
    BY <2>1 DEF StopHeard, StopNames, callVars
<1>2. CASE GatewayGone
  <2>1. \A s \in Runs : final'[s] = "none" /\ ~asked'[s]
    BY <1>2 DEF GatewayGone, AllRuns
  <2>2. \A c \in Callers : crs'[c] = NoRun /\ pc'[c] = "idle"
    BY <1>2 DEF GatewayGone, AllCallers
  <2>3. QED
    BY <2>1, <2>2 DEF StopHeard, StopNames, StopWaits
<1>3. QED
  BY <1>1, <1>2 DEF Shutdown, ShutdownDone, Crash

(* The invariant is inductive.                                             *)
LEMMA UserStopNext ==
    ASSUME ReservedSpawnsOnly
    PROVE  UserStopInv /\ [Next]_vars => UserStopInv'
<1> SUFFICES ASSUME UserStopInv, [Next]_vars PROVE UserStopInv'
  OBVIOUS
<1>1. /\ OneProcessInv /\ StopHeard /\ StopNames /\ TypeOK
      /\ OneProcessInv'
  BY OneProcessNext DEF UserStopInv, OneProcessInv
<1>2. StopHeard' /\ StopNames'
  <2>1. ASSUME NEW c \in Callers, Begin(c) \/ CallerStep(c) \/ StopCancelled(c)
        PROVE  StopHeard' /\ StopNames'
    BY <1>1, <2>1, AsidePreserves, StopPathPreserves, SpawnPathPreserves
       DEF CallerStep, AsideSteps
  <2>2. CASE UNCHANGED vars
    BY <1>1, <2>2, StopNextSame
  <2>3. QED
    BY <1>1, <2>1, <2>2, DetectorPreserves, GatewayPreservesStop DEF Next
<1>3. QED
  BY <1>1, <1>2 DEF UserStopInv

(* A user stop that reached a run before its exit was classified wins over *)
(* a shutdown or a spontaneous exit that comes at the same time, for every *)
(* number of sessions, runs and callers, when spawns are reserved.  With   *)
(* account switches two runs of one session may share the mark, and the    *)
(* other one may consume it: OneProcessInv is what rules that out.         *)
THEOREM AskedStopsAreStopped ==
    ASSUME ReservedSpawnsOnly
    PROVE  Spec => []UserStopWins
<1>1. Init => UserStopInv
  BY OneProcessInit, StopInit DEF UserStopInv
<1>2. UserStopInv => UserStopWins
  BY DEF UserStopInv, StopHeard, UserStopWins
<1>3. QED
  BY <1>1, <1>2, UserStopNext, PTL DEF Spec

(***************************************************************************)
(* Stops, removals and account switches, for callers that do not call the  *)
(* same session twice at the same time.                                    *)
(***************************************************************************)

(* One caller is a special case, the one manager_sequential checks.  With  *)
(* two calls on one session the properties below fail: a Stop that comes   *)
(* between the write of a Start and its entry into the live map finds the  *)
(* map empty and the row running, and marks the row of a process that runs.*)
OneCallPerSession ==
    \A c, d \in Callers : pc[c] # "idle" /\ pc[d] # "idle" /\ cid[c] = cid[d] => c = d

(* Nobody else moves.                                                      *)
Bystanders(c) ==
    \A d \in Callers \ {c} :
      /\ pc'[d] = pc[d] /\ op'[d] = op[d] /\ cid'[d] = cid[d]
      /\ acct'[d] = acct[d] /\ crs'[d] = crs[d] /\ crun'[d] = crun[d]

(* From here to the end of its spawn, a call has found no tracked run.     *)
VacantPcs == {"get", "prepare", "launch", "persist", "install", "stop_get", "stop_stale", "stop_ok"}

(* Where a call can be, and what it may count on there: a spawn has its    *)
(* row and an empty place in the live map, a waiting Stop knows the run.   *)
Placed(c) ==
    /\ pc[c] \in SpawnPcs => op[c] \in SpawnOps
    /\ pc[c] \in {"reserve", "get", "release"} => op[c] \in ReserveOps
    /\ pc[c] \in {"switch_get", "switch_persist"} => op[c] \in SwitchOps
    /\ pc[c] \in StopPcs => op[c] \in SwitchOps \union {"stop", "remove"}
    /\ pc[c] = "remove_get" => op[c] = "remove"
    /\ pc[c] \in VacantPcs /\ sessions[cid[c]] # NoRun => wpc[sessions[cid[c]]] \notin Tracked
    /\ pc[c] \in StopWaits => sessions[cid[c]] \in {NoRun, crs[c]}
    /\ pc[c] \in {"prepare", "launch", "persist"} =>
         IF op[c] = "create" THEN sessions[cid[c]] = NoRun ELSE HasRow(cid[c])
    /\ pc[c] = "install" => row[cid[c]] = "running"

(* A tracked run is the one in the live map; while it waits for its exit   *)
(* its row says running.                                                   *)
RunsTracked ==
    /\ \A r \in Runs :
         /\ wpc[r] \in {"launched"} \union Tracked => rst[r] = "running"
         /\ wpc[r] \in Tracked => runOf[r] \in Ids /\ sessions[runOf[r]] = r
         /\ wpc[r] = "wait" => row[runOf[r]] = "running"
    /\ \A id \in Ids : sessions[id] # NoRun => row[id] # "none"
    /\ ~Up => \A r \in Runs : wpc[r] = "free"

TrackInv ==
    /\ PhantomInv /\ RunsTracked /\ LiveMap /\ QuietWhenDown
    /\ \A c \in Callers : Placed(c)

(* At first nothing runs and nobody calls.                                 *)
LEMMA TrackInit == Init => TrackInv
<1> SUFFICES ASSUME Init PROVE TrackInv
  OBVIOUS
<1>1. PhantomInv
  BY PhantomInit
<1>2. /\ \A c \in Callers : pc[c] = "idle"
      /\ \A r \in Runs : wpc[r] = "free"
      /\ \A id \in Ids : sessions[id] = NoRun
  BY DEF Init, AllCallers, AllRuns, NoSessions
<1>3. RunsTracked /\ LiveMap /\ QuietWhenDown
  BY <1>2 DEF RunsTracked, LiveMap, QuietWhenDown, Tracked
<1>4. \A c \in Callers : Placed(c)
  BY <1>2 DEF Placed, SpawnPcs, StopPcs, StopWaits, VacantPcs
<1> QED
  BY <1>1, <1>3, <1>4 DEF TrackInv

(* It implies what the runs check.                                         *)
LEMMA TrackedHasRow == TrackInv => RowTracksProcess /\ NoGhost
  BY DEF TrackInv, RunsTracked, RowTracksProcess, NoGhost, HasRow, RowStates

(* What the live map names is not a run that is free or being launched.    *)
LEMMA MapNamesRuns ==
    ASSUME TrackInv, NEW id \in Ids, sessions[id] # NoRun
    PROVE  sessions[id] \in Runs /\ wpc[sessions[id]] \notin {"free", "launched"}
  BY DEF TrackInv, PhantomInv, TypeOK, MemTypeOK, LiveMap, Tracked

(* A call that is under way has an id, and the gateway is up.              *)
LEMMA InCall ==
    ASSUME TrackInv, NEW c \in Callers, pc[c] # "idle"
    PROVE  cid[c] \in Ids /\ Up
  BY DEF TrackInv, PhantomInv, TypeOK, CallTypeOK, QuietWhenDown, Up

(* A call that is over counts on nothing.                                  *)
LEMMA IdlePlaced == \A c \in Callers : pc[c] = "idle" => Placed(c)
  BY DEF Placed, SpawnPcs, StopPcs, StopWaits, VacantPcs

(* The same of the next state.                                             *)
LEMMA IdlePlacedNext == \A c \in Callers : pc'[c] = "idle" => Placed(c)'
  BY DEF Placed, SpawnPcs, StopPcs, StopWaits, VacantPcs

(* Calls that only read the live map, the rows and the runs.               *)
LEMMA CalmKeeps ==
    ASSUME TrackInv, PhantomInv', NEW c \in Callers, Bystanders(c), Up,
           UNCHANGED <<row, sessions, gw, runOf, rst, wpc>>, Placed(c)'
    PROVE  TrackInv'
<1>1. RunsTracked' /\ LiveMap' /\ QuietWhenDown'
  BY DEF TrackInv, RunsTracked, LiveMap, QuietWhenDown, Up
<1>2. ASSUME NEW d \in Callers, d # c PROVE Placed(d)'
  BY <1>2 DEF TrackInv, Placed, Bystanders, HasRow
<1> QED
  BY <1>1, <1>2 DEF TrackInv

(* Calls that write the row of their session, which has no tracked run.    *)
LEMMA RowMoveKeeps ==
    ASSUME TrackInv, PhantomInv', OneCallPerSession, NEW c \in Callers, pc[c] \in VacantPcs, Bystanders(c),
           NEW s, row' = [row EXCEPT ![cid[c]] = s], row[cid[c]] = "none" \/ s # "none",
           UNCHANGED <<sessions, gw, runOf, rst, wpc>>, Placed(c)'
    PROVE  TrackInv'
<1>1. cid[c] \in Ids /\ Up /\ DOMAIN row = Ids
  BY InCall DEF VacantPcs, TrackInv, PhantomInv, TypeOK, DbTypeOK
<1>2. RunsTracked'
  <2>1. ASSUME NEW r \in Runs, wpc[r] = "wait" PROVE row'[runOf[r]] = "running"
    <3>1. runOf[r] \in Ids /\ sessions[runOf[r]] = r /\ row[runOf[r]] = "running" /\ r # NoRun
      BY <2>1, ConstantsAssumption DEF TrackInv, RunsTracked, Tracked
    <3>2. runOf[r] # cid[c]
      BY <2>1, <3>1 DEF TrackInv, Placed, Tracked
    <3> QED
      BY <1>1, <3>1, <3>2
  <2> QED
    BY <1>1, <2>1 DEF TrackInv, RunsTracked, Up
<1>3. LiveMap' /\ QuietWhenDown'
  BY <1>1 DEF TrackInv, LiveMap, QuietWhenDown, Up
<1>4. ASSUME NEW d \in Callers, d # c, pc[d] # "idle" PROVE Placed(d)'
  <2>1. cid[d] # cid[c] /\ cid[d] \in Ids
    BY <1>4, InCall DEF OneCallPerSession, VacantPcs
  <2> QED
    BY <1>1, <1>4, <2>1 DEF TrackInv, Placed, Bystanders, HasRow
<1>5. ASSUME NEW d \in Callers, d # c, pc[d] = "idle" PROVE Placed(d)'
  BY <1>5, IdlePlacedNext DEF Bystanders
<1> QED
  BY <1>2, <1>3, <1>4, <1>5 DEF TrackInv

(* How the steps of a call end: it returns, moves on, or its spawn fails.  *)
LEMMA ReturnStands ==
    ASSUME CallTypeOK, NEW c \in Callers, Return(c)
    PROVE  Bystanders(c) /\ pc'[c] = "idle" /\ op'[c] = "none"
  BY DEF CallTypeOK, Return, Bystanders

(* It moves on: its other fields may be written on the way.                *)
LEMMA GotoStands ==
    ASSUME CallTypeOK, NEW c \in Callers, NEW p, Goto(c, p),
           op' = op /\ cid' = cid,
           acct' = acct \/ \E a : acct' = [acct EXCEPT ![c] = a],
           crs' = crs \/ \E r : crs' = [crs EXCEPT ![c] = r],
           crun' = crun \/ \E r : crun' = [crun EXCEPT ![c] = r]
    PROVE  Bystanders(c) /\ pc'[c] = p
  BY DEF CallTypeOK, Goto, Bystanders

(* What SpawnFails leaves: nothing, a release, or one more spawn on the    *)
(* previous account.                                                       *)
LEMMA SpawnFailsStands ==
    ASSUME CallTypeOK, NEW c \in Callers, SpawnFails(c)
    PROVE  /\ Bystanders(c)
           /\ \/ pc'[c] = "idle"
              \/ pc'[c] = "release" /\ op[c] \in ReserveOps /\ UNCHANGED <<op, cid>>
              \/ /\ pc'[c] = "prepare" /\ op[c] = "switch_rollback" /\ UNCHANGED <<op, cid>>
                 /\ acct'[c] = <<acct[c][2], acct[c][2]>>
<1>1. CASE /\ op[c] \in ReserveOps
           /\ Goto(c, "release") /\ crun' = [crun EXCEPT ![c] = NoRun]
           /\ UNCHANGED <<op, cid, acct, crs>>
  BY <1>1, GotoStands
<1>2. CASE /\ RollsBack(c)
           /\ acct' = [acct EXCEPT ![c] = <<acct[c][2], acct[c][2]>>]
           /\ Goto(c, "prepare") /\ crun' = [crun EXCEPT ![c] = NoRun]
           /\ UNCHANGED <<op, cid, crs>>
  <2>1. Bystanders(c) /\ pc'[c] = "prepare" /\ UNCHANGED <<op, cid>>
    BY <1>2, GotoStands
  <2>2. op[c] = "switch_rollback" /\ acct'[c] = <<acct[c][2], acct[c][2]>>
    BY <1>2 DEF RollsBack, CallTypeOK
  <2> QED
    BY <2>1, <2>2
<1>3. CASE Return(c)
  BY <1>3, ReturnStands
<1> QED
  BY <1>1, <1>2, <1>3 DEF SpawnFails

(* A running session may not be started.                                   *)
LEMMA RunningNotTerminal == ~IsTerminal("running") /\ ~CanTransition("running", "start")
  BY DEF IsTerminal, Terminal, CanTransition, NextStates, State, Live, LiveTransitions, TerminationEvents

(* Start up to the launch of the process.                                  *)
LEMMA SpawnStepPlaced ==
    ASSUME TrackInv, NEW c \in Callers, pc[c] \in {"reserve", "get", "release", "prepare", "launch"},
           UNCHANGED <<row, sessions, gw, runOf, rst, wpc>>,
           \/ TryReserveStart(c) \/ StartGet(c) \/ Release(c) \/ Prepare(c) \/ PtyStart(c)
    PROVE  Bystanders(c) /\ Placed(c)'
<1>1. /\ CallTypeOK /\ Placed(c) /\ RunsTracked /\ cid[c] \in Ids
      /\ sessions[cid[c]] # NoRun => sessions[cid[c]] \in Runs
  BY InCall, MapNamesRuns DEF TrackInv, PhantomInv, TypeOK
<1>2. CASE Return(c)
  BY <1>1, <1>2, ReturnStands, IdlePlacedNext
<1>3. ASSUME SpawnFails(c), pc[c] \in {"prepare", "launch"} PROVE Bystanders(c) /\ Placed(c)'
  BY <1>1, <1>3, SpawnFailsStands, IdlePlacedNext
     DEF Placed, HasRow, SpawnPcs, StopPcs, StopWaits, VacantPcs, SpawnOps, SwitchOps, ReserveOps
<1>4. CASE TryReserveStart(c)
  <2>1. CASE ~Return(c)
    <3>1. MayReserve(cid[c]) /\ pc[c] = "reserve" /\ Goto(c, "get") /\ UNCHANGED <<op, cid, acct, crs, crun>>
      BY <1>4, <2>1 DEF TryReserveStart
    <3>2. sessions[cid[c]] # NoRun => wpc[sessions[cid[c]]] \notin Tracked
      BY <1>1, <3>1, RunningNotTerminal DEF MayReserve, RunsTracked
    <3>3. Bystanders(c) /\ pc'[c] = "get"
      BY <1>1, <3>1, GotoStands
    <3> QED
      BY <1>1, <3>1, <3>2, <3>3 DEF Placed, HasRow, SpawnPcs, StopPcs, StopWaits, VacantPcs
  <2> QED
    BY <1>2, <2>1
<1>5. CASE StartGet(c)
  <2>1. pc[c] = "get" /\ op[c] \in ReserveOps /\ UNCHANGED <<op, cid>>
    BY <1>1, <1>5 DEF StartGet, Placed
  <2>2. CASE HasRow(cid[c]) /\ ~CtxCancelled(c)
    <3>1. Bystanders(c) /\ pc'[c] = "prepare"
      BY <1>1, <1>5, <2>2, GotoStands DEF StartGet
    <3> QED
      BY <1>1, <2>1, <2>2, <3>1
         DEF Placed, HasRow, SpawnPcs, StopPcs, StopWaits, VacantPcs, SpawnOps, ReserveOps
  <2>3. CASE ~(HasRow(cid[c]) /\ ~CtxCancelled(c))
    <3>1. Bystanders(c) /\ pc'[c] = "release"
      BY <1>1, <1>5, <2>3, GotoStands DEF StartGet
    <3> QED
      BY <1>1, <2>1, <3>1 DEF Placed, SpawnPcs, StopPcs, StopWaits, VacantPcs
  <2> QED
    BY <2>2, <2>3
<1>6. CASE Release(c)
  BY <1>2, <1>6 DEF Release
<1>7. CASE Prepare(c)
  <2>1. CASE ~SpawnFails(c)
    <3>1. pc[c] = "prepare" /\ Goto(c, "launch") /\ UNCHANGED <<op, cid, acct, crs, crun>>
      BY <1>7, <2>1 DEF Prepare
    <3>2. Bystanders(c) /\ pc'[c] = "launch"
      BY <1>1, <3>1, GotoStands
    <3> QED
      BY <1>1, <3>1, <3>2 DEF Placed, HasRow, SpawnPcs, StopPcs, StopWaits, VacantPcs
  <2> QED
    BY <1>3, <1>7, <2>1 DEF Prepare
<1>8. CASE PtyStart(c)
  <2>1. ASSUME NEW r \in FreeRuns, LaunchRun(c, r) PROVE FALSE
    BY <2>1 DEF LaunchRun, FreeRuns, TrackInv, PhantomInv, TypeOK, RunTypeOK
  <2> QED
    BY <1>3, <1>8, <2>1 DEF PtyStart
<1> QED
  BY <1>4, <1>5, <1>6, <1>7, <1>8

(* Stop, to its end or its cancellation.                                   *)
LEMMA StopStepPlaced ==
    ASSUME TrackInv, NEW c \in Callers, UNCHANGED <<row, sessions, gw, runOf, rst, wpc>>,
           \/ StopLookup(c) \/ StopGet(c) \/ StopMark(c) \/ StopTimeout(c) \/ StopEnded(c)
           \/ StopCancelled(c) \/ StopReturns(c)
    PROVE  pc[c] # "idle" /\ Bystanders(c) /\ Placed(c)'
<1>1. pc[c] \in StopPcs /\ pc[c] # "idle"
  BY DEF StopLookup, StopGet, StopMark, StopTimeout, StopEnded, StopCancelled, StopReturns, StopPcs
<1>2. /\ CallTypeOK /\ Placed(c) /\ RunsTracked /\ cid[c] \in Ids
      /\ sessions[cid[c]] # NoRun => sessions[cid[c]] \in Runs
  BY <1>1, InCall, MapNamesRuns DEF TrackInv, PhantomInv, TypeOK
<1>3. CASE Return(c)
  BY <1>1, <1>2, <1>3, ReturnStands, IdlePlacedNext
<1>4. ASSUME pc'[c] \in StopPcs, op' = op, cid' = cid,
             pc'[c] \in VacantPcs /\ sessions[cid[c]] # NoRun => wpc[sessions[cid[c]]] \notin Tracked,
             pc'[c] \in StopWaits => sessions[cid[c]] \in {NoRun, crs'[c]}
      PROVE  Placed(c)'
  BY <1>1, <1>2, <1>4 DEF Placed, HasRow, SpawnPcs, StopPcs, StopWaits, VacantPcs
<1>5. {"stop_lookup", "stop_get", "stop_stale", "stop_mark", "stop_wait", "stop_kill_wait", "stop_ok"} \subseteq StopPcs
  BY DEF StopPcs
<1>6. CASE StopLookup(c)
  <2> DEFINE r == sessions[cid[c]]
  <2>1. UNCHANGED <<op, cid, acct, crun>>
    BY <1>6 DEF StopLookup
  <2>2. CASE r = NoRun
    <3>1. Goto(c, "stop_get") /\ UNCHANGED crs
      BY <1>6, <2>2 DEF StopLookup
    <3>2. Bystanders(c) /\ pc'[c] = "stop_get"
      BY <1>2, <2>1, <3>1, GotoStands
    <3> QED
      BY <1>1, <1>4, <1>5, <2>1, <2>2, <3>2 DEF StopWaits
  <2>3. CASE r # NoRun /\ IsTerminal(rst[r])
    <3>1. Goto(c, "stop_ok") /\ UNCHANGED crs
      BY <1>6, <2>3 DEF StopLookup
    <3>2. wpc[r] \notin Tracked
      BY <1>2, <2>3, RunningNotTerminal DEF RunsTracked
    <3>3. Bystanders(c) /\ pc'[c] = "stop_ok"
      BY <1>2, <2>1, <3>1, GotoStands
    <3> QED
      BY <1>1, <1>4, <1>5, <2>1, <3>2, <3>3 DEF StopWaits
  <2>4. CASE r # NoRun /\ ~IsTerminal(rst[r])
    <3>1. Goto(c, "stop_mark") /\ crs' = [crs EXCEPT ![c] = r]
      BY <1>6, <2>4 DEF StopLookup
    <3>2. crs'[c] = r
      BY <1>2, <3>1 DEF CallTypeOK
    <3>3. Bystanders(c) /\ pc'[c] = "stop_mark"
      BY <1>2, <2>1, <3>1, GotoStands
    <3> QED
      BY <1>1, <1>4, <1>5, <2>1, <3>2, <3>3 DEF VacantPcs
  <2> QED
    BY <2>2, <2>3, <2>4
<1>7. CASE StopGet(c) /\ ~Return(c)
  <2>1. PICK p \in {"stop_ok", "stop_stale"} : Goto(c, p) /\ UNCHANGED <<op, cid, acct, crs, crun>>
    BY <1>7 DEF StopGet
  <2>2. Bystanders(c) /\ pc'[c] = p
    BY <1>2, <2>1, GotoStands
  <2>3. pc[c] \in VacantPcs
    BY <1>7 DEF StopGet, VacantPcs
  <2> QED
    BY <1>1, <1>2, <1>4, <1>5, <2>1, <2>2, <2>3 DEF Placed, StopWaits
<1>8. CASE StopMark(c) \/ StopTimeout(c)
  <2>1. PICK p \in {"stop_wait", "stop_kill_wait"} : Goto(c, p) /\ UNCHANGED <<op, cid, acct, crs, crun>>
    BY <1>8 DEF StopMark, StopTimeout
  <2>2. Bystanders(c) /\ pc'[c] = p
    BY <1>2, <2>1, GotoStands
  <2>3. pc[c] \in StopWaits
    BY <1>8 DEF StopMark, StopTimeout, StopWaits
  <2> QED
    BY <1>1, <1>2, <1>4, <1>5, <2>1, <2>2, <2>3 DEF Placed, VacantPcs
<1>9. CASE StopEnded(c)
  <2>1. /\ pc[c] \in StopWaits /\ EndedCh(crs[c]) /\ Goto(c, "stop_ok") /\ crs' = [crs EXCEPT ![c] = NoRun]
        /\ UNCHANGED <<op, cid, acct, crun>>
    BY <1>9 DEF StopEnded, StopWaits
  <2>2. sessions[cid[c]] # NoRun => wpc[sessions[cid[c]]] \notin Tracked
    BY <1>2, <2>1 DEF Placed, EndedCh, Tracked
  <2>3. Bystanders(c) /\ pc'[c] = "stop_ok"
    BY <1>2, <2>1, GotoStands
  <2> QED
    BY <1>1, <1>4, <1>5, <2>1, <2>2, <2>3 DEF StopWaits
<1>10. CASE StopCancelled(c) \/ StopReturns(c)
  BY <1>3, <1>10 DEF StopCancelled, StopReturns
<1> QED
  BY <1>1, <1>3, <1>6, <1>7, <1>8, <1>9, <1>10

(* Remove and the account switches up to the spawn.                        *)
LEMMA OtherStepPlaced ==
    ASSUME TrackInv, NEW c \in Callers, UNCHANGED <<row, sessions, gw, runOf, rst, wpc>>,
           RemoveGet(c) \/ SwitchGet(c) \/ SwitchRow(c) \/ SwitchPersist(c)
    PROVE  pc[c] # "idle" /\ Bystanders(c) /\ Placed(c)'
<1>1. pc[c] # "idle"
  BY DEF RemoveGet, SwitchGet, SwitchRow, SwitchPersist
<1>2. CallTypeOK /\ Placed(c)
  BY DEF TrackInv, PhantomInv, TypeOK
<1>3. CASE Return(c)
  BY <1>1, <1>2, <1>3, ReturnStands, IdlePlacedNext
<1>4. CASE (RemoveGet(c) \/ SwitchGet(c)) /\ ~Return(c)
  <2>1. Goto(c, "stop_lookup") /\ UNCHANGED <<op, cid, crs, crun>> /\ (acct' = acct \/ \E a : acct' = [acct EXCEPT ![c] = a])
    BY <1>4 DEF RemoveGet, SwitchGet
  <2>2. Bystanders(c) /\ pc'[c] = "stop_lookup"
    BY <1>2, <2>1, GotoStands
  <2>3. op[c] \in SwitchOps \union {"remove"}
    BY <1>2, <1>4 DEF Placed, RemoveGet, SwitchGet
  <2> QED
    BY <1>1, <2>1, <2>2, <2>3 DEF Placed, SpawnPcs, StopPcs, StopWaits, VacantPcs
<1>5. CASE SwitchRow(c) /\ ~Return(c)
  <2>1. pc[c] = "stop_ok" /\ op[c] \in SwitchOps /\ HasRow(cid[c]) /\ Goto(c, "prepare") /\ UNCHANGED <<op, cid, acct, crs, crun>>
    BY <1>5 DEF SwitchRow
  <2>2. Bystanders(c) /\ pc'[c] = "prepare"
    BY <1>2, <2>1, GotoStands
  <2> QED
    BY <1>1, <1>2, <2>1, <2>2
       DEF Placed, HasRow, SpawnPcs, StopPcs, StopWaits, VacantPcs, SpawnOps, SwitchOps
<1>6. CASE SwitchPersist(c)
  BY <1>3, <1>6 DEF SwitchPersist
<1> QED
  BY <1>3, <1>4, <1>5, <1>6

(* A call enters.  The session Create makes is in nobody's map.            *)
LEMMA BeginPlaced ==
    ASSUME TrackInv, NEW c \in Callers, Begin(c)
    PROVE  /\ Up /\ Bystanders(c) /\ Placed(c)' /\ UNCHANGED <<row, rowAcct, faults, sessions, gw, runVars>>
           /\ pc[c] = "idle" /\ crun'[c] = crun[c] /\ pc'[c] \notin {"persist", "install"}
<1>1. PICK id, o, p, a : /\ id \in Ids /\ Enter(c, o, id, p, a)
                               /\ \/ o = "create" /\ p = "prepare" /\ row[id] = "none"
                                  \/ o \in ReserveOps /\ p = "reserve"
                                  \/ o = "stop" /\ p = "stop_lookup"
                                  \/ o = "remove" /\ p = "remove_get"
                                  \/ o \in SwitchOps /\ p = "switch_get"
  BY DEF Begin, BeginStart, BeginStop, BeginRemove, BeginResume, BeginCreate, BeginSwitch, ReserveOps
<1>2. UNCHANGED <<row, rowAcct, faults, sessions, gw, runVars>>
  BY DEF Begin, BeginStart, BeginStop, BeginRemove, BeginResume, BeginCreate, BeginSwitch, dbVars, memVars
<1>3. Up
  BY DEF Begin, BeginStart, BeginStop, BeginRemove, BeginResume, BeginCreate, BeginSwitch, Up, Open
<1>4. /\ pc[c] = "idle" /\ pc'[c] = p /\ op'[c] = o /\ cid'[c] = id /\ crun'[c] = crun[c] /\ Bystanders(c)
  BY <1>1 DEF Enter, Bystanders, TrackInv, PhantomInv, TypeOK, CallTypeOK
<1>5. row[id] = "none" => sessions[id] = NoRun
  BY <1>1 DEF TrackInv, RunsTracked
<1>6. Placed(c)'
  BY <1>1, <1>2, <1>4, <1>5
     DEF Placed, HasRow, SpawnPcs, StopPcs, StopWaits, VacantPcs, SpawnOps, SwitchOps, ReserveOps
<1>7. pc'[c] \notin {"persist", "install"}
  BY <1>1, <1>4
<1> QED
  BY <1>2, <1>3, <1>4, <1>6, <1>7

(* StopStale and Delete: no process of the session is tracked.             *)
LEMMA WriteStepKeeps ==
    ASSUME TrackInv, PhantomInv', OneCallPerSession, NEW c \in Callers, StopStale(c) \/ Delete(c)
    PROVE  TrackInv' /\ Bystanders(c)
<1>1. /\ CallTypeOK /\ Placed(c) /\ DOMAIN row = Ids /\ cid[c] \in Ids /\ pc[c] \in {"stop_stale", "stop_ok"}
  BY InCall DEF TrackInv, PhantomInv, TypeOK, DbTypeOK, StopStale, Delete
<1>2. UNCHANGED <<sessions, gw, runOf, rst, wpc>>
  BY DEF StopStale, Delete, memVars, runVars
<1>3. \E s : row' = [row EXCEPT ![cid[c]] = s] /\ (row[cid[c]] = "none" \/ s # "none")
  <2>1. row = [row EXCEPT ![cid[c]] = row[cid[c]]]
    BY <1>1 DEF TrackInv, PhantomInv, TypeOK, DbTypeOK
  <2>2. MarkedTerminal(row[cid[c]], "stopped") = "none" => row[cid[c]] = "none"
    BY DEF MarkedTerminal
  <2>3. CASE UNCHANGED row
    BY <2>1, <2>3
  <2>4. CASE row' = [row EXCEPT ![cid[c]] = MarkedTerminal(@, "stopped")]
    BY <2>2, <2>4
  <2>5. CASE row' = [row EXCEPT ![cid[c]] = IF HasRow(cid[c]) THEN "removed" ELSE @]
    <3>1. row' = [row EXCEPT ![cid[c]] = "removed"] \/ row' = [row EXCEPT ![cid[c]] = row[cid[c]]]
      BY <2>5
    <3> QED
      BY <3>1
  <2> QED
    BY <2>3, <2>4, <2>5 DEF StopStale, Delete
<1>4. Bystanders(c) /\ Placed(c)'
  <2>1. CASE Return(c)
    BY <1>1, <2>1, ReturnStands, IdlePlacedNext
  <2>2. CASE ~Return(c)
    <3>1. Goto(c, "stop_ok") /\ UNCHANGED <<op, cid, acct, crs, crun>>
      BY <2>2 DEF StopStale, Delete
    <3>2. Bystanders(c) /\ pc'[c] = "stop_ok"
      BY <1>1, <3>1, GotoStands
    <3> QED
      BY <1>1, <1>2, <3>1, <3>2 DEF Placed, SpawnPcs, StopPcs, StopWaits, VacantPcs
  <2> QED
    BY <2>1, <2>2
<1>5. PICK s : row' = [row EXCEPT ![cid[c]] = s] /\ (row[cid[c]] = "none" \/ s # "none")
  BY <1>3
<1> QED
  BY <1>1, <1>2, <1>4, <1>5, RowMoveKeeps DEF VacantPcs

(* pty.Start: the run is free, so nobody counts on it.                     *)
LEMMA LaunchTracks ==
    ASSUME TrackInv, PhantomInv', NEW c \in Callers, pc[c] = "launch", NEW r \in FreeRuns, LaunchRun(c, r),
           crun' = [crun EXCEPT ![c] = r], Goto(c, "persist"),
           UNCHANGED <<op, cid, acct, crs, row, sessions, gw>>
    PROVE  TrackInv' /\ Bystanders(c)
<1>1. /\ CallTypeOK /\ RunTypeOK /\ Placed(c) /\ r \in Runs /\ wpc[r] = "free" /\ cid[c] \in Ids /\ Up
  BY InCall DEF TrackInv, PhantomInv, TypeOK, FreeRuns
<1>2. Bystanders(c) /\ pc'[c] = "persist"
  BY <1>1, GotoStands
<1>3. /\ \A s \in Runs : s # r => wpc'[s] = wpc[s] /\ runOf'[s] = runOf[s] /\ rst'[s] = rst[s]
      /\ wpc'[r] = "launched" /\ rst'[r] = "running"
  BY <1>1 DEF LaunchRun, RunTypeOK
<1>4. \A id \in Ids : sessions[id] # NoRun => sessions[id] \in Runs /\ sessions[id] # r
  BY <1>1, MapNamesRuns
<1>5. RunsTracked'
  BY <1>1, <1>3 DEF TrackInv, RunsTracked, Tracked, Up
<1>6. LiveMap' /\ QuietWhenDown'
  BY <1>1, <1>3, <1>4 DEF TrackInv, LiveMap, QuietWhenDown, Up
<1>7. Placed(c)'
  BY <1>1, <1>2, <1>3, <1>4 DEF Placed, HasRow, SpawnPcs, StopPcs, StopWaits, VacantPcs
<1>8. ASSUME NEW d \in Callers, d # c, pc[d] # "idle" PROVE Placed(d)'
  <2>1. Placed(d) /\ cid[d] \in Ids /\ cid'[d] = cid[d] /\ pc'[d] = pc[d] /\ op'[d] = op[d] /\ crs'[d] = crs[d]
    BY <1>2, <1>8, InCall DEF TrackInv, Bystanders
  <2> QED
    BY <1>3, <1>4, <2>1 DEF Placed, HasRow
<1>9. ASSUME NEW d \in Callers, d # c, pc[d] = "idle" PROVE Placed(d)'
  BY <1>2, <1>9, IdlePlacedNext DEF Bystanders
<1> QED
  BY <1>2, <1>5, <1>6, <1>7, <1>8, <1>9 DEF TrackInv

(* Insert or Reactivate: the row of a spawn is there, and says running.    *)
LEMMA PersistTracks ==
    ASSUME TrackInv, PhantomInv', OneCallPerSession, NEW c \in Callers, pc[c] = "persist", WriteRunning(c),
           Goto(c, "install"), UNCHANGED <<runVars, op, cid, acct, crs, crun, sessions, gw>>
    PROVE  TrackInv' /\ Bystanders(c)
<1>1. CallTypeOK /\ Placed(c) /\ cid[c] \in Ids /\ DOMAIN row = Ids
  BY InCall DEF TrackInv, PhantomInv, TypeOK, DbTypeOK
<1>2. Bystanders(c) /\ pc'[c] = "install"
  BY <1>1, GotoStands
<1>3. row' = [row EXCEPT ![cid[c]] = "running"]
  BY <1>1 DEF WriteRunning, Placed
<1>4. Placed(c)'
  BY <1>1, <1>2, <1>3 DEF Placed, SpawnPcs, StopPcs, StopWaits, VacantPcs, runVars
<1> QED
  BY <1>1, <1>2, <1>3, <1>4, RowMoveKeeps DEF VacantPcs, runVars

(* The write fails: the fresh run was nobody's but its launcher's.         *)
LEMMA PersistFailsTracks ==
    ASSUME TrackInv, PhantomInv', NEW c \in Callers, pc[c] = "persist", ForgetRun(crun[c]), SpawnFails(c),
           UNCHANGED <<row, sessions, gw>>
    PROVE  TrackInv' /\ Bystanders(c)
<1> DEFINE r == crun[c]
<1>1. /\ CallTypeOK /\ RunTypeOK /\ Placed(c) /\ cid[c] \in Ids /\ Up
      /\ r \in Runs /\ wpc[r] = "launched"
  BY InCall DEF TrackInv, PhantomInv, Launches, TypeOK, CallTypeOK
<1>2. /\ \A s \in Runs : s # r => wpc'[s] = wpc[s] /\ runOf'[s] = runOf[s] /\ rst'[s] = rst[s]
      /\ wpc'[r] = "free"
  BY <1>1 DEF ForgetRun, RunTypeOK
<1> HIDE DEF r
<1>3. \A id \in Ids : sessions[id] # NoRun => sessions[id] \in Runs /\ sessions[id] # r
  BY <1>1, MapNamesRuns
<1>4. Bystanders(c)
  BY <1>1, SpawnFailsStands
<1>5. RunsTracked'
  BY <1>1, <1>2 DEF TrackInv, RunsTracked, Tracked, Up
<1>6. LiveMap' /\ QuietWhenDown'
  BY <1>1, <1>2, <1>3 DEF TrackInv, LiveMap, QuietWhenDown, Up
<1>7. Placed(c)'
  <2>1. \/ pc'[c] = "idle"
        \/ pc'[c] = "release" /\ op[c] \in ReserveOps /\ UNCHANGED <<op, cid>>
        \/ pc'[c] = "prepare" /\ op[c] = "switch_rollback" /\ UNCHANGED <<op, cid>>
    BY <1>1, SpawnFailsStands
  <2> QED
    BY <1>1, <1>2, <1>3, <2>1, IdlePlacedNext
       DEF Placed, HasRow, SpawnPcs, StopPcs, StopWaits, VacantPcs, SpawnOps, SwitchOps, ReserveOps
<1>8. ASSUME NEW d \in Callers, d # c, pc[d] # "idle" PROVE Placed(d)'
  <2>1. Placed(d) /\ cid[d] \in Ids /\ cid'[d] = cid[d] /\ pc'[d] = pc[d] /\ op'[d] = op[d] /\ crs'[d] = crs[d]
    BY <1>4, <1>8, InCall DEF TrackInv, Bystanders
  <2> QED
    BY <1>2, <1>3, <2>1 DEF Placed, HasRow
<1>9. ASSUME NEW d \in Callers, d # c, pc[d] = "idle" PROVE Placed(d)'
  BY <1>4, <1>9, IdlePlacedNext DEF Bystanders
<1> QED
  BY <1>4, <1>5, <1>6, <1>7, <1>8, <1>9 DEF TrackInv

(* The run takes the empty place in the live map.                          *)
LEMMA InstallTracks ==
    ASSUME TrackInv, PhantomInv', OneCallPerSession, NEW c \in Callers, Install(c)
    PROVE  TrackInv' /\ Bystanders(c) /\ (pc'[c] = "idle" \/ UNCHANGED <<op, cid, acct>>)
<1> DEFINE r == crun[c]
           i == cid[c]
<1>1. /\ CallTypeOK /\ RunTypeOK /\ MemTypeOK /\ Placed(c) /\ i \in Ids /\ Up /\ pc[c] = "install"
      /\ r \in Runs /\ wpc[r] = "launched" /\ runOf[r] = i /\ rst[r] = "running" /\ r # NoRun
  BY InCall, ConstantsAssumption DEF Install, TrackInv, PhantomInv, RunsTracked, Launches, TypeOK, CallTypeOK
<1>2. UNCHANGED <<row, rowAcct, gw, runOf, runAcct, rst>>
  BY DEF Install, dbVars
<1>3. /\ \A s \in Runs : s # r => wpc'[s] = wpc[s]
      /\ wpc'[r] = "wait"
      /\ \A id \in Ids : id # i => sessions'[id] = sessions[id]
      /\ sessions'[i] = r
  BY <1>1 DEF Install, RunTypeOK, MemTypeOK
<1>4. /\ Bystanders(c)
      /\ \/ pc'[c] = "idle"
         \/ pc'[c] = "release" /\ op[c] \in ReserveOps /\ UNCHANGED <<op, cid, acct>>
         \/ pc'[c] = "switch_persist" /\ op[c] \in SwitchOps /\ UNCHANGED <<op, cid, acct>>
  <2>1. CASE Return(c)
    BY <1>1, <2>1, ReturnStands
  <2>2. CASE op[c] \in ReserveOps /\ Goto(c, "release") /\ crun' = [crun EXCEPT ![c] = NoRun] /\ UNCHANGED <<op, cid, acct, crs>>
    BY <1>1, <2>2, GotoStands
  <2>3. CASE op[c] \in SwitchOps /\ Goto(c, "switch_persist") /\ crun' = [crun EXCEPT ![c] = NoRun] /\ UNCHANGED <<op, cid, acct, crs>>
    BY <1>1, <2>3, GotoStands
  <2> QED
    BY <2>1, <2>2, <2>3 DEF Install
<1> HIDE DEF r, i
<1>5. \A id \in Ids : sessions[id] # NoRun => sessions[id] \in Runs /\ sessions[id] # r
  BY <1>1, MapNamesRuns
<1>6. \A s \in Runs : wpc[s] \in Tracked => s # r /\ runOf[s] # i
  <2> SUFFICES ASSUME NEW s \in Runs, wpc[s] \in Tracked PROVE s # r /\ runOf[s] # i
    OBVIOUS
  <2>1. s # r /\ s # NoRun
    BY <1>1, ConstantsAssumption DEF Tracked
  <2>2. sessions[runOf[s]] = s
    BY DEF TrackInv, RunsTracked
  <2> QED
    BY <1>1, <2>1, <2>2 DEF Placed, VacantPcs, i
<1>7. RunsTracked'
  <2>1. ASSUME NEW s \in Runs
        PROVE  /\ wpc'[s] \in {"launched"} \union Tracked => rst'[s] = "running"
               /\ wpc'[s] \in Tracked => runOf'[s] \in Ids /\ sessions'[runOf'[s]] = s
               /\ wpc'[s] = "wait" => row'[runOf'[s]] = "running"
    <3>1. CASE s = r
      BY <1>1, <1>2, <1>3, <3>1 DEF Placed, i
    <3>2. CASE s # r
      BY <1>2, <1>3, <1>6, <3>2 DEF TrackInv, RunsTracked, Tracked
    <3> QED
      BY <3>1, <3>2
  <2>2. \A id \in Ids : sessions'[id] # NoRun => row'[id] # "none"
    BY <1>1, <1>2, <1>3 DEF TrackInv, RunsTracked, Placed, i
  <2> QED
    BY <1>1, <1>2, <2>1, <2>2 DEF RunsTracked, Up
<1>8. LiveMap' /\ QuietWhenDown'
  BY <1>1, <1>2, <1>3, <1>5 DEF TrackInv, LiveMap, QuietWhenDown, Up, Tracked
<1>9. Placed(c)'
  BY <1>4, IdlePlacedNext DEF Placed, SpawnPcs, StopPcs, StopWaits, VacantPcs
<1>10. ASSUME NEW d \in Callers, d # c, pc[d] # "idle" PROVE Placed(d)'
  <2>1. /\ Placed(d) /\ cid[d] \in Ids /\ cid[d] # i
        /\ cid'[d] = cid[d] /\ pc'[d] = pc[d] /\ op'[d] = op[d] /\ crs'[d] = crs[d]
    BY <1>1, <1>4, <1>10, InCall DEF TrackInv, Bystanders, OneCallPerSession, i
  <2> QED
    BY <1>2, <1>3, <1>5, <2>1 DEF Placed, HasRow
<1>11. ASSUME NEW d \in Callers, d # c, pc[d] = "idle" PROVE Placed(d)'
  BY <1>4, <1>11, IdlePlacedNext DEF Bystanders
<1> QED
  BY <1>4, <1>7, <1>8, <1>9, <1>10, <1>11 DEF TrackInv

(* A CLI exits, a signal is sent: nothing the invariant is about moves.    *)
LEMMA StillKeeps ==
    ASSUME TrackInv, PhantomInv', UNCHANGED <<row, sessions, runOf, rst, wpc, callVars>>, gw' # "down", Up \/ gw' = gw
    PROVE  TrackInv'
<1>1. RunsTracked' /\ LiveMap' /\ QuietWhenDown'
  BY DEF TrackInv, RunsTracked, LiveMap, QuietWhenDown, Up
<1>2. ASSUME NEW d \in Callers PROVE Placed(d)'
  BY DEF TrackInv, Placed, callVars, HasRow
<1> QED
  BY <1>1, <1>2 DEF TrackInv

(* A step of the exit detector of run r: r moves on, and may leave the map *)
(* and change its row.                                                     *)
LEMMA DetectorKeeps ==
    ASSUME TrackInv, PhantomInv', NEW r \in Runs, wpc[r] # "free", UNCHANGED <<gw, callVars>>,
           \A s \in Runs : s # r => wpc'[s] = wpc[s] /\ runOf'[s] = runOf[s] /\ rst'[s] = rst[s],
           wpc'[r] # "launched",
           wpc'[r] \in Tracked => /\ wpc[r] \in Tracked /\ wpc'[r] # "wait"
                                  /\ rst'[r] = rst[r] /\ runOf'[r] = runOf[r],
           \A id \in Ids : \/ sessions'[id] = sessions[id]
                           \/ sessions'[id] = NoRun /\ sessions[id] = r /\ wpc'[r] \notin Tracked,
           \A id \in Ids : sessions'[id] = r => runOf'[r] = runOf[r] /\ wpc'[r] \in Tracked \union {"cleanup", "drop"},
           \A id \in Ids : \/ row'[id] = row[id]
                           \/ /\ id = runOf[r] /\ wpc[r] \in Tracked
                              /\ row'[id] # "none" /\ (HasRow(id) => HasRow(id)')
    PROVE  TrackInv'
<1>1. Up /\ MemTypeOK /\ r # NoRun
  BY ConstantsAssumption DEF TrackInv, RunsTracked, PhantomInv, TypeOK
<1>2. ASSUME NEW s \in Runs, wpc'[s] \in Tracked
      PROVE  /\ wpc[s] \in Tracked /\ runOf'[s] = runOf[s] /\ runOf[s] \in Ids
             /\ sessions[runOf[s]] = s /\ sessions'[runOf[s]] = s
  BY <1>2 DEF TrackInv, RunsTracked
<1>3. RunsTracked'
  <2>1. ASSUME NEW s \in Runs, wpc'[s] = "wait" PROVE row'[runOf'[s]] = "running"
    <3>1. s # r /\ wpc[s] = "wait" /\ sessions[runOf[s]] = s /\ runOf'[s] = runOf[s] /\ runOf[s] \in Ids
      BY <1>2, <2>1 DEF Tracked
    <3>2. wpc[r] \in Tracked => runOf[r] # runOf[s]
      BY <3>1 DEF TrackInv, RunsTracked
    <3> QED
      BY <3>1, <3>2 DEF TrackInv, RunsTracked
  <2>2. \A s \in Runs : wpc'[s] \in {"launched"} \union Tracked => rst'[s] = "running"
    BY DEF TrackInv, RunsTracked
  <2>3. \A id \in Ids : sessions'[id] # NoRun => row'[id] # "none"
    BY DEF TrackInv, RunsTracked
  <2> QED
    BY <1>1, <1>2, <2>1, <2>2, <2>3 DEF RunsTracked, Up
<1>4. LiveMap' /\ QuietWhenDown'
  <2>1. ASSUME NEW id \in Ids, sessions'[id] # NoRun
        PROVE  runOf'[sessions'[id]] = id /\ wpc'[sessions'[id]] \in Tracked \union {"cleanup", "drop"}
    <3>1. sessions'[id] = sessions[id] /\ sessions[id] \in Runs
      BY <1>1, <2>1, MapNamesRuns
    <3> QED
      BY <2>1, <3>1 DEF TrackInv, LiveMap
  <2> QED
    BY <1>1, <2>1 DEF LiveMap, QuietWhenDown, Up
<1>5. ASSUME NEW d \in Callers PROVE Placed(d)'
  <2>1. CASE pc[d] = "idle"
    BY <2>1, IdlePlacedNext DEF callVars
  <2>2. CASE pc[d] # "idle"
    <3>1. Placed(d) /\ cid[d] \in Ids /\ UNCHANGED <<pc, op, cid, crs>>
      BY <2>2, InCall DEF TrackInv, callVars
    <3>2. sessions'[cid[d]] # NoRun => sessions'[cid[d]] = sessions[cid[d]] /\ sessions[cid[d]] \in Runs
      BY <3>1, MapNamesRuns
    <3>3. pc[d] \in VacantPcs /\ sessions'[cid[d]] # NoRun => wpc'[sessions'[cid[d]]] \notin Tracked
      BY <3>1, <3>2 DEF Placed
    <3>4. pc[d] = "install" => row'[cid[d]] = "running"
      BY <1>1, <3>1 DEF Placed, VacantPcs, TrackInv, RunsTracked
    <3>5. HasRow(cid[d]) => HasRow(cid[d])'
      BY <3>1 DEF HasRow
    <3> QED
      BY <3>1, <3>2, <3>3, <3>4, <3>5 DEF Placed
  <2> QED
    BY <2>1, <2>2
<1> QED
  BY <1>3, <1>4, <1>5 DEF TrackInv

(* The process side.                                                       *)
LEMMA DetectorTracks ==
    ASSUME TrackInv, PhantomInv', NEW r \in Runs, ProcExit(r) \/ WaitExit(r)
    PROVE  TrackInv'
<1>1. TypeOK /\ DbTypeOK /\ MemTypeOK /\ RunTypeOK
  BY DEF TrackInv, PhantomInv, TypeOK
<1>2. wpc[r] \in Tracked => runOf[r] \in Ids /\ sessions[runOf[r]] = r
  BY DEF TrackInv, RunsTracked
<1>3. CASE ProcExit(r)
  <2>1. UNCHANGED <<row, sessions, runOf, rst, wpc, callVars, gw>>
    BY <1>3 DEF ProcExit, dbVars, memVars
  <2>2. RunsTracked' /\ LiveMap' /\ QuietWhenDown'
    BY <2>1 DEF TrackInv, RunsTracked, LiveMap, QuietWhenDown, Up, callVars
  <2>3. ASSUME NEW d \in Callers PROVE Placed(d)'
    BY <2>1 DEF TrackInv, Placed, callVars, HasRow
  <2> QED
    BY <2>2, <2>3 DEF TrackInv
<1>4. CASE ConsumeStopRequest(r)
  <2>1. /\ wpc[r] = "wait" /\ wpc' = [wpc EXCEPT ![r] = "classify"]
        /\ UNCHANGED <<row, sessions, gw, runOf, rst, callVars>>
    BY <1>4 DEF ConsumeStopRequest, dbVars
  <2> QED
    BY <1>1, <2>1, DetectorKeeps DEF Tracked, RunTypeOK
<1>5. CASE Classify(r)
  <2>1. /\ wpc[r] = "classify" /\ wpc' = [wpc EXCEPT ![r] = "mark"]
        /\ UNCHANGED <<row, sessions, gw, runOf, rst, callVars>>
    BY <1>5 DEF Classify, dbVars, memVars
  <2> QED
    BY <1>1, <2>1, DetectorKeeps DEF Tracked, RunTypeOK
<1>6. CASE MarkRow(r)
  <2>1. /\ wpc[r] = "mark" /\ wpc' = [wpc EXCEPT ![r] = "set"]
        /\ UNCHANGED <<sessions, gw, runOf, rst, callVars>>
        /\ UNCHANGED row \/ row' = [row EXCEPT ![runOf[r]] = MarkedTerminal(@, final[r])]
    BY <1>6 DEF MarkRow, memVars
  <2>2. final[r] \in Terminal
    BY <1>1, <2>1 DEF RunTypeOK
  <2>3. \A id \in Ids : \/ row'[id] = row[id]
                        \/ /\ id = runOf[r] /\ wpc[r] \in Tracked
                           /\ row'[id] # "none" /\ (HasRow(id) => HasRow(id)')
    BY <1>1, <2>1, <2>2 DEF DbTypeOK, MarkedTerminal, HasRow, Terminal, RowStates, Tracked
  <2> QED
    BY <1>1, <2>1, <2>3, DetectorKeeps DEF Tracked, RunTypeOK
<1>7. CASE SetState(r)
  <2>1. /\ wpc[r] = "set" /\ wpc' = [wpc EXCEPT ![r] = "cleanup"] /\ rst' = [rst EXCEPT ![r] = final[r]]
        /\ UNCHANGED <<row, sessions, gw, runOf, callVars>>
    BY <1>7 DEF SetState, dbVars, memVars
  <2> QED
    BY <1>1, <2>1, DetectorKeeps DEF Tracked, RunTypeOK
<1>8. CASE Cleanup(r)
  <2>1. /\ wpc[r] = "cleanup" /\ wpc' = [wpc EXCEPT ![r] = "drop"]
        /\ UNCHANGED <<row, sessions, gw, runOf, rst, callVars>>
    BY <1>8 DEF Cleanup, dbVars, memVars
  <2> QED
    BY <1>1, <2>1, DetectorKeeps DEF Tracked, RunTypeOK
<1>9. CASE Drop(r)
  <2>1. /\ wpc[r] = "drop" /\ sessions' = [sessions EXCEPT ![runOf[r]] = IF @ = r THEN NoRun ELSE @]
        /\ UNCHANGED <<row, gw, callVars>>
    BY <1>9 DEF Drop, dbVars
  <2>2. /\ \A s \in Runs : s # r => wpc'[s] = wpc[s] /\ runOf'[s] = runOf[s] /\ rst'[s] = rst[s]
        /\ wpc'[r] = "free"
    BY <1>1, <1>9 DEF Drop, ForgetRun, RunTypeOK
  <2>3. \A id \in Ids : sessions'[id] = sessions[id] \/ (sessions'[id] = NoRun /\ sessions[id] = r)
    BY <1>1, <2>1 DEF MemTypeOK
  <2>4. r # NoRun /\ \A id \in Ids : sessions[id] = r => id = runOf[r]
    BY ConstantsAssumption DEF TrackInv, LiveMap
  <2>5. \A id \in Ids : sessions'[id] # r
    BY <1>1, <2>1, <2>4 DEF MemTypeOK
  <2> QED
    BY <2>1, <2>2, <2>3, <2>5, DetectorKeeps DEF Tracked
<1> QED
  BY <1>3, <1>4, <1>5, <1>6, <1>7, <1>8, <1>9 DEF WaitExit

(* The gateway comes up, drains, shuts down, and is gone.                  *)
LEMMA GatewayTracks ==
    ASSUME TrackInv, PhantomInv', ReconcileStartup \/ Shutdown \/ Crash
    PROVE  TrackInv'
<1>1. CASE ReconcileStartup
  <2>1. gw = "down" /\ UNCHANGED <<sessions, runOf, rst, wpc, callVars>> /\ gw' # "down"
    BY <1>1 DEF ReconcileStartup, runVars
  <2>2. /\ \A r \in Runs : wpc'[r] = "free" /\ wpc[r] = "free"
        /\ \A c \in Callers : pc'[c] = "idle"
    BY <2>1 DEF TrackInv, RunsTracked, QuietWhenDown, Up, callVars
  <2>3. \A id \in Ids : sessions'[id] = NoRun
    BY <2>1, <2>2, MapNamesRuns
  <2>4. \A c \in Callers : Placed(c)'
    BY <2>2, IdlePlacedNext
  <2> QED
    BY <2>2, <2>3, <2>4 DEF TrackInv, RunsTracked, LiveMap, QuietWhenDown, Tracked
<1>2. CASE Sigterm \/ ShutdownBegin \/ ShutdownKill
  <2>1. UNCHANGED <<row, sessions, runOf, rst, wpc, callVars>> /\ gw' # "down" /\ Up
    BY <1>2 DEF Sigterm, ShutdownBegin, ShutdownKill, dbVars, runVars, Up
  <2> QED
    BY <2>1, StillKeeps
<1>3. CASE GatewayGone
  <2>1. /\ \A r \in Runs : wpc'[r] = "free"
        /\ \A c \in Callers : pc'[c] = "idle"
        /\ \A id \in Ids : sessions'[id] = NoRun
    BY <1>3 DEF GatewayGone, AllRuns, AllCallers, NoSessions
  <2>2. \A c \in Callers : Placed(c)'
    BY <2>1, IdlePlacedNext
  <2> QED
    BY <2>1, <2>2 DEF TrackInv, RunsTracked, LiveMap, QuietWhenDown, Tracked
<1> QED
  BY <1>1, <1>2, <1>3 DEF Shutdown, ShutdownDone, Crash

(* Every step of a call.                                                   *)
LEMMA CallTracks ==
    ASSUME TrackInv, PhantomInv', OneCallPerSession, NEW c \in Callers,
           CallerStep(c) \/ StopCancelled(c)
    PROVE  TrackInv' /\ Bystanders(c)
<1>1. pc[c] # "idle"
  BY DEF CallerStep, TryReserveStart, StartGet, Release, Prepare, PtyStart, Persist, Install, StopLookup,
         StopGet, StopStale, StopMark, StopTimeout, StopEnded, StopReturns, StopCancelled, RemoveGet, Delete,
         SwitchGet, SwitchRow, SwitchPersist
<1>2. Up
  BY <1>1, InCall
<1>3. CASE TryReserveStart(c) \/ StartGet(c) \/ Release(c) \/ Prepare(c) \/ (PtyStart(c) /\ UNCHANGED runVars)
  <2>1. pc[c] \in {"reserve", "get", "release", "prepare", "launch"} /\ UNCHANGED <<row, sessions, gw, runOf, rst, wpc>>
    BY <1>3 DEF TryReserveStart, StartGet, Release, Prepare, PtyStart, dbVars, memVars, runVars
  <2>2. Bystanders(c) /\ Placed(c)'
    BY <1>3, <2>1, SpawnStepPlaced
  <2> QED
    BY <1>2, <2>1, <2>2, CalmKeeps
<1>4. CASE PtyStart(c) /\ ~UNCHANGED runVars
  <2>1. pc[c] = "launch" /\ UNCHANGED <<row, sessions, gw>>
    BY <1>4 DEF PtyStart, dbVars, memVars
  <2>2. PICK r \in FreeRuns : /\ LaunchRun(c, r) /\ crun' = [crun EXCEPT ![c] = r] /\ Goto(c, "persist")
                              /\ UNCHANGED <<op, cid, acct, crs>>
    BY <1>4 DEF PtyStart
  <2> QED
    BY <2>1, <2>2, LaunchTracks
<1>5. CASE Persist(c)
  <2>1. pc[c] = "persist" /\ UNCHANGED <<sessions, gw>>
    BY <1>5 DEF Persist, memVars
  <2>2. CASE /\ WriteRunning(c) /\ Goto(c, "install") /\ UNCHANGED <<runVars, op, cid, acct, crs, crun>>
    BY <2>1, <2>2, PersistTracks
  <2>3. CASE /\ ForgetRun(crun[c]) /\ SpawnFails(c) /\ UNCHANGED row
    BY <2>1, <2>3, PersistFailsTracks
  <2> QED
    BY <1>5, <2>2, <2>3 DEF Persist
<1>6. CASE Install(c)
  BY <1>6, InstallTracks
<1>7. CASE \/ StopLookup(c) \/ StopGet(c) \/ StopMark(c) \/ StopTimeout(c) \/ StopEnded(c)
           \/ StopCancelled(c) \/ StopReturns(c)
  <2>1. UNCHANGED <<row, sessions, gw, runOf, rst, wpc>>
    BY <1>7 DEF StopLookup, StopGet, StopMark, StopTimeout, StopEnded, StopCancelled, StopReturns,
                dbVars, memVars, runVars
  <2>2. Bystanders(c) /\ Placed(c)'
    BY <1>7, <2>1, StopStepPlaced
  <2> QED
    BY <1>2, <2>1, <2>2, CalmKeeps
<1>8. CASE StopStale(c) \/ Delete(c)
  BY <1>8, WriteStepKeeps
<1>9. CASE RemoveGet(c) \/ SwitchGet(c) \/ SwitchRow(c) \/ SwitchPersist(c)
  <2>1. UNCHANGED <<row, sessions, gw, runOf, rst, wpc>>
    BY <1>9 DEF RemoveGet, SwitchGet, SwitchRow, SwitchPersist, dbVars, memVars, runVars
  <2>2. Bystanders(c) /\ Placed(c)'
    BY <1>9, <2>1, OtherStepPlaced
  <2> QED
    BY <1>2, <2>1, <2>2, CalmKeeps
<1> QED
  BY <1>3, <1>4, <1>5, <1>6, <1>7, <1>8, <1>9 DEF CallerStep

(* The invariant is inductive while nobody calls a session twice at once.  *)
LEMMA TrackNext == TrackInv /\ OneCallPerSession /\ [Next]_vars => TrackInv'
<1> SUFFICES ASSUME TrackInv, OneCallPerSession, [Next]_vars PROVE TrackInv'
  OBVIOUS
<1>1. PhantomInv'
  BY PhantomNext DEF TrackInv
<1>2. CASE UNCHANGED vars
  <2>1. UNCHANGED <<row, sessions, gw, runOf, rst, wpc, callVars>>
    BY <1>2 DEF vars, dbVars, memVars, runVars
  <2>2. RunsTracked' /\ LiveMap' /\ QuietWhenDown'
    BY <2>1 DEF TrackInv, RunsTracked, LiveMap, QuietWhenDown, Up, callVars
  <2>3. \A c \in Callers : Placed(c)'
    BY <2>1 DEF TrackInv, Placed, callVars, HasRow
  <2> QED
    BY <1>1, <2>2, <2>3 DEF TrackInv
<1>3. ASSUME NEW c \in Callers, Begin(c) PROVE TrackInv'
  <2>1. Up /\ Bystanders(c) /\ Placed(c)' /\ UNCHANGED <<row, sessions, gw, runVars>>
    BY <1>3, BeginPlaced
  <2> QED
    BY <1>1, <2>1, CalmKeeps DEF runVars
<1>4. ASSUME NEW c \in Callers, CallerStep(c) \/ StopCancelled(c) PROVE TrackInv'
  BY <1>1, <1>4, CallTracks
<1>5. ASSUME NEW r \in Runs, ProcExit(r) \/ WaitExit(r) PROVE TrackInv'
  BY <1>1, <1>5, DetectorTracks
<1>6. CASE ReconcileStartup \/ Shutdown \/ Crash
  BY <1>1, <1>6, GatewayTracks
<1> QED
  BY <1>2, <1>3, <1>4, <1>5, <1>6 DEF Next

(* Stop, Remove, a failed spawn and the exit detector never write a row    *)
(* over the one of a process that runs: while a tracked process lives, its *)
(* row says running, for every number of sessions, callers and runs, and   *)
(* with account switches and early ids.  TrackInv is needed because Stop   *)
(* decides in one step (lookup, store.Get) and writes in a later one: that *)
(* no run has entered the live map since is what VacantPcs claims.         *)
THEOREM StopsAndRowsAgree == Spec /\ []OneCallPerSession => []RowTracksProcess
<1>1. TrackInv => RowTracksProcess
  BY TrackedHasRow
<1> QED
  BY <1>1, TrackInit, TrackNext, PTL DEF Spec

(* Delete comes after a Stop that succeeded, and nothing spawns into a row *)
(* that is gone (SwitchRow and StartGet read it first, Reactivate of a     *)
(* missing row cannot be reached): a removed session leaves no process.    *)
THEOREM RemovedMeansGone == Spec /\ []OneCallPerSession => []NoGhost
<1>1. TrackInv => NoGhost
  BY TrackedHasRow
<1> QED
  BY <1>1, TrackInit, TrackNext, PTL DEF Spec

(* What a call knows of the account: a Start took it from the row, a       *)
(* switch knows the row's account to fall back on, the run it launched and *)
(* installed runs under the account of the call.                           *)
Accounted(c) ==
    /\ pc[c] \in SpawnPcs /\ op[c] \in ReserveOps => acct[c][1] = rowAcct[cid[c]]
    /\ pc[c] \in StopPcs \union SpawnPcs /\ op[c] \in SwitchOps /\ HasRow(cid[c]) => acct[c][2] = rowAcct[cid[c]]
    /\ pc[c] = "install" /\ op[c] = "create" => acct[c][1] = rowAcct[cid[c]]
    /\ pc[c] \in {"persist", "install"} => runAcct[crun[c]] = acct[c][1]
    /\ pc[c] = "switch_persist" /\ sessions[cid[c]] # NoRun => runAcct[sessions[cid[c]]] = acct[c][1]

(* Between Install and Update*Account of a switch the row is behind.       *)
Switching(id) == \E c \in Callers : pc[c] = "switch_persist" /\ cid[c] = id

MapAccounts ==
    \A id \in Ids : sessions[id] # NoRun /\ HasRow(id) /\ ~Switching(id)
                      => runAcct[sessions[id]] = rowAcct[id]

AcctInv == TrackInv /\ (faults = MaxFaults => MapAccounts /\ \A c \in Callers : Accounted(c))

(* At first the live map is empty.                                         *)
LEMMA AcctInit == Init => AcctInv
<1> SUFFICES ASSUME Init PROVE AcctInv
  OBVIOUS
<1>1. TrackInv
  BY TrackInit
<1>2. /\ \A c \in Callers : pc[c] = "idle"
      /\ \A id \in Ids : sessions[id] = NoRun
  BY DEF Init, AllCallers, NoSessions
<1> QED
  BY <1>1, <1>2 DEF AcctInv, MapAccounts, Accounted, SpawnPcs, StopPcs

(* It implies what the run checks.                                         *)
LEMMA QuietAccounts == AcctInv => AccountAgrees
  BY DEF AcctInv, AccountAgrees, MapAccounts, Switching, Quiet

(* A call that is over has no account to know.                             *)
LEMMA IdleAccounted == \A c \in Callers : pc'[c] = "idle" => Accounted(c)'
  BY DEF Accounted, SpawnPcs, StopPcs

(* A bystander's account stands.                                           *)
LEMMA AccountedKept ==
    ASSUME NEW d \in Callers, Accounted(d), pc'[d] = pc[d], op'[d] = op[d], cid'[d] = cid[d], acct'[d] = acct[d],
           crun'[d] = crun[d], rowAcct'[cid[d]] = rowAcct[cid[d]], HasRow(cid[d])' => HasRow(cid[d]),
           pc[d] \in {"persist", "install"} => runAcct'[crun[d]] = runAcct[crun[d]],
           sessions'[cid[d]] # NoRun => /\ sessions'[cid[d]] = sessions[cid[d]]
                                        /\ runAcct'[sessions[cid[d]]] = runAcct[sessions[cid[d]]]
    PROVE  Accounted(d)'
  BY DEF Accounted, HasRow

(* A call that moves on with its account.                                  *)
LEMMA AccountedOn ==
    ASSUME NEW c \in Callers, Accounted(c), op'[c] = op[c], cid'[c] = cid[c], acct'[c] = acct[c],
           rowAcct' = rowAcct, HasRow(cid[c])' => HasRow(cid[c]),
           pc'[c] \notin {"persist", "install", "switch_persist"},
           pc'[c] \in SpawnPcs /\ op[c] \in ReserveOps => pc[c] \in SpawnPcs,
           pc'[c] \in StopPcs \union SpawnPcs /\ op[c] \in SwitchOps => pc[c] \in StopPcs \union SpawnPcs
    PROVE  Accounted(c)'
  BY DEF Accounted, HasRow

(* Calls that leave the accounts, the runs and the live map alone.         *)
LEMMA CalmAccounts ==
    ASSUME AcctInv, TrackInv', NEW c \in Callers, pc[c] # "switch_persist", Bystanders(c),
           UNCHANGED <<rowAcct, sessions, runAcct>>, faults' = MaxFaults => faults = MaxFaults,
           \A id \in Ids : HasRow(id)' => HasRow(id), faults = MaxFaults => Accounted(c)'
    PROVE  AcctInv'
<1> SUFFICES ASSUME faults = MaxFaults PROVE MapAccounts' /\ \A d \in Callers : Accounted(d)'
  BY DEF AcctInv
<1>1. MapAccounts /\ \A d \in Callers : Accounted(d)
  BY DEF AcctInv
<1>2. \A id \in Ids : Switching(id) => Switching(id)'
  BY DEF Switching, Bystanders
<1>3. MapAccounts'
  BY <1>1, <1>2 DEF MapAccounts
<1>4. ASSUME NEW d \in Callers, d # c, pc[d] # "idle" PROVE Accounted(d)'
  <2>1. cid[d] \in Ids /\ cid'[d] = cid[d]
    BY <1>4, InCall DEF AcctInv, Bystanders
  <2>2. HasRow(cid[d])' => HasRow(cid[d])
    BY <2>1 DEF HasRow
  <2> QED
    BY <1>1, <1>4, <2>2, AccountedKept DEF Bystanders
<1>5. ASSUME NEW d \in Callers, d # c, pc[d] = "idle" PROVE Accounted(d)'
  BY <1>5, IdleAccounted DEF Bystanders
<1> QED
  BY <1>3, <1>4, <1>5

(* A call enters.                                                          *)
LEMMA BeginAccounts ==
    ASSUME AcctInv, TrackInv', NEW c \in Callers, Begin(c)
    PROVE  AcctInv'
<1>1. /\ UNCHANGED <<row, rowAcct, sessions, runAcct, faults>> /\ pc[c] = "idle" /\ Bystanders(c)
  BY BeginPlaced DEF AcctInv, runVars
<1>2. PICK id, o, p, a : /\ id \in Ids /\ Enter(c, o, id, p, a)
                         /\ \/ o = "create" /\ p = "prepare"
                            \/ o \in ReserveOps /\ p = "reserve"
                            \/ o = "stop" /\ p = "stop_lookup"
                            \/ o = "remove" /\ p = "remove_get"
                            \/ o \in SwitchOps /\ p = "switch_get"
  BY DEF Begin, BeginStart, BeginStop, BeginRemove, BeginResume, BeginCreate, BeginSwitch, ReserveOps
<1>3. pc'[c] = p /\ op'[c] = o
  BY <1>2 DEF Enter, AcctInv, TrackInv, PhantomInv, TypeOK, CallTypeOK
<1>4. Accounted(c)'
  BY <1>2, <1>3 DEF Accounted, SpawnPcs, StopPcs, ReserveOps, SwitchOps
<1> QED
  BY <1>1, <1>4, CalmAccounts DEF HasRow

(* A spawn fails: a rollback goes on with the account of the row.          *)
LEMMA SpawnFailsAccounted ==
    ASSUME CallTypeOK, NEW c \in Callers, Accounted(c), SpawnFails(c), pc[c] \in SpawnPcs, UNCHANGED <<row, rowAcct>>
    PROVE  Accounted(c)'
<1>1. \/ pc'[c] = "idle"
      \/ pc'[c] = "release"
      \/ /\ pc'[c] = "prepare" /\ op[c] = "switch_rollback" /\ UNCHANGED <<op, cid>>
         /\ acct'[c] = <<acct[c][2], acct[c][2]>>
  BY SpawnFailsStands
<1>2. CASE pc'[c] \in {"idle", "release"}
  BY <1>2 DEF Accounted, SpawnPcs, StopPcs
<1>3. CASE /\ pc'[c] = "prepare" /\ op[c] = "switch_rollback" /\ UNCHANGED <<op, cid>>
           /\ acct'[c] = <<acct[c][2], acct[c][2]>>
  BY <1>3 DEF Accounted, HasRow, SpawnPcs, StopPcs, ReserveOps, SwitchOps
<1> QED
  BY <1>1, <1>2, <1>3

(* Start up to the launch: the account comes from the row, and a rollback  *)
(* falls back on the row's.                                                *)
LEMMA SpawnStepAccounts ==
    ASSUME AcctInv, TrackInv', NEW c \in Callers, Bystanders(c), UNCHANGED runVars,
           TryReserveStart(c) \/ StartGet(c) \/ Release(c) \/ Prepare(c) \/ PtyStart(c)
    PROVE  AcctInv'
<1>1. /\ UNCHANGED <<row, rowAcct, sessions, runAcct, faults>>
      /\ pc[c] \in {"reserve", "get", "release", "prepare", "launch"}
  BY DEF TryReserveStart, StartGet, Release, Prepare, PtyStart, dbVars, memVars, runVars
<1>2. CallTypeOK /\ Placed(c)
  BY DEF AcctInv, TrackInv, PhantomInv, TypeOK
<1>3. ASSUME Accounted(c) PROVE Accounted(c)'
  <2>1. CASE Return(c)
    BY <1>2, <2>1, ReturnStands, IdleAccounted
  <2>2. CASE SpawnFails(c) /\ pc[c] \in {"prepare", "launch"}
    BY <1>1, <1>2, <1>3, <2>2, SpawnFailsAccounted DEF SpawnPcs
  <2>3. CASE TryReserveStart(c) /\ ~Return(c)
    <3>1. Goto(c, "get") /\ UNCHANGED <<op, cid, acct, crs, crun>>
      BY <2>3 DEF TryReserveStart
    <3>2. pc'[c] = "get"
      BY <1>2, <3>1, GotoStands
    <3> QED
      BY <3>2 DEF Accounted, SpawnPcs, StopPcs
  <2>4. CASE StartGet(c)
    <3>1. /\ pc[c] = "get" /\ UNCHANGED <<op, cid, crs, crun>>
          /\ \/ Goto(c, "prepare") /\ acct' = [acct EXCEPT ![c] = <<rowAcct[cid[c]], rowAcct[cid[c]]>>]
             \/ Goto(c, "release") /\ UNCHANGED acct
      BY <2>4 DEF StartGet
    <3>2. op[c] \in ReserveOps
      BY <1>2, <3>1 DEF Placed
    <3>3. CASE Goto(c, "prepare") /\ acct' = [acct EXCEPT ![c] = <<rowAcct[cid[c]], rowAcct[cid[c]]>>]
      <4>1. pc'[c] = "prepare"
        BY <1>2, <3>1, <3>3, GotoStands
      <4>2. acct'[c][1] = rowAcct[cid[c]]
        BY <1>2, <3>3 DEF CallTypeOK
      <4> QED
        BY <1>1, <3>1, <3>2, <4>1, <4>2 DEF Accounted, ReserveOps, SwitchOps
    <3>4. CASE Goto(c, "release") /\ UNCHANGED acct
      <4>1. pc'[c] = "release"
        BY <1>2, <3>1, <3>4, GotoStands
      <4> QED
        BY <4>1 DEF Accounted, SpawnPcs, StopPcs
    <3> QED
      BY <3>1, <3>3, <3>4
  <2>5. CASE Prepare(c) /\ ~SpawnFails(c)
    <3>1. pc[c] = "prepare" /\ Goto(c, "launch") /\ UNCHANGED <<op, cid, acct, crs, crun>>
      BY <2>5 DEF Prepare
    <3>2. pc'[c] = "launch"
      BY <1>2, <3>1, GotoStands
    <3> QED
      BY <1>1, <1>3, <3>1, <3>2, AccountedOn DEF HasRow, SpawnPcs
  <2>6. CASE PtyStart(c) /\ ~SpawnFails(c)
    <3>1. PICK r \in FreeRuns : LaunchRun(c, r)
      BY <2>6 DEF PtyStart
    <3>2. wpc'[r] = "launched" /\ wpc[r] = "free"
      BY <3>1 DEF LaunchRun, FreeRuns, AcctInv, TrackInv, PhantomInv, TypeOK, RunTypeOK
    <3> QED
      BY <3>2 DEF runVars
  <2> QED
    BY <1>1, <2>1, <2>2, <2>3, <2>4, <2>5, <2>6 DEF Release, Prepare, PtyStart
<1> QED
  BY <1>1, <1>3, CalmAccounts DEF AcctInv, HasRow

(* Stop, Remove, and a switch that goes on to its spawn: the account of    *)
(* the call stands, and no row comes into being.                           *)
LEMMA StopStepAccounts ==
    ASSUME AcctInv, TrackInv', NEW c \in Callers, Bystanders(c),
           \/ StopLookup(c) \/ StopGet(c) \/ StopStale(c) \/ StopMark(c) \/ StopTimeout(c) \/ StopEnded(c)
           \/ StopCancelled(c) \/ StopReturns(c) \/ RemoveGet(c) \/ Delete(c) \/ SwitchRow(c)
    PROVE  AcctInv'
<1>1. /\ UNCHANGED <<rowAcct, sessions, runAcct>>
      /\ UNCHANGED faults \/ (faults > 0 /\ faults' = faults - 1)
      /\ pc[c] \in StopPcs \union {"remove_get"}
      /\ \/ UNCHANGED row
         \/ row' = [row EXCEPT ![cid[c]] = MarkedTerminal(@, "stopped")]
         \/ row' = [row EXCEPT ![cid[c]] = IF HasRow(cid[c]) THEN "removed" ELSE @]
  BY DEF StopLookup, StopGet, StopStale, StopMark, StopTimeout, StopEnded, StopCancelled, StopReturns,
         RemoveGet, Delete, SwitchRow, dbVars, memVars, runVars, StopPcs
<1>2. TypeOK /\ CallTypeOK /\ Placed(c)
  BY DEF AcctInv, TrackInv, PhantomInv, TypeOK
<1>3. \A id \in Ids : row'[id] \in RowStates => row[id] \in RowStates
  BY <1>1, <1>2 DEF TypeOK, DbTypeOK, MarkedTerminal, HasRow
<1>4. cid'[c] = cid[c] /\ HasRow(cid[c])' => HasRow(cid[c])
  BY <1>1, <1>2, <1>3, InCall DEF HasRow, AcctInv, StopPcs
<1>5. ASSUME Accounted(c) PROVE Accounted(c)'
  <2>1. CASE Return(c)
    BY <1>2, <2>1, ReturnStands, IdleAccounted
  <2>2. CASE ~Return(c)
    <3>1. PICK p \in StopPcs \union {"prepare"} :
             /\ Goto(c, p) /\ UNCHANGED <<op, cid, acct, crun>>
             /\ crs' = crs \/ \E r : crs' = [crs EXCEPT ![c] = r]
             /\ p = "prepare" => op[c] \in SwitchOps
      BY <2>2 DEF StopLookup, StopGet, StopStale, StopMark, StopTimeout, StopEnded, StopCancelled,
                  StopReturns, RemoveGet, Delete, SwitchRow, StopPcs
    <3>2. pc'[c] = p
      BY <1>2, <3>1, GotoStands
    <3>3. op[c] \in SwitchOps => pc[c] # "remove_get"
      BY <1>2 DEF Placed, SwitchOps
    <3> QED
      BY <1>1, <1>4, <1>5, <3>1, <3>2, <3>3, AccountedOn DEF StopPcs, SpawnPcs, ReserveOps, SwitchOps
  <2> QED
    BY <2>1, <2>2
<1>6. \A id \in Ids : HasRow(id)' => HasRow(id)
  BY <1>3 DEF HasRow
<1>7. faults' = MaxFaults => faults = MaxFaults
  BY <1>1, <1>2, FaultsFall
<1>8. pc[c] # "switch_persist"
  BY <1>1 DEF StopPcs
<1> QED
  BY <1>1, <1>5, <1>6, <1>7, <1>8, CalmAccounts DEF AcctInv

(* m.Get: with nobody else switching it, the session runs on the account   *)
(* of its row.                                                             *)
LEMMA SwitchGetAccounts ==
    ASSUME AcctInv, TrackInv', OneCallPerSession, NEW c \in Callers, Bystanders(c), SwitchGet(c)
    PROVE  AcctInv'
<1>1. pc[c] = "switch_get" /\ UNCHANGED <<row, rowAcct, sessions, runAcct, faults>>
  BY DEF SwitchGet, dbVars, memVars, runVars
<1>2. CallTypeOK /\ Placed(c) /\ cid[c] \in Ids
  BY <1>1, InCall DEF AcctInv, TrackInv, PhantomInv, TypeOK
<1>3. ASSUME faults = MaxFaults PROVE Accounted(c)'
  <2>1. CASE Return(c)
    BY <1>2, <2>1, ReturnStands, IdleAccounted
  <2>2. CASE /\ acct' = [acct EXCEPT ![c] = <<@[1], CurrentAccount(cid[c])>>]
             /\ Goto(c, "stop_lookup") /\ UNCHANGED <<op, cid, crs, crun>>
    <3>1. pc'[c] = "stop_lookup" /\ acct'[c][2] = CurrentAccount(cid[c])
      BY <1>2, <2>2, GotoStands DEF CallTypeOK
    <3>2. ~Switching(cid[c])
      BY <1>1 DEF OneCallPerSession, Switching
    <3>3. HasRow(cid[c]) => CurrentAccount(cid[c]) = rowAcct[cid[c]]
      BY <1>2, <1>3, <3>2 DEF AcctInv, MapAccounts, CurrentAccount
    <3>4. UNCHANGED <<row, rowAcct, cid>>
      BY <1>1, <2>2
    <3> QED
      BY <3>1, <3>3, <3>4 DEF Accounted, HasRow, SpawnPcs
  <2> QED
    BY <2>1, <2>2 DEF SwitchGet
<1> QED
  BY <1>1, <1>3, CalmAccounts DEF HasRow

(* The process is started under the account of the call.                   *)
LEMMA LaunchAccounts ==
    ASSUME AcctInv, TrackInv', NEW c \in Callers, Bystanders(c), pc[c] = "launch", NEW r \in FreeRuns, LaunchRun(c, r),
           crun' = [crun EXCEPT ![c] = r], Goto(c, "persist"),
           UNCHANGED <<op, cid, acct, row, rowAcct, faults, sessions>>
    PROVE  AcctInv'
<1> SUFFICES ASSUME faults = MaxFaults PROVE MapAccounts' /\ \A d \in Callers : Accounted(d)'
  BY DEF AcctInv
<1>1. /\ CallTypeOK /\ RunTypeOK /\ TrackInv /\ r \in Runs /\ wpc[r] = "free"
      /\ MapAccounts /\ \A d \in Callers : Accounted(d)
  BY DEF AcctInv, TrackInv, PhantomInv, TypeOK, FreeRuns
<1>2. /\ \A s \in Runs : s # r => runAcct'[s] = runAcct[s]
      /\ runAcct'[r] = acct[c][1] /\ crun'[c] = r
  BY <1>1 DEF LaunchRun, RunTypeOK, CallTypeOK
<1>3. \A id \in Ids : sessions[id] # NoRun => sessions[id] \in Runs /\ sessions[id] # r
  BY <1>1, MapNamesRuns
<1>4. pc'[c] = "persist"
  BY <1>1 DEF Goto, CallTypeOK
<1>5. \A d \in Callers : pc[d] \in {"persist", "install"} => crun[d] \in Runs /\ crun[d] # r
  BY <1>1 DEF TrackInv, PhantomInv, Launches, CallTypeOK
<1>6. MapAccounts'
  BY <1>1, <1>2, <1>3, <1>4 DEF MapAccounts, Switching, HasRow, Bystanders
<1>7. Accounted(c)'
  BY <1>1, <1>2, <1>4 DEF Accounted, HasRow, SpawnPcs, StopPcs
<1>8. ASSUME NEW d \in Callers, d # c, pc[d] # "idle" PROVE Accounted(d)'
  <2>1. cid[d] \in Ids
    BY <1>1, <1>8, InCall
  <2> QED
    BY <1>1, <1>2, <1>3, <1>5, <1>8, <2>1, AccountedKept DEF Bystanders, HasRow
<1>9. ASSUME NEW d \in Callers, d # c, pc[d] = "idle" PROVE Accounted(d)'
  BY <1>9, IdleAccounted DEF Bystanders
<1> QED
  BY <1>6, <1>7, <1>8, <1>9

(* Insert writes the account of the new session; Reactivate leaves it.     *)
LEMMA PersistAccounts ==
    ASSUME AcctInv, TrackInv', OneCallPerSession, NEW c \in Callers, Bystanders(c), pc[c] = "persist",
           WriteRunning(c), Goto(c, "install"),
           UNCHANGED <<runVars, op, cid, acct, crs, crun, sessions, faults>>
    PROVE  AcctInv'
<1> SUFFICES ASSUME faults = MaxFaults PROVE MapAccounts' /\ \A d \in Callers : Accounted(d)'
  BY DEF AcctInv
<1>1. /\ CallTypeOK /\ DbTypeOK /\ TrackInv /\ Placed(c) /\ cid[c] \in Ids
      /\ MapAccounts /\ \A d \in Callers : Accounted(d)
  BY InCall DEF AcctInv, TrackInv, PhantomInv, TypeOK
<1>2. pc'[c] = "install"
  BY <1>1 DEF Goto, CallTypeOK
<1>3. /\ \A id \in Ids : id # cid[c] => row'[id] = row[id] /\ rowAcct'[id] = rowAcct[id]
      /\ op[c] = "create" => rowAcct'[cid[c]] = acct[c][1]
      /\ op[c] # "create" => rowAcct'[cid[c]] = rowAcct[cid[c]] /\ HasRow(cid[c])
  BY <1>1 DEF WriteRunning, DbTypeOK, Placed
<1>4. op[c] = "create" => sessions[cid[c]] = NoRun
  BY <1>1 DEF Placed
<1>5. \A id \in Ids : Switching(id) => Switching(id)'
  BY DEF Switching, Bystanders
<1>6. MapAccounts'
  BY <1>1, <1>3, <1>4, <1>5 DEF MapAccounts, HasRow, runVars
<1>7. Accounted(c)'
  BY <1>1, <1>2, <1>3 DEF Accounted, SpawnPcs, StopPcs, ReserveOps, SwitchOps, runVars
<1>8. ASSUME NEW d \in Callers, d # c, pc[d] # "idle" PROVE Accounted(d)'
  <2>1. cid[d] \in Ids /\ cid[d] # cid[c]
    BY <1>1, <1>8, InCall DEF OneCallPerSession
  <2> QED
    BY <1>1, <1>3, <1>8, <2>1, AccountedKept DEF Bystanders, HasRow, runVars
<1>9. ASSUME NEW d \in Callers, d # c, pc[d] = "idle" PROVE Accounted(d)'
  BY <1>9, IdleAccounted DEF Bystanders
<1> QED
  BY <1>6, <1>7, <1>8, <1>9

(* A run is forgotten that no caller but this one launched, and that the   *)
(* live map does not name.                                                 *)
LEMMA PersistFailsAccounts ==
    ASSUME AcctInv, TrackInv', NEW c \in Callers, Bystanders(c), pc[c] = "persist", ForgetRun(crun[c]), SpawnFails(c),
           UNCHANGED <<row, rowAcct, sessions>>, faults' = MaxFaults => faults = MaxFaults
    PROVE  AcctInv'
<1> SUFFICES ASSUME faults = MaxFaults PROVE MapAccounts' /\ \A d \in Callers : Accounted(d)'
  BY DEF AcctInv
<1> DEFINE r == crun[c]
<1>1. /\ CallTypeOK /\ RunTypeOK /\ TrackInv /\ r \in Runs /\ wpc[r] = "launched"
      /\ MapAccounts /\ \A d \in Callers : Accounted(d)
  BY DEF AcctInv, TrackInv, PhantomInv, Launches, TypeOK, CallTypeOK
<1>2. \A s \in Runs : s # r => runAcct'[s] = runAcct[s]
  BY <1>1 DEF ForgetRun, RunTypeOK
<1>3. \A d \in Callers : d # c /\ pc[d] \in {"persist", "install"} => crun[d] \in Runs /\ crun[d] # r
  BY <1>1 DEF TrackInv, PhantomInv, Launches, CallTypeOK
<1> HIDE DEF r
<1>4. \A id \in Ids : sessions[id] # NoRun => sessions[id] \in Runs /\ sessions[id] # r
  BY <1>1, MapNamesRuns
<1>5. \A id \in Ids : Switching(id) => Switching(id)'
  BY DEF Switching, Bystanders
<1>6. MapAccounts'
  BY <1>1, <1>2, <1>4, <1>5 DEF MapAccounts, HasRow
<1>7. Accounted(c)'
  BY <1>1, SpawnFailsAccounted DEF SpawnPcs
<1>8. ASSUME NEW d \in Callers, d # c, pc[d] # "idle" PROVE Accounted(d)'
  <2>1. cid[d] \in Ids
    BY <1>1, <1>8, InCall
  <2> QED
    BY <1>1, <1>2, <1>3, <1>4, <1>8, <2>1, AccountedKept DEF Bystanders, HasRow
<1>9. ASSUME NEW d \in Callers, d # c, pc[d] = "idle" PROVE Accounted(d)'
  BY <1>9, IdleAccounted DEF Bystanders
<1> QED
  BY <1>6, <1>7, <1>8, <1>9

(* The run enters the live map: on the account of the row, or the switch   *)
(* still has to write it.                                                  *)
LEMMA InstallAccounts ==
    ASSUME AcctInv, TrackInv', OneCallPerSession, NEW c \in Callers, Bystanders(c), Install(c)
    PROVE  AcctInv'
<1>1. /\ UNCHANGED <<row, rowAcct, runAcct, faults>> /\ pc[c] = "install"
      /\ sessions' = [sessions EXCEPT ![cid[c]] = crun[c]]
  BY DEF Install, dbVars
<1> SUFFICES ASSUME faults = MaxFaults PROVE MapAccounts' /\ \A d \in Callers : Accounted(d)'
  BY <1>1 DEF AcctInv
<1>2. /\ CallTypeOK /\ MemTypeOK /\ TrackInv /\ Placed(c) /\ cid[c] \in Ids
      /\ MapAccounts /\ \A d \in Callers : Accounted(d)
  BY <1>1, InCall DEF AcctInv, TrackInv, PhantomInv, TypeOK
<1>3. /\ \A id \in Ids : id # cid[c] => sessions'[id] = sessions[id]
      /\ sessions'[cid[c]] = crun[c] /\ runAcct[crun[c]] = acct[c][1]
  BY <1>1, <1>2 DEF MemTypeOK, Accounted
<1>4. op[c] \in SpawnOps /\ HasRow(cid[c])
  BY <1>1, <1>2 DEF Placed, SpawnPcs, HasRow, RowStates
<1>5. \A id \in Ids : Switching(id) => Switching(id)'
  BY <1>1 DEF Switching, Bystanders
<1>6. \/ acct[c][1] = rowAcct[cid[c]] /\ pc'[c] \in {"idle", "release"}
      \/ pc'[c] = "switch_persist" /\ op[c] \in SwitchOps /\ UNCHANGED <<op, cid, acct>>
  <2>1. CASE op[c] \in ReserveOps /\ Goto(c, "release")
    BY <1>1, <1>2, <2>1 DEF Goto, CallTypeOK, Accounted, SpawnPcs
  <2>2. CASE op[c] \in SwitchOps /\ Goto(c, "switch_persist") /\ UNCHANGED <<op, cid, acct>>
    BY <1>2, <2>2 DEF Goto, CallTypeOK
  <2>3. CASE op[c] \notin ReserveOps /\ (op[c] = "create" \/ acct[c][1] = acct[c][2]) /\ Return(c)
    <3>1. pc'[c] = "idle"
      BY <1>2, <2>3, ReturnStands
    <3>2. acct[c][1] = rowAcct[cid[c]]
      BY <1>1, <1>2, <1>4, <2>3 DEF Accounted, SpawnPcs, SpawnOps
    <3> QED
      BY <3>1, <3>2
  <2> QED
    BY <2>1, <2>2, <2>3 DEF Install
<1>7. pc'[c] = "switch_persist" => Switching(cid[c])'
  <2>1. pc'[c] = "switch_persist" => cid' = cid
    BY <1>6
  <2> QED
    BY <2>1 DEF Switching
<1>8. MapAccounts'
  <2>1. ASSUME NEW id \in Ids, sessions'[id] # NoRun, HasRow(id)', ~Switching(id)'
        PROVE  runAcct'[sessions'[id]] = rowAcct'[id]
    <3>1. CASE id = cid[c]
      BY <1>1, <1>3, <1>6, <1>7, <2>1, <3>1 DEF Switching
    <3>2. CASE id # cid[c]
      BY <1>1, <1>2, <1>3, <1>5, <2>1, <3>2 DEF MapAccounts, HasRow
    <3> QED
      BY <3>1, <3>2
  <2> QED
    BY <2>1 DEF MapAccounts
<1>9. Accounted(c)'
  BY <1>1, <1>3, <1>6 DEF Accounted, SpawnPcs, StopPcs
<1>10. ASSUME NEW d \in Callers, d # c, pc[d] # "idle" PROVE Accounted(d)'
  <2>1. cid[d] \in Ids /\ cid[d] # cid[c]
    BY <1>1, <1>2, <1>10, InCall DEF OneCallPerSession
  <2> QED
    BY <1>1, <1>2, <1>3, <1>10, <2>1, AccountedKept DEF Bystanders, HasRow
<1>11. ASSUME NEW d \in Callers, d # c, pc[d] = "idle" PROVE Accounted(d)'
  BY <1>11, IdleAccounted DEF Bystanders
<1> QED
  BY <1>8, <1>9, <1>10, <1>11

(* Update*Account: the row catches up with the run, unless the write fails.*)
LEMMA SwitchPersistAccounts ==
    ASSUME AcctInv, TrackInv', OneCallPerSession, NEW c \in Callers, Bystanders(c), SwitchPersist(c)
    PROVE  AcctInv'
<1>1. UNCHANGED <<row, sessions, runAcct>> /\ pc[c] = "switch_persist" /\ Return(c)
  BY DEF SwitchPersist, memVars, runVars
<1>2. faults' = MaxFaults => faults = MaxFaults
  <2>1. UNCHANGED faults \/ (faults > 0 /\ faults' = faults - 1)
    BY DEF SwitchPersist
  <2> QED
    BY <2>1, FaultsFall DEF AcctInv, TrackInv, PhantomInv
<1> SUFFICES ASSUME faults' = MaxFaults, faults = MaxFaults PROVE MapAccounts' /\ \A d \in Callers : Accounted(d)'
  BY <1>2 DEF AcctInv
<1>3. /\ CallTypeOK /\ DbTypeOK /\ TrackInv /\ cid[c] \in Ids
      /\ MapAccounts /\ \A d \in Callers : Accounted(d)
  BY <1>1, InCall DEF AcctInv, TrackInv, PhantomInv, TypeOK
<1>4. pc'[c] = "idle"
  BY <1>1, <1>3, ReturnStands
<1>5. rowAcct' = [rowAcct EXCEPT ![cid[c]] = IF HasRow(cid[c]) THEN acct[c][1] ELSE @]
  <2>1. faults \in Nat /\ faults' = faults
    BY <1>3, FaultsType DEF DbTypeOK
  <2> QED
    BY <2>1 DEF SwitchPersist
<1>6. /\ \A id \in Ids : id # cid[c] => rowAcct'[id] = rowAcct[id]
      /\ HasRow(cid[c]) => rowAcct'[cid[c]] = acct[c][1]
  BY <1>3, <1>5 DEF DbTypeOK
<1>7. \A id \in Ids : id # cid[c] /\ Switching(id) => Switching(id)'
  BY DEF Switching, Bystanders
<1>8. sessions[cid[c]] # NoRun => runAcct[sessions[cid[c]]] = acct[c][1]
  BY <1>1, <1>3 DEF Accounted
<1>9. MapAccounts'
  <2>1. ASSUME NEW id \in Ids, sessions'[id] # NoRun, HasRow(id)', ~Switching(id)'
        PROVE  runAcct'[sessions'[id]] = rowAcct'[id]
    <3>1. CASE id = cid[c]
      BY <1>1, <1>6, <1>8, <2>1, <3>1 DEF HasRow
    <3>2. CASE id # cid[c]
      BY <1>1, <1>3, <1>6, <1>7, <2>1, <3>2 DEF MapAccounts, HasRow
    <3> QED
      BY <3>1, <3>2
  <2> QED
    BY <2>1 DEF MapAccounts
<1>10. ASSUME NEW d \in Callers, d # c, pc[d] # "idle" PROVE Accounted(d)'
  <2>1. cid[d] \in Ids /\ cid[d] # cid[c]
    BY <1>1, <1>3, <1>10, InCall DEF OneCallPerSession
  <2> QED
    BY <1>1, <1>3, <1>6, <1>10, <2>1, AccountedKept DEF Bystanders, HasRow
<1>11. ASSUME NEW d \in Callers, d # c, pc[d] = "idle" PROVE Accounted(d)'
  BY <1>11, IdleAccounted DEF Bystanders
<1> QED
  BY <1>4, <1>9, <1>10, <1>11, IdleAccounted

(* Every step of a call.                                                   *)
LEMMA CallAccounts ==
    ASSUME AcctInv, TrackInv', OneCallPerSession, NEW c \in Callers, Bystanders(c),
           CallerStep(c) \/ StopCancelled(c)
    PROVE  AcctInv'
<1>1. CASE TryReserveStart(c) \/ StartGet(c) \/ Release(c) \/ Prepare(c) \/ (PtyStart(c) /\ UNCHANGED runVars)
  <2>1. UNCHANGED runVars
    BY <1>1 DEF TryReserveStart, StartGet, Release, Prepare
  <2> QED
    BY <1>1, <2>1, SpawnStepAccounts
<1>2. CASE PtyStart(c) /\ ~UNCHANGED runVars
  <2>1. pc[c] = "launch" /\ UNCHANGED <<row, rowAcct, faults, sessions>>
    BY <1>2 DEF PtyStart, dbVars, memVars
  <2>2. PICK r \in FreeRuns : /\ LaunchRun(c, r) /\ crun' = [crun EXCEPT ![c] = r] /\ Goto(c, "persist")
                              /\ UNCHANGED <<op, cid, acct>>
    BY <1>2 DEF PtyStart
  <2> QED
    BY <2>1, <2>2, LaunchAccounts
<1>3. CASE Persist(c)
  <2>1. pc[c] = "persist" /\ UNCHANGED sessions
    BY <1>3 DEF Persist, memVars
  <2>2. CASE WriteRunning(c) /\ Goto(c, "install") /\ UNCHANGED <<faults, runVars, op, cid, acct, crs, crun>>
    BY <2>1, <2>2, PersistAccounts
  <2>3. CASE /\ ForgetRun(crun[c]) /\ SpawnFails(c) /\ UNCHANGED <<row, rowAcct>>
             /\ UNCHANGED faults \/ (faults > 0 /\ faults' = faults - 1)
    <3>1. faults' = MaxFaults => faults = MaxFaults
      BY <2>3, FaultsFall DEF AcctInv, TrackInv, PhantomInv
    <3> QED
      BY <2>1, <2>3, <3>1, PersistFailsAccounts
  <2> QED
    BY <1>3, <2>2, <2>3 DEF Persist
<1>4. CASE Install(c)
  BY <1>4, InstallAccounts
<1>5. CASE \/ StopLookup(c) \/ StopGet(c) \/ StopStale(c) \/ StopMark(c) \/ StopTimeout(c) \/ StopEnded(c)
           \/ StopCancelled(c) \/ StopReturns(c) \/ RemoveGet(c) \/ Delete(c) \/ SwitchRow(c)
  BY <1>5, StopStepAccounts
<1>6. CASE SwitchGet(c)
  BY <1>6, SwitchGetAccounts
<1>7. CASE SwitchPersist(c)
  BY <1>7, SwitchPersistAccounts
<1> QED
  BY <1>1, <1>2, <1>3, <1>4, <1>5, <1>6, <1>7 DEF CallerStep

(* The exit detector: a run that is dropped leaves the live map with it.   *)
LEMMA DetectorAccounts ==
    ASSUME AcctInv, TrackInv', NEW r \in Runs, ProcExit(r) \/ WaitExit(r)
    PROVE  AcctInv'
<1>1. /\ TypeOK /\ DbTypeOK /\ MemTypeOK /\ RunTypeOK /\ CallTypeOK /\ TrackInv
  BY DEF AcctInv, TrackInv, PhantomInv, TypeOK
<1>2. UNCHANGED callVars /\ UNCHANGED rowAcct /\ (UNCHANGED faults \/ (faults > 0 /\ faults' = faults - 1))
  BY DEF ProcExit, WaitExit, ConsumeStopRequest, Classify, MarkRow, SetState, Cleanup, Drop, dbVars
<1>3. UNCHANGED row \/ row' = [row EXCEPT ![runOf[r]] = MarkedTerminal(@, final[r])]
  BY DEF ProcExit, WaitExit, ConsumeStopRequest, Classify, MarkRow, SetState, Cleanup, Drop, dbVars
<1>4. UNCHANGED <<sessions, runAcct>> \/ Drop(r)
  BY DEF ProcExit, WaitExit, ConsumeStopRequest, Classify, MarkRow, SetState, Cleanup, memVars
<1>5. \A id \in Ids : HasRow(id)' => HasRow(id)
  BY <1>1, <1>3 DEF DbTypeOK, HasRow, MarkedTerminal
<1>6. faults' = MaxFaults => faults = MaxFaults
  BY <1>1, <1>2, FaultsFall
<1> SUFFICES ASSUME faults = MaxFaults PROVE MapAccounts' /\ \A d \in Callers : Accounted(d)'
  BY <1>6 DEF AcctInv
<1>7. MapAccounts /\ \A d \in Callers : Accounted(d)
  BY DEF AcctInv
<1>8. /\ \A id \in Ids : sessions'[id] # NoRun => /\ sessions'[id] = sessions[id]
                                                  /\ runAcct'[sessions[id]] = runAcct[sessions[id]]
      /\ \A d \in Callers : pc[d] \in {"persist", "install"} => runAcct'[crun[d]] = runAcct[crun[d]]
  <2>1. CASE UNCHANGED <<sessions, runAcct>>
    BY <2>1
  <2>2. CASE Drop(r)
    <3>1. /\ wpc[r] = "drop" /\ sessions' = [sessions EXCEPT ![runOf[r]] = IF @ = r THEN NoRun ELSE @]
          /\ \A s \in Runs : s # r => runAcct'[s] = runAcct[s]
      BY <1>1, <2>2 DEF Drop, ForgetRun, RunTypeOK
    <3>2. \A id \in Ids : sessions[id] = r => id = runOf[r]
      BY <1>1, ConstantsAssumption DEF TrackInv, LiveMap
    <3>3. \A id \in Ids : sessions'[id] # NoRun => sessions'[id] = sessions[id] /\ sessions[id] # r
      BY <1>1, <3>1, <3>2, ConstantsAssumption DEF MemTypeOK
    <3>4. \A id \in Ids : sessions[id] # NoRun => sessions[id] \in Runs
      BY <1>1, MapNamesRuns
    <3>5. \A d \in Callers : pc[d] \in {"persist", "install"} => crun[d] \in Runs /\ crun[d] # r
      BY <1>1, <3>1 DEF TrackInv, PhantomInv, Launches, CallTypeOK
    <3> QED
      BY <3>1, <3>3, <3>4, <3>5
  <2> QED
    BY <1>4, <2>1, <2>2
<1>9. MapAccounts'
  BY <1>2, <1>5, <1>7, <1>8 DEF MapAccounts, Switching, callVars
<1>10. ASSUME NEW d \in Callers, pc[d] # "idle" PROVE Accounted(d)'
  <2>1. cid[d] \in Ids
    BY <1>1, <1>10, InCall
  <2>2. HasRow(cid[d])' => HasRow(cid[d])
    BY <1>2, <1>5, <2>1 DEF HasRow, callVars
  <2> QED
    BY <1>2, <1>7, <1>8, <1>10, <2>1, <2>2, AccountedKept DEF callVars
<1>11. ASSUME NEW d \in Callers, pc[d] = "idle" PROVE Accounted(d)'
  BY <1>2, <1>11, IdleAccounted DEF callVars
<1> QED
  BY <1>9, <1>10, <1>11

(* The gateway: before it serves, and once it is gone, nothing runs.       *)
LEMMA GatewayAccounts ==
    ASSUME AcctInv, TrackInv', ReconcileStartup \/ Shutdown \/ Crash
    PROVE  AcctInv'
<1>1. CASE gw = "down" \/ GatewayGone
  <2>1. /\ \A r \in Runs : wpc'[r] = "free"
        /\ \A d \in Callers : pc'[d] = "idle"
    <3>1. CASE GatewayGone
      BY <3>1 DEF GatewayGone, AllRuns, AllCallers
    <3>2. CASE gw = "down" /\ ReconcileStartup
      BY <3>2 DEF ReconcileStartup, AcctInv, TrackInv, RunsTracked, QuietWhenDown, Up, runVars, callVars
    <3> QED
      BY <1>1, <3>1, <3>2 DEF Shutdown, Sigterm, ShutdownBegin, ShutdownKill, ShutdownDone, Crash
  <2>2. \A id \in Ids : sessions'[id] = NoRun
    BY <2>1 DEF TrackInv, PhantomInv, TypeOK, MemTypeOK, LiveMap, Tracked
  <2> QED
    BY <2>1, <2>2, IdleAccounted DEF AcctInv, MapAccounts
<1>2. CASE Sigterm \/ ShutdownBegin \/ ShutdownKill
  <2>1. UNCHANGED <<row, rowAcct, faults, sessions, runAcct, callVars>>
    BY <1>2 DEF Sigterm, ShutdownBegin, ShutdownKill, dbVars, runVars
  <2> QED
    BY <2>1 DEF AcctInv, MapAccounts, Switching, Accounted, HasRow, callVars
<1> QED
  BY <1>1, <1>2 DEF Shutdown, ShutdownDone, Crash, ReconcileStartup

(* The invariant is inductive under the same hypothesis.                   *)
LEMMA AcctNext == AcctInv /\ OneCallPerSession /\ [Next]_vars => AcctInv'
<1> SUFFICES ASSUME AcctInv, OneCallPerSession, [Next]_vars PROVE AcctInv'
  OBVIOUS
<1>1. TrackInv /\ TrackInv'
  BY TrackNext DEF AcctInv
<1>2. PhantomInv'
  BY <1>1 DEF TrackInv
<1>3. CASE UNCHANGED vars
  BY <1>1, <1>3 DEF AcctInv, MapAccounts, Switching, Accounted, HasRow, vars, dbVars, memVars, runVars, callVars
<1>4. ASSUME NEW c \in Callers, Begin(c) PROVE AcctInv'
  BY <1>1, <1>4, BeginAccounts
<1>5. ASSUME NEW c \in Callers, CallerStep(c) \/ StopCancelled(c) PROVE AcctInv'
  <2>1. Bystanders(c)
    BY <1>1, <1>2, <1>5, CallTracks
  <2> QED
    BY <1>1, <1>5, <2>1, CallAccounts
<1>6. ASSUME NEW r \in Runs, ProcExit(r) \/ WaitExit(r) PROVE AcctInv'
  BY <1>1, <1>6, DetectorAccounts
<1>7. CASE ReconcileStartup \/ Shutdown \/ Crash
  BY <1>1, <1>7, GatewayAccounts
<1> QED
  BY <1>3, <1>4, <1>5, <1>6, <1>7 DEF Next

(* When no call is under way and no write has failed, the account a tracked*)
(* process runs under is the one its row names: Start takes it from the    *)
(* row, Insert writes it, Update*Account follows every switch that spawned *)
(* under another one, and a rollback returns to the one the row still has. *)
THEOREM SwitchesAndRowsAgree == Spec /\ []OneCallPerSession => []AccountAgrees
<1>1. AcctInv => AccountAgrees
  BY QuietAccounts
<1> QED
  BY <1>1, AcctInit, AcctNext, PTL DEF Spec
=============================================================================
