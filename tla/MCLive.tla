------------------------------- MODULE MCLive -------------------------------
(* What must eventually happen in the components of the gateway, on      *)
(* small instances. Each behaviour exercises one component, the one in   *)
(* focus; of a module with several parts the instance has the part in    *)
(* question only. A property has the fairness it needs as its premise:   *)
(* the goroutines and timers of the component go on.                     *)
EXTENDS Integers, Sequences

CONSTANT NoValue  \* no value

VARIABLES
    focus,  \* the instance this behaviour exercises
    written, inHand, run, subs, queue, hpc, recv, base, missed,
    clock, state, endedCh, lastActivity, isIdle, expectTurn, expectAt, apc, ipc, inow,
    tpc, tnow, arms, turns, wakes, idles, outputSince, falseTurn, waiting, answered,
    busSubs, closed, ch, chState, visit, count, reader, got, late, panic,
    live, hubQueue, published, armed, hubHpc, msg, pending, typing, timer, out,
    notifyState, muted, lastSess, activeSess, outboundIndex, lastDelivered, newest,
    status, replies, cards,
    platform, skPc, skCancel, skDone, skHeld, skConn, skCur, skWire, skStop, skTaken,
    skFrame, skSends, skAcked, skHandled, skReady, skOwed,
    byToken, bridge, wsPc, wsOpen, wsFound, wsCaps, wsDone, wsLate,
    kaMode, kaReq, kaCount, kaLast, kaPc, kaSup, kaCancelled, kaIdle, kaCtx, kaFails,
    kaQuiet,
    sdPc, sdCtx, sdTime, sdDrained, sdReq, sdCalls, sdClosed, sdQueued, sdLogged,
    sdFailed, sdSess, sdTermAt, sdOut, sdEvents, sdAudited, sdBg, sdNext, sdGaveUp,
    sdLate,
    apKind, apRow, apHome, apMail, apBase, apArmed, apCall, apImport, apWatch, apSess,
    apOps, apHost, apBreaks, apUnseen, apStir,
    inRow, inReg, inCache, inKeys, inOwner, inClear, inVer, inVers, inOps, inCross,
    inHeld, inFails, inProbe, inFixed, inDown, inSaid, inTold,
    suLatest, suSums, suIn, suTarget, suNew, suNext, suDirty, suKept, suDaemon, suLive,
    suFile, suReq, suUpd, suAsks, suWorld, suFails, suCrashes, suDone, suRaced,
    suShared, suBlind, suCut, suDeaf, suOlder, suEarly,
    rtSeats, rtOpen, rtLog, rtRun, rtPosts, rtPlan, rtJob, rtResult, rtLive, rtWork,
    rtTasks,
    mmRows, mmEmb, mmCall, mmPass, mmCalls, mmRestarts, mmFails, mmAcked, mmRaced,
    mmProject,
    mwRow, mwTask, mwEdit, mwCall, mwEdits, mwFails, mwMade, mwWasOn, mwTaskOn,
    mwRecorded, mwDirs, mwLost,
    cpPrompts, cpEnabled, cpPolicy, cpState, cpRun, cpFacts, cpFails, cpRestarts,
    cpChanges, cpTwice, cpSeen, cpMissed, cpExcuse,
    pdDoc, pdSec, pdFrozen, pdProp, pdRem, pdFile, pdW, pdQueue, pdJour, pdOps,
    pdEvents, pdFails, pdDel, pdLogged, pdLost, pdOverlap,
    kbFacts, kbPage, kbSet, kbBanned, kbPend, kbRej, kbRun, kbOps, kbFails, kbCalls,
    kbFlip,
    cuKind, cuDoc, cuMode, cuProposals, cuStatus, cuSession, cuLaunched, cuMsgs,
    cuTurn, cuPin, cuRules, cuApply, cuEsc, cuAdmin, cuFails, cuLost, cuTwice,
    xpRow, xpFile, xpBuild, xpReap, xpDel, xpExcuse, xpTorn, xpFaults, xpTable, xpImp,
    vgHead, vgRemote, vgRef, vgMod, vgNew, vgIndex, vgRebase, vgConflict, vgMarks,
    vgBad, vgStash, vgRefs, vgCfg, vgDue, vgSync, vgCommit, vgReset, vgTicks, vgHand,
    vgFails, vgDuring, vgRaced, vgClash

streamVars == <<written, inHand, run, subs, queue, hpc, recv, base, missed>>
activityVars == <<clock, state, endedCh, lastActivity, isIdle, expectTurn, expectAt,
    apc, ipc, inow, tpc, tnow, arms, turns, wakes, idles, outputSince, falseTurn,
    waiting, answered>>
busVars == <<busSubs, closed, ch, chState, visit, count, reader, got, late, panic>>
hubVars == <<live, hubQueue, published, armed, hubHpc, msg, pending, typing, timer,
    out, notifyState, muted, lastSess, activeSess, outboundIndex, lastDelivered,
    newest, status, replies, cards>>
socketVars == <<platform, skPc, skCancel, skDone, skHeld, skConn, skCur, skWire,
    skStop, skTaken, skFrame, skSends, skAcked, skHandled, skReady, skOwed>>
bridgeVars == <<byToken, bridge, wsPc, wsOpen, wsFound, wsCaps, wsDone, wsLate>>
awakeVars == <<kaMode, kaReq, kaCount, kaLast, kaPc, kaSup, kaCancelled, kaIdle, kaCtx,
    kaFails, kaQuiet>>
shutdownVars == <<sdPc, sdCtx, sdTime, sdDrained, sdReq, sdCalls, sdClosed, sdQueued,
    sdLogged, sdFailed, sdSess, sdTermAt, sdOut, sdEvents, sdAudited, sdBg, sdNext,
    sdGaveUp, sdLate>>
accountVars == <<apKind, apRow, apHome, apMail, apBase, apArmed, apCall, apImport,
    apWatch, apSess, apOps, apHost, apBreaks, apUnseen, apStir>>
healthVars == <<inRow, inReg, inCache, inKeys, inOwner, inClear, inVer, inVers, inOps,
    inCross, inHeld, inFails, inProbe, inFixed, inDown, inSaid, inTold>>
updateVars == <<suLatest, suSums, suIn, suTarget, suNew, suNext, suDirty, suKept,
    suDaemon, suLive, suFile, suReq, suUpd, suAsks, suWorld, suFails, suCrashes,
    suDone, suRaced, suShared, suBlind, suCut, suDeaf, suOlder, suEarly>>
debateVars == <<rtSeats, rtOpen, rtLog, rtRun, rtPosts, rtPlan, rtJob, rtResult,
    rtLive, rtWork, rtTasks>>
memoryVars == <<mmRows, mmEmb, mmCall, mmPass, mmCalls, mmRestarts, mmFails, mmAcked,
    mmRaced, mmProject>>
workerVars == <<mwRow, mwTask, mwEdit, mwCall, mwEdits, mwFails, mwMade, mwWasOn,
    mwTaskOn, mwRecorded, mwDirs, mwLost>>
backoffVars == <<cpPrompts, cpEnabled, cpPolicy, cpState, cpRun, cpFacts, cpFails,
    cpRestarts, cpChanges, cpTwice, cpSeen, cpMissed, cpExcuse>>
documentVars == <<pdDoc, pdSec, pdFrozen, pdProp, pdRem, pdFile, pdW, pdQueue, pdJour,
    pdOps, pdEvents, pdFails, pdDel, pdLogged, pdLost, pdOverlap>>
drafterVars == <<kbFacts, kbPage, kbSet, kbBanned, kbPend, kbRej, kbRun, kbOps,
    kbFails, kbCalls, kbFlip>>
threadVars == <<cuKind, cuDoc, cuMode, cuProposals, cuStatus, cuSession, cuLaunched,
    cuMsgs, cuTurn, cuPin, cuRules, cuApply, cuEsc, cuAdmin, cuFails, cuLost, cuTwice>>
zipVars == <<xpRow, xpFile, xpBuild, xpReap, xpDel, xpExcuse, xpTorn, xpFaults,
    xpTable, xpImp>>
vaultVars == <<vgHead, vgRemote, vgRef, vgMod, vgNew, vgIndex, vgRebase, vgConflict,
    vgMarks, vgBad, vgStash, vgRefs, vgCfg, vgDue, vgSync, vgCommit, vgReset, vgTicks,
    vgHand, vgFails, vgDuring, vgRaced, vgClash>>
vars == <<focus, streamVars, activityVars, busVars, hubVars, socketVars, bridgeVars,
    awakeVars, shutdownVars, accountVars, healthVars, updateVars, debateVars,
    memoryVars, workerVars, backoffVars, documentVars, drafterVars, threadVars,
    zipVars, vaultVars>>

(* Texts 1 and 2 are close enough to be merged.                            *)
Sim(a, b) == (a < 3) = (b < 3)

(* Two clients stream a process's output.                                *)
Stream == INSTANCE SessionStream WITH Clients <- {"a", "b"}, RingSize <- 2,
        FanoutBuffer <- 1, MaxOutput <- 2

(* Output and a chat message race the watchers.                          *)
Act == INSTANCE SessionActivity WITH Actors <- {"pump", "chat"}, IdleThreshold <- 1,
        TurnThreshold <- 1, MaxActivity <- 1, MaxTime <- 2, MaxArms <- 1

(* Two publishers and two subscribers until the bus closes.              *)
Bus == INSTANCE EventBus WITH SubIds <- {"a", "b"},
        Pattern <- [a |-> <<"session", "*">>, b |-> <<"session", "idle">>],
        Publishers <- {"p", "q"},
        Topics <- {<<"session", "idle">>, <<"session", "ended">>}, Buffer <- 1,
        MaxEvents <- 1, subs <- busSubs

(* Two messages to one session.                                          *)
Hub == INSTANCE ChannelHub WITH Channels <- {"c"}, Sessions <- {"s1"},
        Msgs <- {"m1", "m2"}, Texts <- {"x"}, NotifyMode <- "once", TopicBuffer <- 1,
        OutboundMax <- 3, MaxEvents <- 2, None <- NoValue, queue <- hubQueue,
        hpc <- hubHpc

(* A connection that dies, and a stop.                                   *)
Sock == INSTANCE ChatAdapters WITH Parts <- {"socket"}, MaxUpdates <- 0, Polls <- {},
        ChunkSize <- 1, MaxLines <- 0, Frames <- {1, 2}, Ignored <- {2},
        Presses <- {1}, Conns <- 1..2, MaxSends <- 2, Bridges <- {}, Adapters <- {},
        Caps <- {}, Accepted <- {}, tgUpdates <- NoValue, tgConfirmed <- NoValue,
        tgPoll <- NoValue, tgSeen <- NoValue, tgPanic <- NoValue, tgCard <- NoValue,
        byToken <- NoValue, bridge <- NoValue, wsPc <- NoValue, wsOpen <- NoValue,
        wsFound <- NoValue, wsCaps <- NoValue, wsDone <- NoValue, wsLate <- NoValue

(* Two bridges that are stopped.                                         *)
Brg == INSTANCE ChatAdapters WITH Parts <- {"bridge"}, MaxUpdates <- 0, Polls <- {},
        ChunkSize <- 1, MaxLines <- 0, Frames <- {}, Ignored <- {}, Presses <- {},
        Conns <- {}, MaxSends <- 0, Bridges <- 1..2, Adapters <- 1..2,
        Caps <- {"card"}, Accepted <- {"card"}, tgUpdates <- NoValue,
        tgConfirmed <- NoValue, tgPoll <- NoValue, tgSeen <- NoValue,
        tgPanic <- NoValue, tgCard <- NoValue, platform <- NoValue, skPc <- NoValue,
        skCancel <- NoValue, skDone <- NoValue, skHeld <- NoValue, skConn <- NoValue,
        skCur <- NoValue, skWire <- NoValue, skStop <- NoValue, skTaken <- NoValue,
        skFrame <- NoValue, skSends <- NoValue, skAcked <- NoValue,
        skHandled <- NoValue, skReady <- NoValue, skOwed <- NoValue

(* Two requests come and go.                                             *)
Ka == INSTANCE KeepAwake WITH Requests <- {"r1", "r2"}, Recent <- 2, Linger <- 3,
        MaxFails <- 1

(* The drain of a request, a socket and a session.                       *)
Down == INSTANCE Shutdown WITH Reqs <- {"r"}, Sockets <- {"w"}, Sessions <- {"s"},
        Workers <- {}, WaitOrder <- <<"audit">>, Queue <- 1, Budget <- 2,
        KillAfter <- 1

(* A login made while the watcher may fail.                              *)
Acc == INSTANCE AccountPool WITH Kinds <- {"claude"}, Ids <- {1, 2}, Names <- {"x"},
        MaxOps <- 1, MaxHost <- 2, MaxBreaks <- 1

(* An integration that is repaired.                                      *)
Health == INSTANCE Integrations WITH Ids <- {1}, MaxKeys <- 1, Callers <- {"c"},
        MaxAdmin <- 3, MaxVerify <- 0, Probed <- {1}

(* Requests, a failing download and a crash.                             *)
Up == INSTANCE SelfUpdate WITH Admins <- {"a"}, Sessions <- {}, MaxVersion <- 2,
        MaxAsks <- 1, MaxWorld <- 1, MaxFails <- 1, MaxCrashes <- 1

(* One debate.                                                           *)
Debate == INSTANCE RoundTable WITH Members <- <<"a", "b">>, Debates <- {"d1"},
        maxAutoRounds <- 1, Limit <- 99, MaxPosts <- 2, MaxWork <- 0

(* A change of embedder while memories are written.                      *)
Mm == INSTANCE Memory WITH Parts <- {"store"}, Ids <- 1..2, Texts <- 1..2,
        Similar <- Sim, Embedders <- {"bm25", "bge"}, Callers <- {"a"}, BatchSize <- 2,
        MaxCalls <- 2, MaxRestarts <- 1, MaxFails <- 1, Mems <- {}, Runs <- {},
        MaxRuns <- 0, MaxBreaks <- 0, Dormant <- FALSE, clRow <- NoValue,
        clDec <- NoValue, clRun <- NoValue, clStarted <- NoValue, clBreaks <- NoValue,
        clOld <- NoValue, clRestored <- NoValue, clParallel <- NoValue,
        clSelf <- NoValue, clLost <- NoValue

(* A call while providers are edited.                                    *)
Mw == INSTANCE MemoryWorkers WITH Providers <- 1..2, Seeded <- 1, Keyed <- {1},
        Admins <- {"a", "b"}, Calls <- {"c"}, MaxEdits <- 1, MaxFails <- 1,
        None <- NoValue

(* A summarizer that fails and recovers.                                 *)
Retry == INSTANCE Capture WITH Sessions <- {"op"}, Rules <- {"all", "own"},
        Trigger <- "after_messages", N <- 1, HistoryLimit <- 2, MaxPrompts <- 1,
        MaxFails <- 3, MaxRestarts <- 0, MaxPolicies <- 1

(* A page whose embedding may fail.                                      *)
Vec == INSTANCE ProjectDoc WITH Parts <- {"doc"}, DocGlobal <- TRUE, Lines <- {1},
        Proposals <- {1}, Buffer <- 1, MaxOps <- 2, MaxEvents <- 0, MaxFails <- 2,
        Calls <- {}, BlueprintGlobal <- FALSE, Defaults <- <<>>, Inputs <- {},
        Answers <- {}, MaxCalls <- 0, MaxCancels <- 0, bpRows <- NoValue,
        bpCall <- NoValue, bpMade <- NoValue, bpCancels <- NoValue,
        bpProposal <- NoValue, bpSaved <- NoValue, bpApplied <- NoValue,
        bpRefused <- NoValue

(* A page that needs a refresh.                                          *)
Draft == INSTANCE Knowledge WITH Parts <- {"draft"}, Sessions <- {}, Titles <- {},
        Slug <- <<>>, MinRecurrence <- 1, MaxPerSweep <- 0, MaxNodes <- 0, Ops <- {},
        MaxChanges <- 0, Kind <- "kb", Lines <- {1, 2}, Hints <- {""},
        Runs <- {"sweep"}, MaxOps <- 3, MaxFails <- 1, knLog <- NoValue,
        knSig <- NoValue, knSweep <- NoValue, knNode <- NoValue, knFile <- NoValue,
        knScript <- NoValue, knCall <- NoValue, knDistill <- NoValue,
        knFiling <- NoValue, knCurate <- NoValue, knChanges <- NoValue,
        knReviewed <- NoValue, knShared <- NoValue, knExcuse <- NoValue,
        knKept <- NoValue

(* A turn whose calls may fail, escalated meanwhile.                     *)
Turn == INSTANCE Curation WITH Kinds <- {"kb_page"}, Turns <- {1}, Saves <- {8},
        Appliers <- {}, Escalators <- {"e"}, MessageLimit <- 3, DocCap <- 2,
        MaxPins <- 0, MaxAdmin <- 1, MaxFails <- 2

(* An export that expires.                                               *)
Zip == INSTANCE ExportImport WITH
        Bundle <- <<[id |-> "x", kind |-> "row"], [id |-> "y", kind |-> "bad"], [id |-> "z", kind |-> "row"], [id |-> "v", kind |-> "taken"], [id |-> "w", kind |-> "malformed"]>>,
        Here <- {"x"}, Importers <- {"i"}, MaxFaults <- 1

(* An edit on its way to the remote.                                     *)
Vault == INSTANCE VaultGit WITH Edits <- {1}, Theirs <- {8}, Conflicts <- FALSE,
        Configs <- {{"enabled", "push", "pull"}}, MaxTicks <- 0, MaxHand <- 1,
        MaxFails <- 1

Foci == {"stream", "activity", "bus", "hub", "socket", "bridge", "awake", "shutdown",
    "account", "health", "update", "debate", "memory", "worker", "backoff", "document",
    "drafter", "thread", "zip", "vault"}

Init ==
    /\ focus \in Foci
    /\ Stream!Init
    /\ Act!Init
    /\ Bus!Init
    /\ Hub!Init
    /\ Sock!SocketInit /\ (focus # "socket" => platform = "slack")
    /\ Brg!BridgeInit /\ (focus # "bridge" => wsCaps = [c \in 1..2 |-> {}])
    /\ Ka!Init /\ (focus # "awake" => kaMode = "on_demand")
    /\ Down!Init
    /\ Acc!Init /\ (focus # "account" => apKind = "claude")
    /\ Health!Init
    /\ Up!Init /\ (focus # "update" => suSums)
    /\ Debate!Init
    /\ Mm!StoreInit
    /\ Mw!Init
    /\ Retry!Init
    /\ Vec!DocInit
    /\ Draft!DraftInit
    /\ Turn!Init
    /\ Zip!Init
    /\ Vault!Init

(* Every component but the one named keeps its state.                     *)
Others(f) ==
    /\ UNCHANGED focus
    /\ IF f = "stream" THEN TRUE ELSE UNCHANGED streamVars
    /\ IF f = "activity" THEN TRUE ELSE UNCHANGED activityVars
    /\ IF f = "bus" THEN TRUE ELSE UNCHANGED busVars
    /\ IF f = "hub" THEN TRUE ELSE UNCHANGED hubVars
    /\ IF f = "socket" THEN TRUE ELSE UNCHANGED socketVars
    /\ IF f = "bridge" THEN TRUE ELSE UNCHANGED bridgeVars
    /\ IF f = "awake" THEN TRUE ELSE UNCHANGED awakeVars
    /\ IF f = "shutdown" THEN TRUE ELSE UNCHANGED shutdownVars
    /\ IF f = "account" THEN TRUE ELSE UNCHANGED accountVars
    /\ IF f = "health" THEN TRUE ELSE UNCHANGED healthVars
    /\ IF f = "update" THEN TRUE ELSE UNCHANGED updateVars
    /\ IF f = "debate" THEN TRUE ELSE UNCHANGED debateVars
    /\ IF f = "memory" THEN TRUE ELSE UNCHANGED memoryVars
    /\ IF f = "worker" THEN TRUE ELSE UNCHANGED workerVars
    /\ IF f = "backoff" THEN TRUE ELSE UNCHANGED backoffVars
    /\ IF f = "document" THEN TRUE ELSE UNCHANGED documentVars
    /\ IF f = "drafter" THEN TRUE ELSE UNCHANGED drafterVars
    /\ IF f = "thread" THEN TRUE ELSE UNCHANGED threadVars
    /\ IF f = "zip" THEN TRUE ELSE UNCHANGED zipVars
    /\ IF f = "vault" THEN TRUE ELSE UNCHANGED vaultVars

StreamNext == focus = "stream" /\ Stream!Next /\ Others("stream")
ActNext == focus = "activity" /\ Act!Next /\ Others("activity")
BusNext == focus = "bus" /\ Bus!Next /\ Others("bus")
HubNext == focus = "hub" /\ Hub!Next /\ Others("hub")
SockNext == focus = "socket" /\ Sock!SocketNext /\ Others("socket")
BrgNext == focus = "bridge" /\ Brg!BridgeNext /\ Others("bridge")
KaNext == focus = "awake" /\ Ka!Next /\ Others("awake")
DownNext == focus = "shutdown" /\ Down!Next /\ Others("shutdown")
AccNext == focus = "account" /\ Acc!Next /\ Others("account")
HealthNext == focus = "health" /\ Health!Next /\ Others("health")
UpNext == focus = "update" /\ Up!Next /\ Others("update")
DebateNext == focus = "debate" /\ Debate!Next /\ Others("debate")
MmNext == focus = "memory" /\ Mm!StoreNext /\ Others("memory")
MwNext == focus = "worker" /\ Mw!Next /\ Others("worker")
RetryNext == focus = "backoff" /\ Retry!Next /\ Others("backoff")
VecNext == focus = "document" /\ Vec!DocNext /\ Others("document")
DraftNext == focus = "drafter" /\ Draft!DraftNext /\ Others("drafter")
TurnNext == focus = "thread" /\ Turn!Next /\ Others("thread")
ZipNext == focus = "zip" /\ Zip!Next /\ Others("zip")
VaultNext == focus = "vault" /\ Vault!Next /\ Others("vault")

Next ==
    \/ StreamNext
    \/ ActNext
    \/ BusNext
    \/ HubNext
    \/ SockNext
    \/ BrgNext
    \/ KaNext
    \/ DownNext
    \/ AccNext
    \/ HealthNext
    \/ UpNext
    \/ DebateNext
    \/ MmNext
    \/ MwNext
    \/ RetryNext
    \/ VecNext
    \/ DraftNext
    \/ TurnNext
    \/ ZipNext
    \/ VaultNext

Spec == Init /\ [][Next]_vars

(* The goroutines and timers of each component that go on: what its      *)
(* module names weakly fair, and strongly fair what recurs though it may *)
(* be held up in between.                                                *)
StreamFair ==
    /\ WF_streamVars(focus = "stream" /\ Stream!Fanout)
    /\ WF_streamVars(focus = "stream" /\ Stream!ExitStep)
    /\ WF_streamVars(focus = "stream" /\ Stream!HandlerStep("a"))
    /\ WF_streamVars(focus = "stream" /\ Stream!HandlerStep("b"))

ActFair ==
    /\ WF_activityVars(focus = "activity" /\ Act!IdleWatcher)
    /\ WF_activityVars(focus = "activity" /\ Act!TurnWatcher)
    /\ WF_activityVars(focus = "activity" /\ Act!CloseEndedCh)
    /\ WF_activityVars(focus = "activity" /\ Act!ActorStep("pump"))
    /\ WF_activityVars(focus = "activity" /\ Act!ActorStep("chat"))
    /\ SF_activityVars(focus = "activity" /\ Act!Tick)

BusFair ==
    /\ WF_busVars(focus = "bus" /\ Bus!PublishTo("p"))
    /\ WF_busVars(focus = "bus" /\ Bus!PublishTo("q"))
    /\ WF_busVars(focus = "bus" /\ Bus!Receive("a"))
    /\ WF_busVars(focus = "bus" /\ Bus!Receive("b"))

HubFair ==
    /\ WF_hubVars(focus = "hub" /\ Hub!OutboundStep)
    /\ WF_hubVars(focus = "hub" /\ Hub!HandlerStep("m1"))
    /\ WF_hubVars(focus = "hub" /\ Hub!TimerStep("m1"))
    /\ WF_hubVars(focus = "hub" /\ Hub!HandlerStep("m2"))
    /\ WF_hubVars(focus = "hub" /\ Hub!TimerStep("m2"))

SockFair ==
    /\ WF_socketVars(focus = "socket" /\ Sock!Loop)
    /\ WF_socketVars(focus = "socket" /\ Sock!StopCloses)
    /\ WF_socketVars(focus = "socket" /\ Sock!SocketStopReturns)

BrgFair ==
    /\ WF_bridgeVars(focus = "bridge" /\ Brg!ReadPumpEnds(1))
    /\ WF_bridgeVars(focus = "bridge" /\ Brg!ReadPumpEnds(2))
    /\ WF_bridgeVars(focus = "bridge" /\ Brg!BridgeStopReturns(1))
    /\ WF_bridgeVars(focus = "bridge" /\ Brg!BridgeStopReturns(2))

KaFair ==
    /\ WF_awakeVars(focus = "awake" /\ Ka!Keeper)
    /\ WF_awakeVars(focus = "awake" /\ Ka!Supervisor)

DownFair ==
    /\ WF_shutdownVars(focus = "shutdown" /\ Down!RunStep)
    /\ WF_shutdownVars(focus = "shutdown" /\ Down!Tick)
    /\ WF_shutdownVars(focus = "shutdown" /\ Down!Kill)
    /\ WF_shutdownVars(focus = "shutdown" /\ Down!Consume)

AccFair ==
    /\ WF_accountVars(focus = "account" /\ Acc!Import)
    /\ WF_accountVars(focus = "account" /\ Acc!WatchBoot)
    /\ WF_accountVars(focus = "account" /\ Acc!WatchOnce)
    /\ WF_accountVars(focus = "account" /\ Acc!WatchEvent("x"))
    /\ SF_accountVars(focus = "account" /\ Acc!WatchScan)

HealthFair ==
    /\ WF_healthVars(focus = "health" /\ Health!Tick(1))
    /\ WF_healthVars(focus = "health" /\ (\E a \in Health!Answers : Health!Probe(a)))
    /\ SF_healthVars(focus = "health" /\ Health!Recorded)

UpFair ==
    /\ WF_updateVars(focus = "update" /\ Up!UnitStarts)
    /\ WF_updateVars(focus = "update" /\ Up!Step("unit"))

DebateFair ==
    /\ WF_debateVars(focus = "debate" /\ Debate!Debate("d1"))

MmFair ==
    /\ WF_memoryVars(focus = "memory" /\ Mm!Pass)

MwFair ==
    /\ WF_workerVars(focus = "worker" /\ Mw!Step("c"))
    /\ WF_workerVars(focus = "worker" /\ Mw!ChildExits("c"))

RetryFair ==
    /\ WF_backoffVars(focus = "backoff" /\ (Retry!Pass("tick") \/ Retry!SummarizeFails("tick")))
    /\ WF_backoffVars(focus = "backoff" /\ (Retry!Pass("now") \/ Retry!SummarizeFails("now")))
    /\ WF_backoffVars(focus = "backoff" /\ Retry!PauseOver(<<"all", "op">>))
    /\ WF_backoffVars(focus = "backoff" /\ Retry!PauseOver(<<"own", "op">>))
    /\ SF_backoffVars(focus = "backoff" /\ Retry!Begin("tick", "op"))

VecFair ==
    /\ WF_documentVars(focus = "document" /\ Vec!DocTail("op"))
    /\ WF_documentVars(focus = "document" /\ Vec!DirectPut("op"))
    /\ WF_documentVars(focus = "document" /\ Vec!DocTail("agent"))
    /\ WF_documentVars(focus = "document" /\ Vec!DirectPut("agent"))
    /\ WF_documentVars(focus = "document" /\ Vec!DocTail("drift"))
    /\ WF_documentVars(focus = "document" /\ Vec!DirectPut("drift"))
    /\ WF_documentVars(focus = "document" /\ Vec!DocTail("apr"))
    /\ WF_documentVars(focus = "document" /\ Vec!DirectPut("apr"))
    /\ WF_documentVars(focus = "document" /\ Vec!DocTail("fill"))
    /\ WF_documentVars(focus = "document" /\ Vec!DirectPut("fill"))
    /\ WF_documentVars(focus = "document" /\ Vec!DocTail("log"))
    /\ WF_documentVars(focus = "document" /\ Vec!DirectPut("log"))
    /\ WF_documentVars(focus = "document" /\ Vec!ApproveCommit)
    /\ WF_documentVars(focus = "document" /\ Vec!BackfillRead)
    /\ WF_documentVars(focus = "document" /\ Vec!BackfillWrite)
    /\ WF_documentVars(focus = "document" /\ Vec!Journal)

DraftFair ==
    /\ WF_drafterVars(focus = "drafter" /\ Draft!Draft("sweep"))

TurnFair ==
    /\ WF_threadVars(focus = "thread" /\ Turn!TurnStep(1))

ZipFair ==
    /\ WF_zipVars(focus = "zip" /\ Zip!BuildExportZip)
    /\ WF_zipVars(focus = "zip" /\ Zip!MarkExportReady)
    /\ WF_zipVars(focus = "zip" /\ Zip!Expires)
    /\ WF_zipVars(focus = "zip" /\ Zip!Reap)
    /\ WF_zipVars(focus = "zip" /\ (Zip!ImportRow("i") \/ Zip!ImportEnds("i")))

VaultFair ==
    /\ WF_vaultVars(focus = "vault" /\ Vault!TickBegins)
    /\ WF_vaultVars(focus = "vault" /\ Vault!SyncStep)
    /\ WF_vaultVars(focus = "vault" /\ Vault!Elapse("pull"))
    /\ WF_vaultVars(focus = "vault" /\ Vault!Elapse("commit"))

(* What is queued is delivered and what is asked to stop stops, given    *)
(* that the goroutines of each part go on: a client that keeps up is     *)
(* sent what was queued for it, the readers of a closed bus end, a       *)
(* typing indicator and a dead link are left, a stopped adapter and the  *)
(* gateway's own shutdown return, a worker's call and a curation turn    *)
(* end, a debate ends.                                                   *)
QueuesEnd ==
    /\ focus = "stream" /\ StreamFair => Stream!QueuedIsSent
    /\ focus = "bus" /\ BusFair => Bus!ReadersEnd
    /\ focus = "hub" /\ HubFair => Hub!TypingStops
    /\ focus = "socket" /\ SockFair => Sock!StopEnds /\ Sock!DeadLinkLeft
    /\ focus = "bridge" /\ BrgFair => Brg!BridgeStops
    /\ focus = "shutdown" /\ DownFair => Down!RunReturns
    /\ focus = "worker" /\ MwFair => Mw!CallEnds
    /\ focus = "thread" /\ TurnFair => Turn!TurnEnds
    /\ focus = "debate" /\ DebateFair => Debate!DebateEnds

(* What a watcher is there for it notices, given that its ticks recur:   *)
(* silence and the end of a turn, the need for wakefulness and its end,  *)
(* a login made outside, an integration that works again, a request to   *)
(* update.                                                               *)
WatchersNotice ==
    /\ focus = "activity" /\ ActFair => Act!SilenceNoticed /\ Act!TurnSettles
    /\ focus = "awake" /\ KaFair => Ka!HeldWhileUsed /\ Ka!SleepsWhenQuiet
    /\ focus = "account" /\ AccFair => Acc!LoginSeen
    /\ focus = "health" /\ HealthFair => Health!BackInService
    /\ focus = "update" /\ UpFair => Up!RequestCleared

(* What a background pass owes arrives, though its attempts may fail:    *)
(* recall converges on the embedder in use, a failed capture is tried    *)
(* again, a vector follows its text, a page whose evidence changed is    *)
(* refreshed, an expired export goes, an edit of the vault reaches the   *)
(* remote.                                                               *)
PassesArrive ==
    /\ focus = "memory" /\ MmFair => Mm!RecallConverges
    /\ focus = "backoff" /\ RetryFair => Retry!FailureRetried
    /\ focus = "document" /\ VecFair => Vec!VectorArrives
    /\ focus = "drafter" /\ DraftFair => Draft!RefreshArrives
    /\ focus = "zip" /\ ZipFair => Zip!ExpiredGoes
    /\ focus = "vault" /\ VaultFair => Vault!EditArrives
=============================================================================
