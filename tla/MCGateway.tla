----------------------------- MODULE MCGateway ------------------------------
(* The components of the gateway on small instances. They run in         *)
(* goroutines of their own, under locks and tables of their own, so each *)
(* behaviour exercises one instance, the one in focus: its variables are *)
(* the first of v1, v2, ..., the rest are not used. A property is a      *)
(* conjunction over the instances it is about; what each part says is    *)
(* stated in the component's module.                                     *)
EXTENDS Integers, Sequences

CONSTANTS
    Foci,     \* instances to exercise
    NoValue   \* no value

VARIABLES
    focus,  \* the instance this behaviour exercises
    v1, v2, v3, v4, v5, v6, v7, v8, v9, v10, v11, v12, v13, v14, v15, v16, v17, v18,
    v19, v20, v21, v22, v23, v24, v25, v26, v27, v28, v29, v30

vars == <<focus, v1, v2, v3, v4, v5, v6, v7, v8, v9, v10, v11, v12, v13, v14, v15, v16,
         v17, v18, v19, v20, v21, v22, v23, v24, v25, v26, v27, v28, v29, v30>>

(* An instance of n variables leaves the others alone.                     *)
Unused(n) ==
    /\ IF n < 7 THEN v7 = 0 ELSE TRUE
    /\ IF n < 8 THEN v8 = 0 ELSE TRUE
    /\ IF n < 9 THEN v9 = 0 ELSE TRUE
    /\ IF n < 10 THEN v10 = 0 ELSE TRUE
    /\ IF n < 11 THEN v11 = 0 ELSE TRUE
    /\ IF n < 12 THEN v12 = 0 ELSE TRUE
    /\ IF n < 13 THEN v13 = 0 ELSE TRUE
    /\ IF n < 14 THEN v14 = 0 ELSE TRUE
    /\ IF n < 15 THEN v15 = 0 ELSE TRUE
    /\ IF n < 16 THEN v16 = 0 ELSE TRUE
    /\ IF n < 17 THEN v17 = 0 ELSE TRUE
    /\ IF n < 18 THEN v18 = 0 ELSE TRUE
    /\ IF n < 19 THEN v19 = 0 ELSE TRUE
    /\ IF n < 20 THEN v20 = 0 ELSE TRUE
    /\ IF n < 21 THEN v21 = 0 ELSE TRUE
    /\ IF n < 22 THEN v22 = 0 ELSE TRUE
    /\ IF n < 23 THEN v23 = 0 ELSE TRUE
    /\ IF n < 24 THEN v24 = 0 ELSE TRUE
    /\ IF n < 25 THEN v25 = 0 ELSE TRUE
    /\ IF n < 26 THEN v26 = 0 ELSE TRUE
    /\ IF n < 27 THEN v27 = 0 ELSE TRUE
    /\ IF n < 28 THEN v28 = 0 ELSE TRUE
    /\ IF n < 29 THEN v29 = 0 ELSE TRUE
    /\ IF n < 30 THEN v30 = 0 ELSE TRUE

Frame(n) ==
    /\ UNCHANGED focus
    /\ IF n < 7 THEN UNCHANGED v7 ELSE TRUE
    /\ IF n < 8 THEN UNCHANGED v8 ELSE TRUE
    /\ IF n < 9 THEN UNCHANGED v9 ELSE TRUE
    /\ IF n < 10 THEN UNCHANGED v10 ELSE TRUE
    /\ IF n < 11 THEN UNCHANGED v11 ELSE TRUE
    /\ IF n < 12 THEN UNCHANGED v12 ELSE TRUE
    /\ IF n < 13 THEN UNCHANGED v13 ELSE TRUE
    /\ IF n < 14 THEN UNCHANGED v14 ELSE TRUE
    /\ IF n < 15 THEN UNCHANGED v15 ELSE TRUE
    /\ IF n < 16 THEN UNCHANGED v16 ELSE TRUE
    /\ IF n < 17 THEN UNCHANGED v17 ELSE TRUE
    /\ IF n < 18 THEN UNCHANGED v18 ELSE TRUE
    /\ IF n < 19 THEN UNCHANGED v19 ELSE TRUE
    /\ IF n < 20 THEN UNCHANGED v20 ELSE TRUE
    /\ IF n < 21 THEN UNCHANGED v21 ELSE TRUE
    /\ IF n < 22 THEN UNCHANGED v22 ELSE TRUE
    /\ IF n < 23 THEN UNCHANGED v23 ELSE TRUE
    /\ IF n < 24 THEN UNCHANGED v24 ELSE TRUE
    /\ IF n < 25 THEN UNCHANGED v25 ELSE TRUE
    /\ IF n < 26 THEN UNCHANGED v26 ELSE TRUE
    /\ IF n < 27 THEN UNCHANGED v27 ELSE TRUE
    /\ IF n < 28 THEN UNCHANGED v28 ELSE TRUE
    /\ IF n < 29 THEN UNCHANGED v29 ELSE TRUE
    /\ IF n < 30 THEN UNCHANGED v30 ELSE TRUE

(* Statements, as the words the guard tells apart.                         *)
Sts == {<<"SELECT">>, <<"SELECT", "f">>, <<"WITH", "INSERT", "SELECT">>,
        <<"EXPLAIN", "INSERT">>, <<"EXPLAIN", "ANALYZE", "INSERT">>,
        <<"EXPLAIN", "(", "ANALYZE", ")", "DELETE">>, <<"CREATE">>, <<"COMMIT">>,
        <<"SELECT", ";", "INSERT">>, <<"CALL", ";">>}

(* Texts 1 and 2 are close enough to be merged.                            *)
Sim(a, b) == (a < 3) = (b < 3)

(* Sections of a blueprint: the defaults, what the operator sends, what    *)
(* the model proposes.                                                     *)
Section(slug, mode, policy, pinned, title) ==
    [slug |-> slug, mode |-> mode, policy |-> policy, pinned |-> pinned, title |-> title,
     kb |-> FALSE, nature |-> "", exclusions |-> FALSE]
Sections == <<Section("overview", "ai", "proposal", TRUE, "D"), Section("objective", "ai", "direct", FALSE, "D")>>
Sent == {Section("objective", "human", "direct", FALSE, "O"), Section("overview", "ai", "", FALSE, "O"),
         Section("notes", "ai", "", TRUE, "O"), Section("notes", "session", "", FALSE, "O")}
Proposed == {<<Section("overview", "ai", "", TRUE, "A"), Section("objective", "ai", "", FALSE, t),
               Section("notes", m, "", FALSE, "A")>>: t \in {"A", ""}, m \in {"ai", "session"}}

-----------------------------------------------------------------------------
(* Two publishers race two subscribers with overlapping patterns and a   *)
(* channel of one.                                                       *)
Bus == INSTANCE EventBus WITH SubIds <- {"a", "b"},
        Pattern <- [a |-> <<"session", "*">>, b |-> <<"session", "idle">>],
        Publishers <- {"p", "q"},
        Topics <- {<<"session", "idle">>, <<"session", "ended">>}, Buffer <- 1,
        MaxEvents <- 2, subs <- v1, closed <- v2, ch <- v3, chState <- v4, visit <- v5,
        count <- v6, reader <- v7, got <- v8, late <- v9, panic <- v10

(* Two messages to one session race its events and the cap timers.       *)
Hub == INSTANCE ChannelHub WITH Channels <- {"c"}, Sessions <- {"s1"},
        Msgs <- {"m1", "m2"}, Texts <- {"x"}, NotifyMode <- "once", TopicBuffer <- 1,
        OutboundMax <- 3, MaxEvents <- 3, None <- NoValue, live <- v1, queue <- v2,
        published <- v3, armed <- v4, hpc <- v5, msg <- v6, pending <- v7,
        typing <- v8, timer <- v9, out <- v10, notifyState <- v11, muted <- v12,
        lastSess <- v13, activeSess <- v14, outboundIndex <- v15, lastDelivered <- v16,
        newest <- v17, status <- v18, replies <- v19, cards <- v20

(* Notifications and replies over two sessions, no message pending.      *)
Routing == INSTANCE ChannelHub WITH Channels <- {"c"}, Sessions <- {"s1", "s2"},
        Msgs <- {}, Texts <- {"x"}, NotifyMode <- "once", TopicBuffer <- 1,
        OutboundMax <- 3, MaxEvents <- 4, None <- NoValue, live <- v1, queue <- v2,
        published <- v3, armed <- v4, hpc <- v5, msg <- v6, pending <- v7,
        typing <- v8, timer <- v9, out <- v10, notifyState <- v11, muted <- v12,
        lastSess <- v13, activeSess <- v14, outboundIndex <- v15, lastDelivered <- v16,
        newest <- v17, status <- v18, replies <- v19, cards <- v20

(* Two admins create, enable, edit and delete a channel, with a restart  *)
(* under another key.                                                    *)
Reg == INSTANCE ChannelRegistry WITH Ids <- {"i"}, Admins <- {"a", "b"},
        Adapters <- {1, 2}, CipherKeys <- {0, 1, 2}, Secrets <- {"x"}, None <- NoValue,
        rows <- v1, channels <- v2, started <- v3, adapter <- v4, call <- v5,
        boot <- v6, cipherKey <- v7, entered <- v8, overlap <- v9, stops <- v10

(* Two updates over two polling instances, cards of up to four lines in  *)
(* chunks of three.                                                      *)
Tg == INSTANCE ChatAdapters WITH Parts <- {"telegram"}, MaxUpdates <- 2, Polls <- 1..2,
        ChunkSize <- 3, MaxLines <- 4, Frames <- {}, Ignored <- {}, Presses <- {},
        Conns <- {}, MaxSends <- 0, Bridges <- {}, Adapters <- {}, Caps <- {},
        Accepted <- {}, tgUpdates <- v1, tgConfirmed <- v2, tgPoll <- v3, tgSeen <- v4,
        tgPanic <- v5, tgCard <- v6, platform <- v7, skPc <- v8, skCancel <- v9,
        skDone <- v10, skHeld <- v11, skConn <- v12, skCur <- v13, skWire <- v14,
        skStop <- v15, skTaken <- v16, skFrame <- v17, skSends <- v18, skAcked <- v19,
        skHandled <- v20, skReady <- v21, skOwed <- v22, byToken <- v23, bridge <- v24,
        wsPc <- v25, wsOpen <- v26, wsFound <- v27, wsCaps <- v28, wsDone <- v29,
        wsLate <- v30

(* Three frames, one of a kind the adapter ignores and one press, over   *)
(* two connections.                                                      *)
Sock == INSTANCE ChatAdapters WITH Parts <- {"socket"}, MaxUpdates <- 0, Polls <- {},
        ChunkSize <- 1, MaxLines <- 0, Frames <- {1, 2, 3}, Ignored <- {2},
        Presses <- {3}, Conns <- 1..2, MaxSends <- 2, Bridges <- {}, Adapters <- {},
        Caps <- {}, Accepted <- {}, tgUpdates <- v1, tgConfirmed <- v2, tgPoll <- v3,
        tgSeen <- v4, tgPanic <- v5, tgCard <- v6, platform <- v7, skPc <- v8,
        skCancel <- v9, skDone <- v10, skHeld <- v11, skConn <- v12, skCur <- v13,
        skWire <- v14, skStop <- v15, skTaken <- v16, skFrame <- v17, skSends <- v18,
        skAcked <- v19, skHandled <- v20, skReady <- v21, skOwed <- v22,
        byToken <- v23, bridge <- v24, wsPc <- v25, wsOpen <- v26, wsFound <- v27,
        wsCaps <- v28, wsDone <- v29, wsLate <- v30

(* Two bridges, two adapters dialling in with the same token.            *)
Brg == INSTANCE ChatAdapters WITH Parts <- {"bridge"}, MaxUpdates <- 0, Polls <- {},
        ChunkSize <- 1, MaxLines <- 0, Frames <- {}, Ignored <- {}, Presses <- {},
        Conns <- {}, MaxSends <- 0, Bridges <- 1..2, Adapters <- 1..2,
        Caps <- {"card"}, Accepted <- {"card"}, tgUpdates <- v1, tgConfirmed <- v2,
        tgPoll <- v3, tgSeen <- v4, tgPanic <- v5, tgCard <- v6, platform <- v7,
        skPc <- v8, skCancel <- v9, skDone <- v10, skHeld <- v11, skConn <- v12,
        skCur <- v13, skWire <- v14, skStop <- v15, skTaken <- v16, skFrame <- v17,
        skSends <- v18, skAcked <- v19, skHandled <- v20, skReady <- v21,
        skOwed <- v22, byToken <- v23, bridge <- v24, wsPc <- v25, wsOpen <- v26,
        wsFound <- v27, wsCaps <- v28, wsDone <- v29, wsLate <- v30

(* Two sessions, a list of one entry, an owner and a stranger.           *)
Cmd == INSTANCE ChannelCommands WITH Sessions <- {"s1", "s2"}, ListMax <- 1,
        None <- NoValue, ccSess <- v1, ccRecent <- v2, ccPin <- v3, ccLast <- v4,
        ccCard <- v5, ccOwner <- v6, ccDid <- v7

(* Two clients attach to a process that writes four chunks, over a ring  *)
(* of two and channels of one.                                           *)
Stream == INSTANCE SessionStream WITH Clients <- {"a", "b"}, RingSize <- 2,
        FanoutBuffer <- 1, MaxOutput <- 3, written <- v1, inHand <- v2, run <- v3,
        subs <- v4, queue <- v5, hpc <- v6, recv <- v7, base <- v8, missed <- v9

(* A scheduled and a manual backup to one target, with a key rotation.   *)
Bk == INSTANCE Backups WITH Parts <- {"run"}, MaxRows <- 2, RunTargets <- {"s3"},
        Runs <- {"sched", "api"}, Scheduler <- "sched", Contents <- {1}, MaxKeys <- 2,
        Keep <- 1, TargetTargets <- {}, TargetAdmins <- {}, Ticks <- {}, Lists <- {},
        MaxVersion <- 0, MaxDue <- 0, KeyAdmins <- {}, Requests <- {}, MaxCalls <- 0,
        bkRow <- v1, bkNext <- v2, bkBlob <- v3, bkRun <- v4, bkRet <- v5, bkDel <- v6,
        bkWorld <- v7, bkExcuse <- v8, tgRow <- v9, tgImpl <- v10, tgCall <- v11,
        tgVer <- v12, tgList <- v13, tgDue <- v14, tgRun <- v15, tgCount <- v16,
        tgExcuse <- v17, kyEnv <- v18, kyFile <- v19, kyLive <- v20, kySched <- v21,
        kyCall <- v22, kyReq <- v23, kyCalls <- v24, kyExcuse <- v25

(* A scheduled backup to two targets, and its retention.                 *)
Two == INSTANCE Backups WITH Parts <- {"run"}, MaxRows <- 2,
        RunTargets <- {"local", "s3"}, Runs <- {"sched"}, Scheduler <- "sched",
        Contents <- {1}, MaxKeys <- 1, Keep <- 1, TargetTargets <- {},
        TargetAdmins <- {}, Ticks <- {}, Lists <- {}, MaxVersion <- 0, MaxDue <- 0,
        KeyAdmins <- {}, Requests <- {}, MaxCalls <- 0, bkRow <- v1, bkNext <- v2,
        bkBlob <- v3, bkRun <- v4, bkRet <- v5, bkDel <- v6, bkWorld <- v7,
        bkExcuse <- v8, tgRow <- v9, tgImpl <- v10, tgCall <- v11, tgVer <- v12,
        tgList <- v13, tgDue <- v14, tgRun <- v15, tgCount <- v16, tgExcuse <- v17,
        kyEnv <- v18, kyFile <- v19, kyLive <- v20, kySched <- v21, kyCall <- v22,
        kyReq <- v23, kyCalls <- v24, kyExcuse <- v25

(* Two scheduled backups to one target, of which retention keeps one.    *)
Retain == INSTANCE Backups WITH Parts <- {"run"}, MaxRows <- 2,
        RunTargets <- {"local"}, Runs <- {"sched"}, Scheduler <- "sched",
        Contents <- {1}, MaxKeys <- 1, Keep <- 1, TargetTargets <- {},
        TargetAdmins <- {}, Ticks <- {}, Lists <- {}, MaxVersion <- 0, MaxDue <- 0,
        KeyAdmins <- {}, Requests <- {}, MaxCalls <- 0, bkRow <- v1, bkNext <- v2,
        bkBlob <- v3, bkRun <- v4, bkRet <- v5, bkDel <- v6, bkWorld <- v7,
        bkExcuse <- v8, tgRow <- v9, tgImpl <- v10, tgCall <- v11, tgVer <- v12,
        tgList <- v13, tgDue <- v14, tgRun <- v15, tgCount <- v16, tgExcuse <- v17,
        kyEnv <- v18, kyFile <- v19, kyLive <- v20, kySched <- v21, kyCall <- v22,
        kyReq <- v23, kyCalls <- v24, kyExcuse <- v25

(* Blobs of up to five units sealed in chunks of two, to every kind of   *)
(* target.                                                               *)
Seal == INSTANCE SealedBlob WITH ChunkSize <- 2, MaxLen <- 5,
        Kinds <- {"local", "sftp", "smb", "webdav", "s3", "rclone"}, sbLen <- v1,
        sbKind <- v2, sbPart <- v3, sbDest <- v4, sbPc <- v5, sbHurt <- v6

(* Two restores of two configuration files and a vault of two notes.     *)
Rs == INSTANCE Restore WITH Restores <- 2, Files <- <<"config", "secrets.env">>,
        Configured <- {"config", "secrets.env"}, VaultFiles <- <<"a.md", "b.md">>,
        Mapped <- {"a.md"}, rsDisk <- v1, rsBak <- v2, rsPc <- v3, rsN <- v4,
        rsReq <- v5, rsSnap <- v6, rsApplied <- v7, rsAside <- v8, rsNext <- v9,
        rsBase <- v10, rsBroken <- v11, rsHole <- v12

(* Two admins set up, rotate and restart.                                *)
Key == INSTANCE Backups WITH Parts <- {"key"}, MaxRows <- 0, RunTargets <- {},
        Runs <- {}, Scheduler <- "", Contents <- {1}, MaxKeys <- 1, Keep <- 1,
        TargetTargets <- {}, TargetAdmins <- {}, Ticks <- {}, Lists <- {},
        MaxVersion <- 0, MaxDue <- 0, KeyAdmins <- {"a", "b"}, Requests <- {"r"},
        MaxCalls <- 4, bkRow <- v1, bkNext <- v2, bkBlob <- v3, bkRun <- v4,
        bkRet <- v5, bkDel <- v6, bkWorld <- v7, bkExcuse <- v8, tgRow <- v9,
        tgImpl <- v10, tgCall <- v11, tgVer <- v12, tgList <- v13, tgDue <- v14,
        tgRun <- v15, tgCount <- v16, tgExcuse <- v17, kyEnv <- v18, kyFile <- v19,
        kyLive <- v20, kySched <- v21, kyCall <- v22, kyReq <- v23, kyCalls <- v24,
        kyExcuse <- v25

(* Two imports of a bundle of four entries, one present, one refused,    *)
(* one malformed.                                                        *)
Xp == INSTANCE ExportImport WITH
        Bundle <- <<[id |-> "x", kind |-> "row"], [id |-> "y", kind |-> "bad"], [id |-> "z", kind |-> "row"], [id |-> "v", kind |-> "taken"], [id |-> "w", kind |-> "malformed"]>>,
        Here <- {"x"}, Importers <- {"i", "j"}, MaxFaults <- 0, xpRow <- v1,
        xpFile <- v2, xpBuild <- v3, xpReap <- v4, xpDel <- v5, xpExcuse <- v6,
        xpTorn <- v7, xpFaults <- v8, xpTable <- v9, xpImp <- v10

(* An export is built, downloaded and reaped beside an import, with a    *)
(* crash.                                                                *)
XpC == INSTANCE ExportImport WITH
        Bundle <- <<[id |-> "x", kind |-> "row"], [id |-> "y", kind |-> "bad"], [id |-> "z", kind |-> "row"], [id |-> "v", kind |-> "taken"], [id |-> "w", kind |-> "malformed"]>>,
        Here <- {"x"}, Importers <- {"i"}, MaxFaults <- 1, xpRow <- v1, xpFile <- v2,
        xpBuild <- v3, xpReap <- v4, xpDel <- v5, xpExcuse <- v6, xpTorn <- v7,
        xpFaults <- v8, xpTable <- v9, xpImp <- v10

(* Two targets, two admins, an old and a new scheduler tick.             *)
Tgt == INSTANCE Backups WITH Parts <- {"target"}, MaxRows <- 0, RunTargets <- {},
        Runs <- {}, Scheduler <- "", Contents <- {1}, MaxKeys <- 1, Keep <- 1,
        TargetTargets <- {"p", "s"}, TargetAdmins <- {"a", "b"},
        Ticks <- {"old", "new"}, Lists <- {<<"p", "s">>, <<"s">>}, MaxVersion <- 3,
        MaxDue <- 1, KeyAdmins <- {}, Requests <- {}, MaxCalls <- 0, bkRow <- v1,
        bkNext <- v2, bkBlob <- v3, bkRun <- v4, bkRet <- v5, bkDel <- v6,
        bkWorld <- v7, bkExcuse <- v8, tgRow <- v9, tgImpl <- v10, tgCall <- v11,
        tgVer <- v12, tgList <- v13, tgDue <- v14, tgRun <- v15, tgCount <- v16,
        tgExcuse <- v17, kyEnv <- v18, kyFile <- v19, kyLive <- v20, kySched <- v21,
        kyCall <- v22, kyReq <- v23, kyCalls <- v24, kyExcuse <- v25

(* Two requests over two names, two keychain keys, a keychain that goes  *)
(* away.                                                                 *)
Sec == INSTANCE McpRegistry WITH Parts <- {"secrets"}, Clis <- {"grok"}, Spawns <- {},
        Admins <- {}, Servers <- {}, ConfigNames <- {}, UserNames <- {}, MaxOps <- 0,
        MaxSpawns <- 0, MaxFails <- 0, Reqs <- {"r", "q"}, SecretsNames <- {"k", "l"},
        Characters <- {"c", " ", "#", "dq", "sq", "bs", "nl"}, MaxChars <- 3,
        MaxVersion <- 3, MaxKeys <- 1, MaxFlips <- 1, MaxCrashes <- 0, mcCli <- v1,
        mcReg <- v2, mcAdmin <- v3, mcFile <- v4, mcTorn <- v5, mcManaged <- v6,
        mcSpawn <- v7, mcOps <- v8, mcSpawns <- v9, mcFails <- v10, mcLive <- v11,
        mcClash <- v12, mcRaced <- v13, mcShared <- v14, mcOrphans <- v15,
        mcTwo <- v16, msChain <- v17, msFile <- v18, msTmp <- v19, msBak <- v20,
        msReq <- v21, msAcked <- v22, msNext <- v23, msKeys <- v24, msFlips <- v25,
        msCrashes <- v26, msRaced <- v27, msTaken <- v28, msTwoKeys <- v29

(* The migration of a plain file beside two requests.                    *)
Mig == INSTANCE McpRegistry WITH Parts <- {"secrets"}, Clis <- {"grok"}, Spawns <- {},
        Admins <- {}, Servers <- {}, ConfigNames <- {}, UserNames <- {}, MaxOps <- 0,
        MaxSpawns <- 0, MaxFails <- 0, Reqs <- {"r", "q"}, SecretsNames <- {"k", "l"},
        Characters <- {"c", " ", "#", "dq", "sq", "bs", "nl"}, MaxChars <- 3,
        MaxVersion <- 3, MaxKeys <- 1, MaxFlips <- 0, MaxCrashes <- 1, mcCli <- v1,
        mcReg <- v2, mcAdmin <- v3, mcFile <- v4, mcTorn <- v5, mcManaged <- v6,
        mcSpawn <- v7, mcOps <- v8, mcSpawns <- v9, mcFails <- v10, mcLive <- v11,
        mcClash <- v12, mcRaced <- v13, mcShared <- v14, mcOrphans <- v15,
        mcTwo <- v16, msChain <- v17, msFile <- v18, msTmp <- v19, msBak <- v20,
        msReq <- v21, msAcked <- v22, msNext <- v23, msKeys <- v24, msFlips <- v25,
        msCrashes <- v26, msRaced <- v27, msTaken <- v28, msTwoKeys <- v29

(* A request, a hijacked socket and two sessions against the drain, with *)
(* a queue of one.                                                       *)
Down == INSTANCE Shutdown WITH Reqs <- {"r"}, Sockets <- {"w"}, Sessions <- {"s"},
        Workers <- {"health"}, WaitOrder <- <<"health", "audit">>, Queue <- 1,
        Budget <- 3, KillAfter <- 1, sdPc <- v1, sdCtx <- v2, sdTime <- v3,
        sdDrained <- v4, sdReq <- v5, sdCalls <- v6, sdClosed <- v7, sdQueued <- v8,
        sdLogged <- v9, sdFailed <- v10, sdSess <- v11, sdTermAt <- v12, sdOut <- v13,
        sdEvents <- v14, sdAudited <- v15, sdBg <- v16, sdNext <- v17, sdGaveUp <- v18,
        sdLate <- v19

(* Four events on two topics, pages of two.                              *)
Aud == INSTANCE AuditTrail WITH Topics <- {"x", "y"}, Buffer <- 2, MaxEvents <- 4,
        Limit <- 2, Wanted <- {"x"}, atSent <- v1, atBuf <- v2, atTx <- v3,
        atSeq <- v4, atRows <- v5, atRead <- v6

(* Two logins race two changes of the password.                          *)
Adm == INSTANCE AdminAuth WITH Logins <- {"l", "m"}, Changers <- {"c", "d"},
        Override <- FALSE, MaxTokens <- 2, MaxPass <- 3, MaxBoots <- 1, auCreds <- v1,
        auFile <- v2, auTokens <- v3, auIssued <- v4, auPass <- v5, auLogin <- v6,
        auChange <- v7, auMu <- v8, auTook <- v9, auFailed <- v10, auOverlap <- v11,
        auBoots <- v12

(* The vault's syncer beside two edits and a colleague's conflicting     *)
(* commit.                                                               *)
Vg == INSTANCE VaultGit WITH Edits <- {1, 2}, Theirs <- {8}, Conflicts <- TRUE,
        Configs <- {{"enabled", "push", "pull"}}, MaxTicks <- 1, MaxHand <- 1,
        MaxFails <- 1, vgHead <- v1, vgRemote <- v2, vgRef <- v3, vgMod <- v4,
        vgNew <- v5, vgIndex <- v6, vgRebase <- v7, vgConflict <- v8, vgMarks <- v9,
        vgBad <- v10, vgStash <- v11, vgRefs <- v12, vgCfg <- v13, vgDue <- v14,
        vgSync <- v15, vgCommit <- v16, vgReset <- v17, vgTicks <- v18, vgHand <- v19,
        vgFails <- v20, vgDuring <- v21, vgRaced <- v22, vgClash <- v23

(* Up to four notes: an operation beside the migration, with a step that *)
(* fails or a restart.                                                   *)
Nv == INSTANCE NotesVault WITH Names <- {"x"}, Appenders <- {"a"}, MaxOps <- 1,
        MaxFaults <- 1, nvFiles <- v1, nvMap <- v2, nvLayout <- v3, nvConfig <- v4,
        nvApp <- v5, nvNew <- v6, nvMove <- v7, nvFlat <- v8, nvNext <- v9,
        nvOps <- v10, nvFails <- v11, nvBoots <- v12, nvTouched <- v13,
        nvStranded <- v14, nvGone <- v15

(* One request and every class of statement, on two kinds of database.   *)
Sql == INSTANCE DBTool WITH Reqs <- {"r"}, Statements <- Sts,
        Drivers <- {"postgres", "sqlite"}, Rows <- {1, 2}, MaxCfg <- 2,
        MaxHandles <- 2, MaxCalls <- 2, MaxFails <- 1, dtDriver <- v1, dtRow <- v2,
        dtPool <- v3, dtHandles <- v4, dtMu <- v5, dtAdmin <- v6, dtReq <- v7,
        dtData <- v8, dtClosed <- v9, dtNext <- v10, dtCalls <- v11, dtFails <- v12,
        dtOverlap <- v13

(* Two requests share the pools while the connection is edited.          *)
Pool == INSTANCE DBTool WITH Reqs <- {"r", "q"}, Statements <- {<<"SELECT">>},
        Drivers <- {"postgres"}, Rows <- {1}, MaxCfg <- 2, MaxHandles <- 2,
        MaxCalls <- 2, MaxFails <- 0, dtDriver <- v1, dtRow <- v2, dtPool <- v3,
        dtHandles <- v4, dtMu <- v5, dtAdmin <- v6, dtReq <- v7, dtData <- v8,
        dtClosed <- v9, dtNext <- v10, dtCalls <- v11, dtFails <- v12, dtOverlap <- v13

(* A session on two accounts that both reach a limit, with calls that    *)
(* outlive their run.                                                    *)
Fl == INSTANCE RateLimitFailover WITH Sessions <- {"s1"}, Accounts <- 1..2, Day <- 2,
        Lengths <- {1}, MaxHours <- 1, MaxHits <- 2, MaxCalls <- 2, flNow <- v1,
        flLimit <- v2, flUntil <- v3, flRow <- v4, flRun <- v5, flCalls <- v6,
        flHits <- v7, flStale <- v8

(* Two sessions share two accounts within the hour.                      *)
FlTwo == INSTANCE RateLimitFailover WITH Sessions <- {"s1", "s2"}, Accounts <- 1..2,
        Day <- 2, Lengths <- {1}, MaxHours <- 0, MaxHits <- 1, MaxCalls <- 2,
        flNow <- v1, flLimit <- v2, flUntil <- v3, flRow <- v4, flRun <- v5,
        flCalls <- v6, flHits <- v7, flStale <- v8

(* Two requests hold the machine awake, with a failing helper.           *)
Ka == INSTANCE KeepAwake WITH Requests <- {"r1", "r2"}, Recent <- 2, Linger <- 3,
        MaxFails <- 1, kaMode <- v1, kaReq <- v2, kaCount <- v3, kaLast <- v4,
        kaPc <- v5, kaSup <- v6, kaCancelled <- v7, kaIdle <- v8, kaCtx <- v9,
        kaFails <- v10, kaQuiet <- v11

(* Up to three creates over worktrees of one repository.                 *)
Wt == INSTANCE Worktree WITH MaxCreates <- 3, MaxEdits <- 3, wtRows <- v1,
        wtTree <- v2, wtBranch <- v3, wtPending <- v4, wtReclaiming <- v5, wtReg <- v6,
        wtCall <- v7, wtCreates <- v8, wtEdits <- v9, wtLost <- v10, wtLate <- v11,
        wtBlind <- v12, wtByHand <- v13, wtKept <- v14

(* Two account rows of every provider, imported, edited and switched to. *)
Acc == INSTANCE AccountPool WITH
        Kinds <- {"claude", "codex", "grok", "antigravity", "opencode"}, Ids <- {1, 2},
        Names <- {"x"}, MaxOps <- 2, MaxHost <- 2, MaxBreaks <- 0, apKind <- v1,
        apRow <- v2, apHome <- v3, apMail <- v4, apBase <- v5, apArmed <- v6,
        apCall <- v7, apImport <- v8, apWatch <- v9, apSess <- v10, apOps <- v11,
        apHost <- v12, apBreaks <- v13, apUnseen <- v14, apStir <- v15

(* Three turns of a conversation of every provider across account        *)
(* switches.                                                             *)
Conv == INSTANCE Conversation WITH
        Providers <- {"claude", "codex", "grok", "antigravity", "opencode"},
        MaxCandidates <- 1, MaxConvs <- 3, MaxTurns <- 2, MaxOps <- 3, cvKind <- v1,
        cvAcct <- v2, cvStored <- v3, cvRun <- v4, cvHook <- v5, cvDisk <- v6,
        cvNext <- v7, cvTurns <- v8, cvOps <- v9, cvHist <- v10

(* One pull request on each kind of host, credentials edited and         *)
(* requests overlapping.                                                 *)
Git == INSTANCE GitHosts WITH Kinds <- {"github", "gitea", "gitlab"},
        Secrets <- {1, 2}, Checks <- {"a"}, Statuses <- {"success"}, MaxCommits <- 2,
        MaxAdmin <- 3, MaxCalls <- 2, MaxWorld <- 0, MaxPolls <- 0, MaxBoots <- 0,
        ghKind <- v1, ghRow <- v2, ghGiven <- v3, ghKey <- v4, ghEdit <- v5,
        ghSent <- v6, ghPr <- v7, ghBranch <- v8, ghSuite <- v9, ghCall <- v10,
        ghReply <- v11, ghWatch <- v12, ghSeen <- v13, ghTold <- v14, ghObs <- v15,
        ghOld <- v16, ghCount <- v17

(* The watcher polls a pull request whose checks change, across a        *)
(* restart.                                                              *)
Watch == INSTANCE GitHosts WITH Kinds <- {"gitea"}, Secrets <- {1}, Checks <- {"a"},
        Statuses <- {"pending", "success", "failure"}, MaxCommits <- 2, MaxAdmin <- 1,
        MaxCalls <- 1, MaxWorld <- 2, MaxPolls <- 3, MaxBoots <- 1, ghKind <- v1,
        ghRow <- v2, ghGiven <- v3, ghKey <- v4, ghEdit <- v5, ghSent <- v6,
        ghPr <- v7, ghBranch <- v8, ghSuite <- v9, ghCall <- v10, ghReply <- v11,
        ghWatch <- v12, ghSeen <- v13, ghTold <- v14, ghObs <- v15, ghOld <- v16,
        ghCount <- v17

(* The git pane's writes on two branches beside a colleague and a        *)
(* terminal.                                                             *)
Pane == INSTANCE GitWrite WITH Branches <- {"main", "b"}, Reqs <- {"r"}, MaxEdits <- 1,
        MaxTheirs <- 1, MaxOps <- 3, MaxMoves <- 1, gwTip <- v1, gwHere <- v2,
        gwHead <- v3, gwOff <- v4, gwWork <- v5, gwIndex <- v6, gwStash <- v7,
        gwRemote <- v8, gwSeen <- v9, gwUp <- v10, gwUrl <- v11, gwCred <- v12,
        gwReq <- v13, gwEdits <- v14, gwTheirs <- v15, gwOps <- v16, gwMoves <- v17,
        gwForced <- v18, gwLeft <- v19, gwLate <- v20, gwAs <- v21

(* Two admins ask for an update while a session runs, releases appear,   *)
(* downloads fail.                                                       *)
Up == INSTANCE SelfUpdate WITH Admins <- {"a", "b"}, Sessions <- {"s"},
        MaxVersion <- 2, MaxAsks <- 2, MaxWorld <- 1, MaxFails <- 1, MaxCrashes <- 0,
        suLatest <- v1, suSums <- v2, suIn <- v3, suTarget <- v4, suNew <- v5,
        suNext <- v6, suDirty <- v7, suKept <- v8, suDaemon <- v9, suLive <- v10,
        suFile <- v11, suReq <- v12, suUpd <- v13, suAsks <- v14, suWorld <- v15,
        suFails <- v16, suCrashes <- v17, suDone <- v18, suRaced <- v19,
        suShared <- v20, suBlind <- v21, suCut <- v22, suDeaf <- v23, suOlder <- v24,
        suEarly <- v25

(* Two updates, and a host that goes down at any step.                   *)
Crash == INSTANCE SelfUpdate WITH Admins <- {"a"}, Sessions <- {}, MaxVersion <- 2,
        MaxAsks <- 2, MaxWorld <- 1, MaxFails <- 0, MaxCrashes <- 1, suLatest <- v1,
        suSums <- v2, suIn <- v3, suTarget <- v4, suNew <- v5, suNext <- v6,
        suDirty <- v7, suKept <- v8, suDaemon <- v9, suLive <- v10, suFile <- v11,
        suReq <- v12, suUpd <- v13, suAsks <- v14, suWorld <- v15, suFails <- v16,
        suCrashes <- v17, suDone <- v18, suRaced <- v19, suShared <- v20,
        suBlind <- v21, suCut <- v22, suDeaf <- v23, suOlder <- v24, suEarly <- v25

(* Two spawns on a shared configuration file beside an admin and the     *)
(* user's own entry.                                                     *)
Mcp == INSTANCE McpRegistry WITH Parts <- {"config"}, Clis <- {"antigravity", "grok"},
        Spawns <- {"s", "t"}, Admins <- {"a"}, Servers <- {1, 2}, ConfigNames <- {"x"},
        UserNames <- {"x"}, MaxOps <- 1, MaxSpawns <- 2, MaxFails <- 1, Reqs <- {},
        SecretsNames <- {}, Characters <- {}, MaxChars <- 0, MaxVersion <- 2,
        MaxKeys <- 0, MaxFlips <- 0, MaxCrashes <- 0, mcCli <- v1, mcReg <- v2,
        mcAdmin <- v3, mcFile <- v4, mcTorn <- v5, mcManaged <- v6, mcSpawn <- v7,
        mcOps <- v8, mcSpawns <- v9, mcFails <- v10, mcLive <- v11, mcClash <- v12,
        mcRaced <- v13, mcShared <- v14, mcOrphans <- v15, mcTwo <- v16,
        msChain <- v17, msFile <- v18, msTmp <- v19, msBak <- v20, msReq <- v21,
        msAcked <- v22, msNext <- v23, msKeys <- v24, msFlips <- v25, msCrashes <- v26,
        msRaced <- v27, msTaken <- v28, msTwoKeys <- v29

(* An admin edits the servers' list twice beside one spawn.              *)
Srv == INSTANCE McpRegistry WITH Parts <- {"config"}, Clis <- {"grok"},
        Spawns <- {"s"}, Admins <- {"a"}, Servers <- {1, 2}, ConfigNames <- {"x"},
        UserNames <- {"x"}, MaxOps <- 2, MaxSpawns <- 1, MaxFails <- 0, Reqs <- {},
        SecretsNames <- {}, Characters <- {}, MaxChars <- 0, MaxVersion <- 2,
        MaxKeys <- 0, MaxFlips <- 0, MaxCrashes <- 0, mcCli <- v1, mcReg <- v2,
        mcAdmin <- v3, mcFile <- v4, mcTorn <- v5, mcManaged <- v6, mcSpawn <- v7,
        mcOps <- v8, mcSpawns <- v9, mcFails <- v10, mcLive <- v11, mcClash <- v12,
        mcRaced <- v13, mcShared <- v14, mcOrphans <- v15, mcTwo <- v16,
        msChain <- v17, msFile <- v18, msTmp <- v19, msBak <- v20, msReq <- v21,
        msAcked <- v22, msNext <- v23, msKeys <- v24, msFlips <- v25, msCrashes <- v26,
        msRaced <- v27, msTaken <- v28, msTwoKeys <- v29

(* The health checker probes one integration an admin edits.             *)
Health == INSTANCE Integrations WITH Ids <- {1}, MaxKeys <- 1, Callers <- {"c"},
        MaxAdmin <- 3, MaxVerify <- 0, Probed <- {1}, inRow <- v1, inReg <- v2,
        inCache <- v3, inKeys <- v4, inOwner <- v5, inClear <- v6, inVer <- v7,
        inVers <- v8, inOps <- v9, inCross <- v10, inHeld <- v11, inFails <- v12,
        inProbe <- v13, inFixed <- v14, inDown <- v15, inSaid <- v16, inTold <- v17

(* Two concurrent calls on two canvases of a project.                    *)
Cn == INSTANCE Canvas WITH Calls <- {"c", "d"}, Slugs <- {"default", "a"},
        Colours <- {1}, Kinds <- {""}, MaxDocs <- 2, MaxOps <- 2, cnRows <- v1,
        cnIds <- v2, cnDocs <- v3, cnDesign <- v4, cnFocus <- v5, cnCall <- v6,
        cnPrompts <- v7, cnOps <- v8, cnSwitched <- v9, cnSeen <- v10

(* Two memories, two texts that may be merged, a change of embedder.     *)
Mm == INSTANCE Memory WITH Parts <- {"store"}, Ids <- 1..2, Texts <- 1..2,
        Similar <- Sim, Embedders <- {"bm25", "bge"}, Callers <- {"a", "b"},
        BatchSize <- 2, MaxCalls <- 2, MaxRestarts <- 1, MaxFails <- 1, Mems <- {},
        Runs <- {}, MaxRuns <- 0, MaxBreaks <- 0, Dormant <- FALSE, mmRows <- v1,
        mmEmb <- v2, mmCall <- v3, mmPass <- v4, mmCalls <- v5, mmRestarts <- v6,
        mmFails <- v7, mmAcked <- v8, mmRaced <- v9, mmProject <- v10, clRow <- v11,
        clDec <- v12, clRun <- v13, clStarted <- v14, clBreaks <- v15, clOld <- v16,
        clRestored <- v17, clParallel <- v18, clSelf <- v19, clLost <- v20

(* A memory judged by a tick and an operator's runs.                     *)
Cl == INSTANCE Memory WITH Parts <- {"cleaner"}, Ids <- {}, Texts <- {},
        Similar <- Sim, Embedders <- {"bm25"}, Callers <- {}, BatchSize <- 1,
        MaxCalls <- 0, MaxRestarts <- 0, MaxFails <- 0, Mems <- 1..1,
        Runs <- {"tick", "api"}, MaxRuns <- 3, MaxBreaks <- 1, Dormant <- TRUE,
        mmRows <- v1, mmEmb <- v2, mmCall <- v3, mmPass <- v4, mmCalls <- v5,
        mmRestarts <- v6, mmFails <- v7, mmAcked <- v8, mmRaced <- v9,
        mmProject <- v10, clRow <- v11, clDec <- v12, clRun <- v13, clStarted <- v14,
        clBreaks <- v15, clOld <- v16, clRestored <- v17, clParallel <- v18,
        clSelf <- v19, clLost <- v20

(* One run judges three memories, rings of duplicates among them.        *)
Race == INSTANCE Memory WITH Parts <- {"cleaner"}, Ids <- {}, Texts <- {},
        Similar <- Sim, Embedders <- {"bm25"}, Callers <- {}, BatchSize <- 1,
        MaxCalls <- 0, MaxRestarts <- 0, MaxFails <- 0, Mems <- 1..3, Runs <- {"tick"},
        MaxRuns <- 1, MaxBreaks <- 0, Dormant <- FALSE, mmRows <- v1, mmEmb <- v2,
        mmCall <- v3, mmPass <- v4, mmCalls <- v5, mmRestarts <- v6, mmFails <- v7,
        mmAcked <- v8, mmRaced <- v9, mmProject <- v10, clRow <- v11, clDec <- v12,
        clRun <- v13, clStarted <- v14, clBreaks <- v15, clOld <- v16,
        clRestored <- v17, clParallel <- v18, clSelf <- v19, clLost <- v20

(* An operator's and an integration's session under one rule, with a     *)
(* restart.                                                              *)
Cap == INSTANCE Capture WITH Sessions <- {"op", "int"}, Rules <- {"all"},
        Trigger <- "after_messages", N <- 1, HistoryLimit <- 1, MaxPrompts <- 1,
        MaxFails <- 1, MaxRestarts <- 1, MaxPolicies <- 1, cpPrompts <- v1,
        cpEnabled <- v2, cpPolicy <- v3, cpState <- v4, cpRun <- v5, cpFacts <- v6,
        cpFails <- v7, cpRestarts <- v8, cpChanges <- v9, cpTwice <- v10,
        cpSeen <- v11, cpMissed <- v12, cpExcuse <- v13

(* Two rules over one session, a summarizer that fails.                  *)
Retry == INSTANCE Capture WITH Sessions <- {"op"}, Rules <- {"all", "own"},
        Trigger <- "after_messages", N <- 1, HistoryLimit <- 2, MaxPrompts <- 1,
        MaxFails <- 4, MaxRestarts <- 0, MaxPolicies <- 1, cpPrompts <- v1,
        cpEnabled <- v2, cpPolicy <- v3, cpState <- v4, cpRun <- v5, cpFacts <- v6,
        cpFails <- v7, cpRestarts <- v8, cpChanges <- v9, cpTwice <- v10,
        cpSeen <- v11, cpMissed <- v12, cpExcuse <- v13

(* Two providers, two admins, one call under way.                        *)
Mw == INSTANCE MemoryWorkers WITH Providers <- 1..2, Seeded <- 1, Keyed <- {1},
        Admins <- {"a", "b"}, Calls <- {"c"}, MaxEdits <- 2, MaxFails <- 1,
        None <- NoValue, mwRow <- v1, mwTask <- v2, mwEdit <- v3, mwCall <- v4,
        mwEdits <- v5, mwFails <- v6, mwMade <- v7, mwWasOn <- v8, mwTaskOn <- v9,
        mwRecorded <- v10, mwDirs <- v11, mwLost <- v12

(* A section of a project written by the operator, an agent and the      *)
(* journaler.                                                            *)
Pd == INSTANCE ProjectDoc WITH Parts <- {"doc"}, DocGlobal <- FALSE, Lines <- {1},
        Proposals <- {1}, Buffer <- 1, MaxOps <- 2, MaxEvents <- 1, MaxFails <- 1,
        Calls <- {}, BlueprintGlobal <- FALSE, Defaults <- <<>>, Inputs <- {},
        Answers <- {}, MaxCalls <- 0, MaxCancels <- 0, pdDoc <- v1, pdSec <- v2,
        pdFrozen <- v3, pdProp <- v4, pdRem <- v5, pdFile <- v6, pdW <- v7,
        pdQueue <- v8, pdJour <- v9, pdOps <- v10, pdEvents <- v11, pdFails <- v12,
        pdDel <- v13, pdLogged <- v14, pdLost <- v15, pdOverlap <- v16, bpRows <- v17,
        bpCall <- v18, bpMade <- v19, bpCancels <- v20, bpProposal <- v21,
        bpSaved <- v22, bpApplied <- v23, bpRefused <- v24

(* A page of the knowledge base: proposals, approvals and removals.      *)
Kb == INSTANCE ProjectDoc WITH Parts <- {"doc"}, DocGlobal <- TRUE, Lines <- {1},
        Proposals <- {1}, Buffer <- 1, MaxOps <- 3, MaxEvents <- 0, MaxFails <- 1,
        Calls <- {}, BlueprintGlobal <- FALSE, Defaults <- <<>>, Inputs <- {},
        Answers <- {}, MaxCalls <- 0, MaxCancels <- 0, pdDoc <- v1, pdSec <- v2,
        pdFrozen <- v3, pdProp <- v4, pdRem <- v5, pdFile <- v6, pdW <- v7,
        pdQueue <- v8, pdJour <- v9, pdOps <- v10, pdEvents <- v11, pdFails <- v12,
        pdDel <- v13, pdLogged <- v14, pdLost <- v15, pdOverlap <- v16, bpRows <- v17,
        bpCall <- v18, bpMade <- v19, bpCancels <- v20, bpProposal <- v21,
        bpSaved <- v22, bpApplied <- v23, bpRefused <- v24

(* Three sessions' evidence under two titles.                            *)
Sk == INSTANCE Knowledge WITH Parts <- {"skill"}, Sessions <- {1, 2, 3},
        Titles <- {"a", "b"}, Slug <- [a |-> "a", b |-> "b"], MinRecurrence <- 2,
        MaxPerSweep <- 1, MaxNodes <- 2, Ops <- {}, MaxChanges <- 2, Kind <- "kb",
        Lines <- {}, Hints <- {}, Runs <- {}, MaxOps <- 0, MaxFails <- 0, knLog <- v1,
        knSig <- v2, knSweep <- v3, knNode <- v4, knFile <- v5, knScript <- v6,
        knCall <- v7, knDistill <- v8, knFiling <- v9, knCurate <- v10,
        knChanges <- v11, knReviewed <- v12, knShared <- v13, knExcuse <- v14,
        knKept <- v15, kbFacts <- v16, kbPage <- v17, kbSet <- v18, kbBanned <- v19,
        kbPend <- v20, kbRej <- v21, kbRun <- v22, kbOps <- v23, kbFails <- v24,
        kbCalls <- v25, kbFlip <- v26

(* A promoted skill aged, switched, curated and deleted.                 *)
Cur == INSTANCE Knowledge WITH Parts <- {"skill"}, Sessions <- {1},
        Titles <- {"a", "b"}, Slug <- [a |-> "a", b |-> "b"], MinRecurrence <- 1,
        MaxPerSweep <- 1, MaxNodes <- 2, Ops <- {"age", "toggle"}, MaxChanges <- 4,
        Kind <- "kb", Lines <- {}, Hints <- {}, Runs <- {}, MaxOps <- 0, MaxFails <- 0,
        knLog <- v1, knSig <- v2, knSweep <- v3, knNode <- v4, knFile <- v5,
        knScript <- v6, knCall <- v7, knDistill <- v8, knFiling <- v9, knCurate <- v10,
        knChanges <- v11, knReviewed <- v12, knShared <- v13, knExcuse <- v14,
        knKept <- v15, kbFacts <- v16, kbPage <- v17, kbSet <- v18, kbBanned <- v19,
        kbPend <- v20, kbRej <- v21, kbRun <- v22, kbOps <- v23, kbFails <- v24,
        kbCalls <- v25, kbFlip <- v26

(* Two skills that agents distilled, aged, switched and curated.         *)
Dis == INSTANCE Knowledge WITH Parts <- {"skill"}, Sessions <- {},
        Titles <- {"a", "b"}, Slug <- [a |-> "a", b |-> "b"], MinRecurrence <- 1,
        MaxPerSweep <- 1, MaxNodes <- 2, Ops <- {"age", "toggle", "distill"},
        MaxChanges <- 2, Kind <- "kb", Lines <- {}, Hints <- {}, Runs <- {},
        MaxOps <- 0, MaxFails <- 0, knLog <- v1, knSig <- v2, knSweep <- v3,
        knNode <- v4, knFile <- v5, knScript <- v6, knCall <- v7, knDistill <- v8,
        knFiling <- v9, knCurate <- v10, knChanges <- v11, knReviewed <- v12,
        knShared <- v13, knExcuse <- v14, knKept <- v15, kbFacts <- v16, kbPage <- v17,
        kbSet <- v18, kbBanned <- v19, kbPend <- v20, kbRej <- v21, kbRun <- v22,
        kbOps <- v23, kbFails <- v24, kbCalls <- v25, kbFlip <- v26

(* A sweep drafts a page an operator edits, locks and rejects.           *)
Draft == INSTANCE Knowledge WITH Parts <- {"draft"}, Sessions <- {}, Titles <- {},
        Slug <- <<>>, MinRecurrence <- 1, MaxPerSweep <- 0, MaxNodes <- 0, Ops <- {},
        MaxChanges <- 0, Kind <- "kb", Lines <- {1, 2}, Hints <- {"", "h"},
        Runs <- {"sweep"}, MaxOps <- 4, MaxFails <- 1, knLog <- v1, knSig <- v2,
        knSweep <- v3, knNode <- v4, knFile <- v5, knScript <- v6, knCall <- v7,
        knDistill <- v8, knFiling <- v9, knCurate <- v10, knChanges <- v11,
        knReviewed <- v12, knShared <- v13, knExcuse <- v14, knKept <- v15,
        kbFacts <- v16, kbPage <- v17, kbSet <- v18, kbBanned <- v19, kbPend <- v20,
        kbRej <- v21, kbRun <- v22, kbOps <- v23, kbFails <- v24, kbCalls <- v25,
        kbFlip <- v26

(* A curation thread about a section, two turns beside the operator's    *)
(* saves.                                                                *)
Thread == INSTANCE Curation WITH Kinds <- {"doc_section"}, Turns <- {1, 2},
        Saves <- {8}, Appliers <- {}, Escalators <- {}, MessageLimit <- 3, DocCap <- 2,
        MaxPins <- 1, MaxAdmin <- 0, MaxFails <- 0, cuKind <- v1, cuDoc <- v2,
        cuMode <- v3, cuProposals <- v4, cuStatus <- v5, cuSession <- v6,
        cuLaunched <- v7, cuMsgs <- v8, cuTurn <- v9, cuPin <- v10, cuRules <- v11,
        cuApply <- v12, cuEsc <- v13, cuAdmin <- v14, cuFails <- v15, cuLost <- v16,
        cuTwice <- v17

(* A thread about a section an operator may claim meanwhile.             *)
Claim == INSTANCE Curation WITH Kinds <- {"doc_section"}, Turns <- {1, 2},
        Saves <- {8}, Appliers <- {}, Escalators <- {}, MessageLimit <- 3, DocCap <- 2,
        MaxPins <- 0, MaxAdmin <- 1, MaxFails <- 0, cuKind <- v1, cuDoc <- v2,
        cuMode <- v3, cuProposals <- v4, cuStatus <- v5, cuSession <- v6,
        cuLaunched <- v7, cuMsgs <- v8, cuTurn <- v9, cuPin <- v10, cuRules <- v11,
        cuApply <- v12, cuEsc <- v13, cuAdmin <- v14, cuFails <- v15, cuLost <- v16,
        cuTwice <- v17

(* Two turns whose reads and writes may fail, beside the operator's      *)
(* saves.                                                                *)
Fault == INSTANCE Curation WITH Kinds <- {"doc_section"}, Turns <- {1, 2},
        Saves <- {8}, Appliers <- {}, Escalators <- {}, MessageLimit <- 3, DocCap <- 2,
        MaxPins <- 0, MaxAdmin <- 0, MaxFails <- 1, cuKind <- v1, cuDoc <- v2,
        cuMode <- v3, cuProposals <- v4, cuStatus <- v5, cuSession <- v6,
        cuLaunched <- v7, cuMsgs <- v8, cuTurn <- v9, cuPin <- v10, cuRules <- v11,
        cuApply <- v12, cuEsc <- v13, cuAdmin <- v14, cuFails <- v15, cuLost <- v16,
        cuTwice <- v17

(* Suggestions applied twice, threads escalated twice.                   *)
Sugg == INSTANCE Curation WITH Kinds <- {"blueprint", "kb_page"}, Turns <- {1},
        Saves <- {}, Appliers <- {"x", "y"}, Escalators <- {"e", "f"},
        MessageLimit <- 3, DocCap <- 2, MaxPins <- 0, MaxAdmin <- 1, MaxFails <- 0,
        cuKind <- v1, cuDoc <- v2, cuMode <- v3, cuProposals <- v4, cuStatus <- v5,
        cuSession <- v6, cuLaunched <- v7, cuMsgs <- v8, cuTurn <- v9, cuPin <- v10,
        cuRules <- v11, cuApply <- v12, cuEsc <- v13, cuAdmin <- v14, cuFails <- v15,
        cuLost <- v16, cuTwice <- v17

(* A project's section set seeded, saved, proposed and applied by two    *)
(* calls.                                                                *)
Bp == INSTANCE ProjectDoc WITH Parts <- {"blueprint"}, DocGlobal <- FALSE, Lines <- {},
        Proposals <- {}, Buffer <- 0, MaxOps <- 0, MaxEvents <- 0, MaxFails <- 0,
        Calls <- {"c", "d"}, BlueprintGlobal <- FALSE, Defaults <- Sections,
        Inputs <- Sent, Answers <- Proposed, MaxCalls <- 2, MaxCancels <- 1,
        pdDoc <- v1, pdSec <- v2, pdFrozen <- v3, pdProp <- v4, pdRem <- v5,
        pdFile <- v6, pdW <- v7, pdQueue <- v8, pdJour <- v9, pdOps <- v10,
        pdEvents <- v11, pdFails <- v12, pdDel <- v13, pdLogged <- v14, pdLost <- v15,
        pdOverlap <- v16, bpRows <- v17, bpCall <- v18, bpMade <- v19,
        bpCancels <- v20, bpProposal <- v21, bpSaved <- v22, bpApplied <- v23,
        bpRefused <- v24

(* Three members, one debate.                                            *)
Cost == INSTANCE RoundTable WITH Members <- <<"a", "b", "c">>, Debates <- {"d1"},
        maxAutoRounds <- 1, Limit <- 99, MaxPosts <- 1, MaxWork <- 0, rtSeats <- v1,
        rtOpen <- v2, rtLog <- v3, rtRun <- v4, rtPosts <- v5, rtPlan <- v6,
        rtJob <- v7, rtResult <- v8, rtLive <- v9, rtWork <- v10, rtTasks <- v11

(* Two members debate two posts, one of them working.                    *)
Talk == INSTANCE RoundTable WITH Members <- <<"a", "b">>, Debates <- {"d1"},
        maxAutoRounds <- 1, Limit <- 99, MaxPosts <- 2, MaxWork <- 1, rtSeats <- v1,
        rtOpen <- v2, rtLog <- v3, rtRun <- v4, rtPosts <- v5, rtPlan <- v6,
        rtJob <- v7, rtResult <- v8, rtLive <- v9, rtWork <- v10, rtTasks <- v11

(* The steps of a plan handed to sessions.                               *)
Plan == INSTANCE RoundTable WITH Members <- <<"a", "b">>, Debates <- {},
        maxAutoRounds <- 1, Limit <- 99, MaxPosts <- 0, MaxWork <- 5, rtSeats <- v1,
        rtOpen <- v2, rtLog <- v3, rtRun <- v4, rtPosts <- v5, rtPlan <- v6,
        rtJob <- v7, rtResult <- v8, rtLive <- v9, rtWork <- v10, rtTasks <- v11

-----------------------------------------------------------------------------
Init ==
    /\ focus \in Foci
    /\ \/ focus = "bus" /\ Bus!Init /\ Unused(10)
       \/ focus = "hub" /\ Hub!Init /\ Unused(20)
       \/ focus = "routing" /\ Routing!Init /\ Unused(20)
       \/ focus = "registry" /\ Reg!Init /\ Unused(10)
       \/ focus = "telegram" /\ Tg!Init /\ v7 = "slack" /\ Unused(30)
       \/ focus = "socket" /\ Sock!Init /\ Unused(30)
       \/ focus = "bridge" /\ Brg!Init /\ v7 = "slack" /\ Unused(30)
       \/ focus = "command" /\ Cmd!Init /\ Unused(7)
       \/ focus = "stream" /\ Stream!Init /\ Unused(9)
       \/ focus = "backup" /\ Bk!Init /\ v18 = "none" /\ Unused(25)
       \/ focus = "replica" /\ Two!Init /\ v18 = "none" /\ Unused(25)
       \/ focus = "retention" /\ Retain!Init /\ v18 = "none" /\ Unused(25)
       \/ focus = "blob" /\ Seal!Init /\ Unused(6)
       \/ focus = "restore" /\ Rs!Init /\ Unused(12)
       \/ focus = "key" /\ Key!Init /\ Unused(25)
       \/ focus = "export" /\ Xp!Init /\ Unused(10)
       \/ focus = "zip" /\ XpC!Init /\ Unused(10)
       \/ focus = "target" /\ Tgt!Init /\ v18 = "none" /\ Unused(25)
       \/ focus = "secret" /\ Sec!Init /\ Unused(29)
       \/ focus = "migration" /\ Mig!Init /\ Unused(29)
       \/ focus = "shutdown" /\ Down!Init /\ Unused(19)
       \/ focus = "audit" /\ Aud!Init /\ Unused(6)
       \/ focus = "admin" /\ Adm!Init /\ Unused(12)
       \/ focus = "vault" /\ Vg!Init /\ Unused(23)
       \/ focus = "notes" /\ Nv!Init /\ Unused(15)
       \/ focus = "sql" /\ Sql!Init /\ Unused(13)
       \/ focus = "pools" /\ Pool!Init /\ Unused(13)
       \/ focus = "failover" /\ Fl!Init /\ Unused(8)
       \/ focus = "failover of two" /\ FlTwo!Init /\ Unused(8)
       \/ focus = "awake" /\ Ka!Init /\ Unused(11)
       \/ focus = "worktree" /\ Wt!Init /\ Unused(14)
       \/ focus = "account" /\ Acc!Init /\ Unused(15)
       \/ focus = "conversation" /\ Conv!Init /\ Unused(10)
       \/ focus = "merge" /\ Git!Init /\ Unused(17)
       \/ focus = "watcher" /\ Watch!Init /\ Unused(17)
       \/ focus = "gitpane" /\ Pane!Init /\ Unused(21)
       \/ focus = "update" /\ Up!Init /\ Unused(25)
       \/ focus = "crash" /\ Crash!Init /\ Unused(25)
       \/ focus = "mcp" /\ Mcp!Init /\ ~v17.up /\ v18 = Mcp!NoFile /\ Unused(29)
       \/ focus = "server" /\ Srv!Init /\ ~v17.up /\ v18 = Srv!NoFile /\ Unused(29)
       \/ focus = "health" /\ Health!Init /\ Unused(17)
       \/ focus = "canvas" /\ Cn!Init /\ Unused(10)
       \/ focus = "memory" /\ Mm!Init /\ Unused(20)
       \/ focus = "cleaner" /\ Cl!Init /\ Unused(20)
       \/ focus = "judges" /\ Race!Init /\ Unused(20)
       \/ focus = "capture" /\ Cap!Init /\ Unused(13)
       \/ focus = "backoff" /\ Retry!Init /\ Unused(13)
       \/ focus = "worker" /\ Mw!Init /\ Unused(12)
       \/ focus = "document" /\ Pd!Init /\ Unused(24)
       \/ focus = "page" /\ Kb!Init /\ Unused(24)
       \/ focus = "skill" /\ Sk!Init /\ Unused(26)
       \/ focus = "curator" /\ Cur!Init /\ Unused(26)
       \/ focus = "distil" /\ Dis!Init /\ Unused(26)
       \/ focus = "drafter" /\ Draft!Init /\ Unused(26)
       \/ focus = "thread" /\ Thread!Init /\ Unused(17)
       \/ focus = "claim" /\ Claim!Init /\ Unused(17)
       \/ focus = "faults" /\ Fault!Init /\ Unused(17)
       \/ focus = "suggestion" /\ Sugg!Init /\ Unused(17)
       \/ focus = "blueprint" /\ Bp!Init /\ Unused(24)
       \/ focus = "cost" /\ Cost!Init /\ Unused(11)
       \/ focus = "debate" /\ Talk!Init /\ Unused(11)
       \/ focus = "plan" /\ Plan!Init /\ Unused(11)

BusNext == focus = "bus" /\ Bus!Next /\ Frame(10)
HubNext == focus = "hub" /\ Hub!Next /\ Frame(20)
RoutingNext == focus = "routing" /\ Routing!Next /\ Frame(20)
RegNext == focus = "registry" /\ Reg!Next /\ Frame(10)
TgNext == focus = "telegram" /\ Tg!Next /\ Frame(30)
SockNext == focus = "socket" /\ Sock!Next /\ Frame(30)
BrgNext == focus = "bridge" /\ Brg!Next /\ Frame(30)
CmdNext == focus = "command" /\ Cmd!Next /\ Frame(7)
StreamNext == focus = "stream" /\ Stream!Next /\ Frame(9)
BkNext == focus = "backup" /\ Bk!Next /\ Frame(25)
TwoNext == focus = "replica" /\ Two!Next /\ Frame(25)
RetainNext == focus = "retention" /\ Retain!Next /\ Frame(25)
SealNext == focus = "blob" /\ Seal!Next /\ Frame(6)
RsNext == focus = "restore" /\ Rs!Next /\ Frame(12)
KeyNext == focus = "key" /\ Key!Next /\ Frame(25)
XpNext == focus = "export" /\ Xp!Next /\ Frame(10)
XpCNext == focus = "zip" /\ XpC!Next /\ Frame(10)
TgtNext == focus = "target" /\ Tgt!Next /\ Frame(25)
SecNext == focus = "secret" /\ Sec!Next /\ Frame(29)
MigNext == focus = "migration" /\ Mig!Next /\ Frame(29)
DownNext == focus = "shutdown" /\ Down!Next /\ Frame(19)
AudNext == focus = "audit" /\ Aud!Next /\ Frame(6)
AdmNext == focus = "admin" /\ Adm!Next /\ Frame(12)
VgNext == focus = "vault" /\ Vg!Next /\ Frame(23)
NvNext == focus = "notes" /\ Nv!Next /\ Frame(15)
SqlNext == focus = "sql" /\ Sql!Next /\ Frame(13)
PoolNext == focus = "pools" /\ Pool!Next /\ Frame(13)
FlNext == focus = "failover" /\ Fl!Next /\ Frame(8)
FlTwoNext == focus = "failover of two" /\ FlTwo!Next /\ Frame(8)
KaNext == focus = "awake" /\ Ka!Next /\ Frame(11)
WtNext == focus = "worktree" /\ Wt!Next /\ Frame(14)
AccNext == focus = "account" /\ Acc!Next /\ Frame(15)
ConvNext == focus = "conversation" /\ Conv!Next /\ Frame(10)
GitNext == focus = "merge" /\ Git!Next /\ Frame(17)
WatchNext == focus = "watcher" /\ Watch!Next /\ Frame(17)
PaneNext == focus = "gitpane" /\ Pane!Next /\ Frame(21)
UpNext == focus = "update" /\ Up!Next /\ Frame(25)
CrashNext == focus = "crash" /\ Crash!Next /\ Frame(25)
McpNext == focus = "mcp" /\ Mcp!Next /\ Frame(29)
SrvNext == focus = "server" /\ Srv!Next /\ Frame(29)
HealthNext == focus = "health" /\ Health!Next /\ Frame(17)
CnNext == focus = "canvas" /\ Cn!Next /\ Frame(10)
MmNext == focus = "memory" /\ Mm!Next /\ Frame(20)
ClNext == focus = "cleaner" /\ Cl!Next /\ Frame(20)
RaceNext == focus = "judges" /\ Race!Next /\ Frame(20)
CapNext == focus = "capture" /\ Cap!Next /\ Frame(13)
RetryNext == focus = "backoff" /\ Retry!Next /\ Frame(13)
MwNext == focus = "worker" /\ Mw!Next /\ Frame(12)
PdNext == focus = "document" /\ Pd!Next /\ Frame(24)
KbNext == focus = "page" /\ Kb!Next /\ Frame(24)
SkNext == focus = "skill" /\ Sk!Next /\ Frame(26)
CurNext == focus = "curator" /\ Cur!Next /\ Frame(26)
DisNext == focus = "distil" /\ Dis!Next /\ Frame(26)
DraftNext == focus = "drafter" /\ Draft!Next /\ Frame(26)
ThreadNext == focus = "thread" /\ Thread!Next /\ Frame(17)
ClaimNext == focus = "claim" /\ Claim!Next /\ Frame(17)
FaultNext == focus = "faults" /\ Fault!Next /\ Frame(17)
SuggNext == focus = "suggestion" /\ Sugg!Next /\ Frame(17)
BpNext == focus = "blueprint" /\ Bp!Next /\ Frame(24)
CostNext == focus = "cost" /\ Cost!Next /\ Frame(11)
TalkNext == focus = "debate" /\ Talk!Next /\ Frame(11)
PlanNext == focus = "plan" /\ Plan!Next /\ Frame(11)

Next ==
    \/ BusNext
    \/ HubNext
    \/ RoutingNext
    \/ RegNext
    \/ TgNext
    \/ SockNext
    \/ BrgNext
    \/ CmdNext
    \/ StreamNext
    \/ BkNext
    \/ TwoNext
    \/ RetainNext
    \/ SealNext
    \/ RsNext
    \/ KeyNext
    \/ XpNext
    \/ XpCNext
    \/ TgtNext
    \/ SecNext
    \/ MigNext
    \/ DownNext
    \/ AudNext
    \/ AdmNext
    \/ VgNext
    \/ NvNext
    \/ SqlNext
    \/ PoolNext
    \/ FlNext
    \/ FlTwoNext
    \/ KaNext
    \/ WtNext
    \/ AccNext
    \/ ConvNext
    \/ GitNext
    \/ WatchNext
    \/ PaneNext
    \/ UpNext
    \/ CrashNext
    \/ McpNext
    \/ SrvNext
    \/ HealthNext
    \/ CnNext
    \/ MmNext
    \/ ClNext
    \/ RaceNext
    \/ CapNext
    \/ RetryNext
    \/ MwNext
    \/ PdNext
    \/ KbNext
    \/ SkNext
    \/ CurNext
    \/ DisNext
    \/ DraftNext
    \/ ThreadNext
    \/ ClaimNext
    \/ FaultNext
    \/ SuggNext
    \/ BpNext
    \/ CostNext
    \/ TalkNext
    \/ PlanNext

Spec == Init /\ [][Next]_vars

(* What a session puts out and what the gateway records of it is not     *)
(* lost or shuffled without a trace: a client that attaches sees every   *)
(* byte it was promised or a gap it is told of, a bus that closes while  *)
(* events are sent does not panic, a reader that pages through the audit *)
(* trail sees every row there was when it began.                         *)
NoSilentLoss ==
    /\ focus = "stream" => Stream!NoSilentGap
    /\ focus = "bus" => Bus!NoPanic /\ Bus!PublisherOrder
    /\ focus = "audit" => Aud!PagesComplete /\ Aud!PagesDescend /\ Aud!TopicOrder

(* A message of a chat is answered once and by the right session: no     *)
(* reply is sent twice or left waiting for a turn that is over, a reply  *)
(* goes to the session notified last, a notification goes out once per   *)
(* turn, and only owners act, on what the list they were shown named.    *)
ChatAnswersOnce ==
    /\ focus = "hub" => Hub!RepliedOnce /\ Hub!WaitingIsPending
    /\ focus = "routing" => Routing!ReplyFindsNewest /\ Routing!NotifiedOnce
    /\ focus = "command" => Cmd!OwnersOnly /\ Cmd!KeyboardOnlyAsks /\ Cmd!ActsOnWhatIsShown /\ Cmd!ListReachesLive

(* Each chat platform is served by one adapter that hands on what it     *)
(* takes: polling skips no update and repeats none within an instance, a *)
(* long card arrives whole in pieces that stand alone, what is           *)
(* acknowledged was handled, a bridge speaks with one voice, a stopped   *)
(* adapter does not linger and no secret is lost to a reconfiguration.   *)
PlatformsDeliver ==
    /\ focus = "telegram" => Tg!NothingSkipped /\ Tg!OncePerInstance /\ Tg!CardArrives /\ Tg!ChunksStandAlone
    /\ focus = "socket" => Sock!AckedIsHandled
    /\ focus = "bridge" => Brg!OneVoice /\ Brg!DoneClosedOnce /\ Brg!SentAsDeclared
    /\ focus = "registry" => Reg!StoppedOnce /\ Reg!NoLeakedAdapter /\ Reg!SecretKept

(* The work of a session outlives what the gateway does around it: a     *)
(* worktree stays under its sessions and is not abandoned, edits and     *)
(* commits are lost by no reclaim and by no write of the git pane, and   *)
(* what the pane shows of the tree is the tree.                          *)
WorkIsKept ==
    /\ focus = "worktree" => Wt!TreeUnderSession /\ Wt!NoWorkLost /\ Wt!NoAbandonedTree /\ Wt!ResolverKnows
    /\ focus = "gitpane" => Pane!NothingLost /\ Pane!OnlyConfigured /\ Pane!StatusParsesBack

(* What the gateway says of a pull request is what its host says: the    *)
(* credential kept is the one configured, a pull request shown as merged *)
(* is merged, checks that were pending are answered in time, also across *)
(* a restart, and the verdict announced is that of its commit.           *)
HostsAreHeard ==
    /\ focus = "merge" => Git!TokenKept /\ Git!MergedIsMerged
    /\ focus = "watcher" => Watch!PendingIsAnswered /\ Watch!VerdictTrue

(* A session keeps itself across account switches: an account is held    *)
(* back only while its limit lasts, a switch keeps the session, and the  *)
(* conversation carried along is its own, whole, and carried with        *)
(* consent.                                                              *)
AccountsFollow ==
    /\ focus = "failover" => Fl!HeldOnlyWhileLimited
    /\ focus = "failover of two" => FlTwo!HeldOnlyWhileLimited
    /\ focus = "account" => Acc!SwitchKeepsSession
    /\ focus = "conversation" => Conv!OwnConversation /\ Conv!FullHistory /\ Conv!ConsentKept

(* What ends, ends in order: at shutdown every call that returned is on  *)
(* record, only stragglers meet a closed log, no child is left unkilled  *)
(* and the store outlives its users; an update installs a whole binary,  *)
(* reads what it accepted and interrupts sessions only when confirmed;   *)
(* the machine is kept awake while used and no helper strays.            *)
EndsInOrder ==
    /\ focus = "shutdown" => Down!CallsOnRecord /\ Down!OnlyStragglersPanic /\ Down!NoneLeftUnkilled /\ Down!StoreOutlivesWorkers
    /\ focus = "update" => Up!InstalledIsWhole /\ Up!AcceptedIsRead /\ Up!InterruptionConfirmed
    /\ focus = "crash" => Crash!InstalledIsWhole /\ Crash!AcceptedIsRead
    /\ focus = "awake" => Ka!UseIsSeen /\ Ka!NoStrayHelper

NoStepBackStep ==
    /\ focus = "failover" => Fl!NeverShortenedStep /\ Fl!MovesToFreeStep
    /\ focus = "failover of two" => FlTwo!NeverShortenedStep /\ FlTwo!MovesToFreeStep
    /\ focus = "telegram" => Tg!StoppedIsSilentStep
    /\ focus = "socket" => Sock!StopIsFinalStep
    /\ focus = "awake" => Ka!LingersAcrossGapsStep
    /\ focus = "account" => Acc!DriftNotSwallowedStep /\ Acc!EnabledOnPurposeStep
    /\ focus = "merge" => Git!OwnIdentityStep
    /\ focus = "watcher" => Watch!NoRepeatStep
    /\ focus = "gitpane" => Pane!SwitchTakesNothingAlongStep /\ Pane!RemoteLosesOnlySeenStep

(* No step takes back what was established: a throttled account's hold   *)
(* is not shortened and a session moves to a free account only, a        *)
(* stopped adapter stays silent, a gap does not end the lease on         *)
(* wakefulness, a login is neither swallowed nor enabled behind the      *)
(* operator's back, a token serves its own host, a notification is not   *)
(* repeated, and neither a checkout nor a push takes along or overwrites *)
(* what nobody saw.                                                      *)
NoStepBack == [][NoStepBackStep]_vars

(* Credentials mean what was last said of them: after a change of the    *)
(* password the last change counts and tokens of before are gone, the    *)
(* health an event told is the health on record, the backup key survives *)
(* a restart under one scheduler, and the secrets file opens, keeps what *)
(* was acknowledged and parses back, also across its migration.          *)
CredentialsHold ==
    /\ focus = "admin" => Adm!LastChangeCounts /\ Adm!OldTokensGone
    /\ focus = "health" => Health!EventsTellStatus
    /\ focus = "key" => Key!OneScheduler /\ Key!SurvivesRestart
    /\ focus = "secret" => Sec!AckedIsStored /\ Sec!FileOpens /\ Sec!PlainParsesBack
    /\ focus = "migration" => Mig!MigrationLosesNothing

(* What runs follows what is configured: a CLI finds the servers wanted  *)
(* for it and no torn file, managed entries follow their list and names  *)
(* are unique, a pool follows its connection and none leaks, a statement *)
(* said to read only reads and a deletion is whole, and a worker's call  *)
(* goes to the provider that is enabled for it and leaves only its own   *)
(* row.                                                                  *)
ConfigurationFollows ==
    /\ focus = "mcp" => Mcp!FoundIsWanted /\ Mcp!IntegrationApart /\ Mcp!NeverTorn /\ Mcp!ListFollowsFile
    /\ focus = "server" => Srv!NamesUnique
    /\ focus = "sql" => Sql!ReadsAreReads /\ Sql!DeleteAllOrNothing
    /\ focus = "pools" => Pool!NoLeakedPool /\ Pool!PoolFollowsRow
    /\ focus = "worker" => Mw!OneDefault /\ Mw!ResolversAgree /\ Mw!DisabledNotCalled /\ Mw!SwitchedOffIsSilent /\ Mw!CallsLeaveOnlyTheirRow

(* A backup that is listed can be fetched, and fetched it can be used:   *)
(* fingerprints are true and every row is settled, retention keeps the   *)
(* last good one and blobs that are shared, a blob opens whole or fails  *)
(* and is never half in place, targets are served under their latest     *)
(* configuration and a schedule is claimed once.                         *)
BackupsHold ==
    /\ focus = "backup" => Bk!FingerprintTrue
    /\ focus = "replica" => Two!EveryRowSettled
    /\ focus = "retention" => Retain!KeptIsFetchable /\ Retain!LastGoodKept /\ Retain!SharesNoBadBlob
    /\ focus = "blob" => Seal!WholeOrError /\ Seal!StoredOpens /\ Seal!NothingPartialInPlace
    /\ focus = "target" => Tgt!FreshConfig /\ Tgt!DeletedIsGone /\ Tgt!ClaimedOnce

(* What is put back or carried over is whole or not claimed to be: a     *)
(* restore saves what it touches before it touches it, keeps the         *)
(* original until the end, leaves no hole and applies what it says it    *)
(* applied; an import counts true; an export that is ready is whole and  *)
(* none is left behind without a row.                                    *)
RestoresHold ==
    /\ focus = "restore" => Rs!SavedBeforeTouched /\ Rs!OriginalKept /\ Rs!NoHoleLeft /\ Rs!AppliedIsTrue
    /\ focus = "export" => Xp!CountsTrue
    /\ focus = "zip" => XpC!NoOrphanZip /\ XpC!ReadyIsWhole

(* What the gateway remembers is what it was told: no memory is          *)
(* forgotten, its label tells the embedder of its vector and one copy    *)
(* outlives the cleaner, and a fact is stored once.                      *)
MemoryIsTrue ==
    /\ focus = "memory" => Mm!NothingForgotten /\ Mm!LabelTellsVector /\ Mm!ProjectKept
    /\ focus = "cleaner" => Cl!DecisionsClosed
    /\ focus = "judges" => Race!OneCopyLeft
    /\ focus = "capture" => Cap!StoredOnce

(* What a project's documents show is what was written last: an          *)
(* embedding and a mirror belong to the text they stand for and no       *)
(* session ends unlogged, a section set is applied whole and keeps its   *)
(* front page, links follow a moved note, the vault does not publish the *)
(* markers of a stopped rebase, and a canvas names its version and wears *)
(* the style in force.                                                   *)
DocumentsAreTrue ==
    /\ focus = "document" => Pd!VectorOfText /\ Pd!MirrorTrue /\ Pd!NoSilentSession
    /\ focus = "blueprint" => Bp!SavedStays /\ Bp!FrontPageStays /\ Bp!AppliedWhole /\ Bp!ProposalSavable
    /\ focus = "notes" => Nv!LinksFollow /\ Nv!ProjectFound
    /\ focus = "vault" => Vg!NoMarkersUpstream
    /\ focus = "canvas" => Cn!NotifiedOnce /\ Cn!VersionNamesContent /\ Cn!OneStyleBlock /\ Cn!StyleInForce

(* Agents propose and count their cost: a procedure is distilled once    *)
(* and enabled after review, a rejected draft stays rejected and is paid *)
(* for once, a pin is honoured, an answer is to what was asked, a        *)
(* suggestion is applied once and while it is in force, a thread         *)
(* escalates once, a debate stays within its rounds, drops nobody, and a *)
(* step belongs to one session.                                          *)
AgentsAskFirst ==
    /\ focus = "page" => Kb!RemovalsAreHuman
    /\ focus = "skill" => Sk!OncePerEvidence
    /\ focus = "curator" => Cur!VaultFollowsSwitch
    /\ focus = "distil" => Dis!VaultFollowsSwitch /\ Dis!ReviewedFirst
    /\ focus = "drafter" => Draft!RejectedStaysRejected /\ Draft!OneCallPerChange /\ Draft!UnchangedIsClean
    /\ focus = "thread" => Thread!PinHonoured /\ Thread!AskedIsHeard
    /\ focus = "suggestion" => Sugg!AppliedOnce /\ Sugg!AppliedInForce /\ Sugg!OneEscalation
    /\ focus = "cost" => Cost!BoundedCost
    /\ focus = "debate" => Talk!NobodyDropped
    /\ focus = "plan" => Plan!StepOwnsSession

HumanDecidesStep ==
    /\ focus = "memory" => Mm!RestoreExactStep
    /\ focus = "cleaner" => Cl!RestoreRespectedStep
    /\ focus = "document" => Pd!HumanTextGatedStep
    /\ focus = "page" => Kb!DecidedOnceStep
    /\ focus = "drafter" => Draft!HandsOffStep
    /\ focus = "claim" => Claim!ClaimRespectedStep
    /\ focus = "faults" => Fault!ShownIsKeptStep
    /\ focus = "debate" => Talk!PausedSpeakFirstStep
    /\ focus = "capture" => Cap!PolicyKeptStep
    /\ focus = "backoff" => Retry!TickBacksOffStep
    /\ focus = "health" => Health!UnhealthyEarnedStep
    /\ focus = "notes" => Nv!NoneOverwrittenStep
    /\ focus = "vault" => Vg!UnconfirmedTakesNothingStep /\ Vg!NothingLostStep /\ Vg!RemoteOnlyGrowsStep
    /\ focus = "canvas" => Cn!PickerKeepsNotationStep

(* No step of an agent or a background pass undoes what a person         *)
(* decided: an archived memory and a restored one stay so, a page a      *)
(* human claimed or edited is left alone, removals are human, a proposal *)
(* is decided once, what was shown is kept, those interrupted speak      *)
(* first, a policy is kept, a failing summarizer is backed off, an       *)
(* integration is called unhealthy for a reason, no note is overwritten  *)
(* by a move, the vault and its remote lose nothing unconfirmed, and a   *)
(* colour picked keeps its notation.                                     *)
HumanDecides == [][HumanDecidesStep]_vars

NothingOverwrittenStep ==
    /\ focus = "secret" => Sec!StaysEncryptedStep
    /\ focus = "mcp" => Mcp!UserEntriesKeptStep
    /\ focus = "sql" => Sql!OnlyAuthorizedWritesStep
    /\ focus = "key" => Key!ReplacedOnPurposeStep
    /\ focus = "export" => Xp!NeverOverwritesStep

(* No step overwrites what another owns: secrets stay encrypted, a       *)
(* user's own configuration entries stay, only authorized statements     *)
(* write, a key is replaced on purpose, and an import overwrites no row. *)
NothingOverwritten == [][NothingOverwrittenStep]_vars
=============================================================================
