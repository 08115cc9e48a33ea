# OpenDray: TLA+ models, checks and proofs

OpenDray is a gateway: one Go process that runs AI coding CLIs in PTYs, keeps
them alive when clients go away, lets web, mobile and chat clients drive them,
and keeps around them what they need: account pools, worktrees, memory,
documents, backups, integrations. This directory models what in it is
concurrent, fails half way or has to agree with something written elsewhere,
checks the models with TLC on small instances, and proves with TLAPS, for all
instances, the main results about the session core, the integrations and nine of
the components around them.

Paths are relative to the repository root; `manager.go`, `pump.go` and so on
without a directory are in `internal/session`.

## 1. Inventory

### 1.1 Components

`PROJECT.json` lists every component with its sources, modelled or not, and a
note on what is left out. In short:

| Component | State | What is hard about it | Module |
| --- | --- | --- | --- |
| Session manager (`manager.go`, `pump.go`, `store.go`) | live map, reservations, stop requests, the `sessions` table, scratch directories | every request, chat command and resume is a goroutine, locks are dropped between steps, SQL fails, the process crashes | `SessionManager`, `SessionLifecycle`, `Transitions` |
| Idle and turn detection | `lastActivity`, `isIdle`, arming | two locks for one fact, old ticks | `SessionActivity` |
| Output ring and streaming | ring, subscribers, bounded channels | wrap-around; attach between ring and fanout; a client that is lapped | `RingBuffer`, `OutputTail`, `SessionStream` |
| Rate-limit failover, account pools, conversations | throttle store, rows and homes, transcripts | a switch from the pump goroutine; imports and watcher; what a restart resumes | `RateLimitFailover`, `AccountPool`, `Conversation` |
| Event bus | subscriptions, closed flag | close and unsubscribe against a publisher | `EventBus` |
| Channel hub, registry, commands, adapters | pending replies, timers, routing, running adapters | timers race events and newer messages; reconfiguration; polling and reconnects | `ChannelHub`, `ChannelRegistry`, `ChannelCommands`, `ChatAdapters` |
| Keep-awake, worktrees | leases and a helper process; holds and reclaims | lingering, restarts; create in a tree being reclaimed | `KeepAwake`, `Worktree` |
| Git pane, git hosts, vault git | the work tree an agent edits; forges; the notes repository | a request is several git commands and others work between them | `GitWrite`, `GitHosts`, `VaultGit` |
| Memory, capture, workers | vector rows, decisions, cursors, provider rows | background passes write back what they read | `Memory`, `Capture`, `MemoryWorkers` |
| Documents, knowledge, curation, notes, canvas, round table | pages, proposals, threads, files, debates | a model call of minutes lies between read and write | `ProjectDoc`, `Knowledge`, `Curation`, `NotesVault`, `Canvas`, `RoundTable` |
| Backups, blobs, restore, export | rows, blobs, keys, schedules | partial failure between a blob and its row; a changing key | `Backups`, `SealedBlob`, `Restore`, `ExportImport` |
| Integrations, authentication, MCP, database tool | keys and caches, tokens, shared configuration files, pools | a cache that outlives its row; file rewritten by others | `Integrations`, `AdminAuth`, `McpRegistry`, `DBTool` |
| Gateway end, audit, self-update | shared deadline, queues, request file | stragglers; ids taken before commit; two updaters | `Shutdown`, `AuditTrail`, `SelfUpdate` |

### 1.2 How they interact

* HTTP handlers, the hub, the failover and auto-resume call the session manager,
  each from a goroutine of its own. Its shared state is guarded by `m.mu`,
  `m.stopMu` and per run `sessMu`, `subsMu`, `activityMu`, none of which is held
  across an SQL statement or a spawn.
* A spawned run starts the pump, `waitExit` and two watchers; they share
  `runningSession` with the callers.
* The manager publishes `session.*` events on the bus; the hub, the audit sink,
  the journaler and the memory capture subscribe. The hub answers by calling
  `Input` and `ExpectTurn`.
* Provider preparation, a step of spawn, writes the CLIs' configuration
  (`McpRegistry`), carries conversations (`Conversation`) and creates worktrees
  (`Worktree`).
* The database outlives the gateway: `ReconcileStartup` turns rows an earlier
  gateway left running into interrupted ones and resumes them.

The hazards that follow from this, each at its line, are the list `hazards` of
`PROJECT.json`, with the properties that watch them.

## 2. Modules

A step is the code between two points at which somebody else can overtake: one
critical section, one SQL statement, one file operation or system call, one
model or network call. Names of actions and variables follow the code. History
variables (marked "history") record what happened so that a property can tell
a loss the code documents or a maintainer would accept from one it should not
have; nothing reads them but properties. Constants marked "bound" cap what may
happen; every other constant is a parameter of the code or a set of identities.

### 2.1 The session core

**`Transitions`** is the matrix of `transitions.go` and the classification of an
exit. **`SessionLifecycle`** is the abstract specification of what a persisted
row may do: it moves along the matrix or to `removed`; one update may move
several rows. One entry is weaker than the matrix because the code is: the SQL
guard does not protect `interrupted` from a late stop or exit.

**`SessionManager`**: `Create`, `Start`, `Stop`, `Remove`, `Switch*Account`,
auto-resume, `ReconcileStartup`, `Shutdown`, `waitExit`. `pc[c]` says where a
caller stands, `wpc[r]` where the exit detector of run `r` stands. `row` and
`rowAcct` are the table, `tmp` the scratch directories; `sessions`, `starting`,
`stopReq` are the manager's maps, `rss` the snapshot `Shutdown` takes; a run is
one `runningSession` with its process. `idle` is kept in memory only, so here
`running` stands for both live states. Preparation and `pty.Start` may fail at
any time, up to `MaxFaults` SQL writes fail, the gateway may crash or be told to
terminate between any two steps; `GatewayGone` clears memory, rows and
directories stay. The five `Switch*Account` have one skeleton: read, stop, read
again, spawn on the new account, persist; Grok, Codex and OpenCode spawn once
more on the previous account when the spawn fails (`switch_rollback`). `Ops`
selects the operations of an instance, `EarlyIds` says whether a client may name
an id before `Create` returned it (the list endpoint shows it).

**`SessionActivity`**: one run with a clock in ticks of about a second; each
critical section of `activityMu` and of `sessMu` is a step. A watcher receives a
tick and may look at it late. Recording activity takes less than a tick.

**`RingBuffer`** moves bytes and never looks at them, so a byte is its offset in
the output of its run. `Write` has the three branches of the code. `Poll` is a
client of `GET /buffer` that passes its cursor back; a restart starts a new
ring. **`OutputTail`**, its abstract specification, is a sequence that keeps the
last bytes. **`SessionStream`**: one run, several WebSocket clients; the pump
stores a chunk and hands it out in two steps, `Subscribe` checks and registers
in two, the handler replays after it registered.

### 2.2 Around the sessions

| Module | A step is | What races |
| --- | --- | --- |
| `EventBus` | one channel send under the read lock, or a critical section | publishers, unsubscribe, `Close` |
| `ChannelHub` | a critical section of `pendingMu` or `notifyMu`, a send | inbound handlers, outbound goroutine, cap timers |
| `ChannelRegistry` | one access of `Hub.channels`, one row | request goroutines, start, shutdown, a changing cipher key |
| `ChannelCommands` | one command or tap | cards that are still on the screen, sessions that come and go |
| `ChatAdapters` (poll, socket, bridge) | a poll, a frame, an ack, one chunk of a card | reconnects, `Stop` and its timeout, presses acknowledged out of turn, several instances |
| `RateLimitFailover` | mark, choose, switch, by each pump | hours pass, banners age, two sessions on one account |
| `AccountPool` | a row, a file, a scan | edits, imports, watcher, logins on the host |
| `Conversation` | a stop, exit hook, switch or restart | the exit hook against the next start; copies in several homes; newer and longer transcripts than are looked at |
| `KeepAwake` | an entry or exit of a request, a poll of the keeper | helper exits, backoff, shutdown |
| `Worktree` | a git command, the reservation, the row | create of a child against the owner's removal |
| `GitWrite` | one git command of a request | the agent's edits, pushes of others, credentials, branch names git reads as refspecs |
| `GitHosts` | one request to the forge, one row | pushes, check results, edits of credentials, restarts |
| `Shutdown` | a step of `Run` after the signal | stragglers, kill timers, the shared 15 s, background workers waited for in turn |
| `AuditTrail` | taking an id, committing a row, reading a page | one consumer per topic, a paging reader |
| `SelfUpdate` | a file operation of daemon or updater, a file reaching the disk | two updaters, a new request, a host that goes down |

### 2.3 What the gateway keeps

| Module | A step is | What races |
| --- | --- | --- |
| `Integrations` | a row, a cache access, a probe | `Verify` against rotation, disabling, deletion |
| `AdminAuth` | comparing, storing a token, a file, the snapshot | logins and changes of the password, restarts |
| `McpRegistry` (config, secrets) | read, merge, truncation and write of a file | two spawns, two requests, the user's own edits, the keychain, crashes |
| `DBTool` | resolving the row, opening a pool, a statement, one deleted row | edits of the connection, eviction |
| `Backups` (run, target, key) | a row, a blob, a claim | two runs, retention, deletion, a new key or configuration, a cancelled context, a target that cannot be built |
| `SealedBlob` | one chunk of a `Put` | failures, crashes, damage to the stored blob |
| `Restore` | one file moved, installed or unpacked | failures and crashes at every step, one restore after another |
| `ExportImport` | one entry of a bundle, one step of builder, reaper, delete | two imports, a crash |
| `Memory` (store, cleaner) | a row read or written, a batch, a model call | stores, edits, the re-embedding pass, two cleaner runs, restarts |
| `Capture` | look, summarise, store a fact | the ticker and "run now", restarts |
| `MemoryWorkers` | resolve, call, record; read and commit of an edit | calls, also with a configuration of their own, against edits of provider rows |
| `ProjectDoc` (doc, blueprint) | read, model call, write, embed, mirror | operator, agents, drift, approval, backfill, resets |
| `Knowledge` (skill, draft) | a row, a file, a model call | sweep, endpoint, curator with the list it read, the operator's switch |
| `Curation` | a read of thread and page, the answer, the write | turns, clicks, the operator's saves |
| `RoundTable` | one reply, one round, one launch | debates, close, seats, plans |
| `NotesVault` | a stat, a read, a write or a rename | appends, moves, deletes, the layout's migration |
| `VaultGit` | one git command, which may fail | sync loop, operator, agents' saves, a colleague's pushes, stashes that do not apply |
| `Canvas` | a row, the focus, a seeded prompt | renders, focus switches, design changes |

A module with several parts has a constant `Parts`: an instance uses one of
them, and the variables of the others keep their initial values.

What the modules say of files, rows and the programs the gateway calls follows
the calls the code makes:

* `os.WriteFile` truncates and then writes, so a crash between leaves a short
  file and two writers may mix (`McpRegistry`). A rename replaces a name at once,
  but nothing is synced: after the host went down a file that was renamed may be
  short (`SelfUpdate`).
* A row and the file it stands for are two steps, each of which may fail, taken
  by whoever calls (`Knowledge`'s skills: row then file when switching, file then
  row when deleting).
* The scheduler of the backups has a context of its own, cancelled by disarming,
  re-arming and shutdown; a status write under it is refused, and any other may
  fail. A target that cannot be built is skipped when the registry is loaded.
  With `OPENDRAY_BACKUP_KEY_FILE` a boot reads another key file than the one a
  setup writes (`Backups`).
* Claude's conversation is looked for in the `MaxCandidates` newest transcripts
  and in the tail of each; which ids the tail holds is the world's choice
  (`Conversation`).
* A branch may carry a sign, because `validBranchName` admits a leading `+` or
  `:`, which git reads as "force" and "delete". Names such as `a:b`, which push to
  another branch, are left out (`GitWrite`).
* An `--autostash` that does not apply leaves conflict markers in the files and
  lets git report success (`VaultGit`).

### 2.4 The composed instances

The components run in goroutines of their own, under locks and tables of their
own; what one does to another is in the model of the one it is done to (the
failing preparation of spawn, the full subscription of the hub, the requests in
flight at shutdown). `MCGateway` therefore holds one instance of each module and
question (table in section 3.2) and a variable `focus`: `Init` chooses an
instance, and only that one moves. The instances share the variables `v1`,
`v2`, ..., and those an instance does not use are constant. The reachable states
are the disjoint union of the instances'; nothing is claimed about two
components at once. A property of `MCGateway` is a theme: a conjunction with one
conjunct per instance it is about, guarded by `focus`. `Foci` selects the
instances, which is also how to check one alone: its behaviours, and the
conjuncts of every theme about it, are then all there is.

`MCLive` does the same for liveness, with named variables. A conjunct there has
the form `Fair => (P ~> Q)` with the fairness it needs as its premise.

## 3. Runs

### 3.1 The modules run directly

| Run | Instance | Checks |
| --- | --- | --- |
| `manager_restart` | 1 session, 1 client, 1 resumer, 2 runs, 1 SQL failure; all calls but switches, SIGTERM, crash | `TypeOK`, `AtMostOneProcess`, `NoPhantomRunning`, `UserStopWins`, `RowFollowsLifecycle` |
| `manager_sequential` | 1 client, 2 accounts, 2 runs, every call, 1 SQL failure, crash | `AccountAgrees`, `NoGhost`, `RowTracksProcess` |
| `manager_liveness` | fair; 1 client; start, stop, SIGTERM | `CallsReturn` |
| `manager_resume` | fair; 3 sessions, 1 slot, cap 2, crashes | `ResumeAttempted` |
| `ring` | capacity 4, chunks 0..6, 13 bytes, 1 respawn | `ReplayExact`, `LossReported`, `KeepsTail` |
| `activity` | pump and chat, both thresholds 1, clock to 5, 2 activities and 2 armings | `TypeOK`, `IdleOncePerWindow`, `TurnOncePerArming`, `EndedStays` |
| `integrations` | 2 registrations of one prefix, 2 keys, 2 verifiers, 2 admin operations, health probes of one | `OneTarget`, `VerifiedWasEnabled`, `OldKeyForgotten` |

What they show. `manager_restart`: a boot resumes sessions beside a client that
creates, starts, stops and removes them, and no interleaving duplicates a
process, leaves a row running that nothing backs, or records a user stop as
anything else; the table's history is legal. `manager_sequential`: taken one at
a time, the calls keep row, live map, process and account in agreement, through
failing spawns, rollbacks of a switch, a lost write and crashes; the
interleavings that do not are in section 4. `manager_liveness` and
`manager_resume`: a CLI that ignores SIGTERM and a small semaphore hold nobody
up for ever. `ring` and `activity`: what a client is shown, and when a session
is called idle, answered or over. `integrations`: one target per prefix, and
what the verification cache may still answer.

### 3.2 The composed instances

`sessions` (what surrounds a session), `data` (memory, documents, knowledge,
notes and debates) and `operations` (credentials, configuration, providers,
backups, exports and restores) check the themes of `MCGateway` on these
instances; the constants are in the module, each instance's in its
`INSTANCE ... WITH`.

| `focus` | Module | Instance | What its conjuncts say |
| --- | --- | --- | --- |
| `bus` | `EventBus` | Two publishers race two subscribers with overlapping patterns and a channel of one. | `NoPanic`, `PublisherOrder` |
| `hub` | `ChannelHub` | Two messages to one session race its events and the cap timers. | `RepliedOnce`, `WaitingIsPending` |
| `routing` | `ChannelHub` | Notifications and replies over two sessions, no message pending. | `ReplyFindsNewest`, `NotifiedOnce` |
| `registry` | `ChannelRegistry` | Two admins create, enable, edit and delete a channel, with a restart under another key. | `StoppedOnce`, `NoLeakedAdapter`, `SecretKept` |
| `telegram` | `ChatAdapters` | Two updates over two polling instances, cards of up to four lines in chunks of three. | `NothingSkipped`, `OncePerInstance`, `CardArrives`, `ChunksStandAlone`, `StoppedIsSilent` |
| `socket` | `ChatAdapters` | Three frames, one of a kind the adapter ignores and one press, over two connections. | `AckedIsHandled`, `StopIsFinal` |
| `bridge` | `ChatAdapters` | Two bridges, two adapters dialling in with the same token. | `OneVoice`, `DoneClosedOnce`, `SentAsDeclared` |
| `command` | `ChannelCommands` | Two sessions, a list of one entry, an owner and a stranger. | `OwnersOnly`, `KeyboardOnlyAsks`, `ActsOnWhatIsShown`, `ListReachesLive` |
| `stream` | `SessionStream` | Two clients attach to a process that writes four chunks, over a ring of two and channels of one. | `NoSilentGap` |
| `backup` | `Backups` | A scheduled and a manual backup to one target, with a key rotation. | `FingerprintTrue` |
| `replica` | `Backups` | A scheduled backup to two targets, and its retention. | `EveryRowSettled` |
| `retention` | `Backups` | Two scheduled backups to one target, of which retention keeps one. | `KeptIsFetchable`, `LastGoodKept`, `SharesNoBadBlob` |
| `blob` | `SealedBlob` | Blobs of up to five units sealed in chunks of two, to every kind of target. | `WholeOrError`, `StoredOpens`, `NothingPartialInPlace` |
| `restore` | `Restore` | Two restores of two configuration files and a vault of two notes. | `SavedBeforeTouched`, `OriginalKept`, `NoHoleLeft`, `AppliedIsTrue` |
| `key` | `Backups` | Two admins set up, rotate and restart. | `OneScheduler`, `SurvivesRestart`, `ReplacedOnPurpose` |
| `export` | `ExportImport` | Two imports of a bundle of four entries, one present, one refused, one malformed. | `CountsTrue`, `NeverOverwrites` |
| `zip` | `ExportImport` | An export is built, downloaded and reaped beside an import, with a crash. | `NoOrphanZip`, `ReadyIsWhole` |
| `target` | `Backups` | Two targets, two admins, an old and a new scheduler tick. | `FreshConfig`, `DeletedIsGone`, `ClaimedOnce` |
| `secret` | `McpRegistry` | Two requests over two names, two keychain keys, a keychain that goes away. | `AckedIsStored`, `FileOpens`, `PlainParsesBack`, `StaysEncrypted` |
| `migration` | `McpRegistry` | The migration of a plain file beside two requests. | `MigrationLosesNothing` |
| `shutdown` | `Shutdown` | A request, a hijacked socket and two sessions against the drain, with a queue of one. | `CallsOnRecord`, `OnlyStragglersPanic`, `NoneLeftUnkilled`, `StoreOutlivesWorkers` |
| `audit` | `AuditTrail` | Four events on two topics, pages of two. | `PagesComplete`, `PagesDescend`, `TopicOrder` |
| `admin` | `AdminAuth` | Two logins race two changes of the password. | `LastChangeCounts`, `OldTokensGone` |
| `vault` | `VaultGit` | The vault's syncer beside two edits and a colleague's conflicting commit. | `NoMarkersUpstream`, `UnconfirmedTakesNothing`, `NothingLost`, `RemoteOnlyGrows` |
| `notes` | `NotesVault` | Up to four notes: an operation beside the migration, with a step that fails or a restart. | `LinksFollow`, `ProjectFound`, `NoneOverwritten` |
| `sql` | `DBTool` | One request and every class of statement, on two kinds of database. | `ReadsAreReads`, `DeleteAllOrNothing`, `OnlyAuthorizedWrites` |
| `pools` | `DBTool` | Two requests share the pools while the connection is edited. | `NoLeakedPool`, `PoolFollowsRow` |
| `failover` | `RateLimitFailover` | A session on two accounts that both reach a limit, with calls that outlive their run. | `HeldOnlyWhileLimited`, `NeverShortened`, `MovesToFree` |
| `awake` | `KeepAwake` | Two requests hold the machine awake, with a failing helper. | `UseIsSeen`, `NoStrayHelper`, `LingersAcrossGaps` |
| `worktree` | `Worktree` | Up to three creates over worktrees of one repository. | `TreeUnderSession`, `NoWorkLost`, `NoAbandonedTree`, `ResolverKnows` |
| `account` | `AccountPool` | Two account rows of every provider, imported, edited and switched to. | `SwitchKeepsSession`, `DriftNotSwallowed`, `EnabledOnPurpose` |
| `conversation` | `Conversation` | Three turns of a conversation of every provider across account switches. | `OwnConversation`, `FullHistory`, `ConsentKept` |
| `merge` | `GitHosts` | One pull request on each kind of host, credentials edited and requests overlapping. | `TokenKept`, `MergedIsMerged`, `OwnIdentity` |
| `watcher` | `GitHosts` | The watcher polls a pull request whose checks change, across a restart. | `PendingIsAnswered`, `VerdictTrue`, `NoRepeat` |
| `gitpane` | `GitWrite` | The git pane's writes on two branches beside a colleague and a terminal. | `NothingLost`, `OnlyConfigured`, `StatusParsesBack`, `SwitchTakesNothingAlong`, `RemoteLosesOnlySeen` |
| `update` | `SelfUpdate` | Two admins ask for an update while a session runs, releases appear, downloads fail. | `InstalledIsWhole`, `AcceptedIsRead`, `InterruptionConfirmed` |
| `crash` | `SelfUpdate` | Two updates, and a host that goes down at any step. | `InstalledIsWhole`, `AcceptedIsRead` |
| `mcp` | `McpRegistry` | Two spawns on a shared configuration file beside an admin and the user's own entry. | `FoundIsWanted`, `IntegrationApart`, `NeverTorn`, `ListFollowsFile`, `UserEntriesKept` |
| `server` | `McpRegistry` | An admin edits the servers' list twice beside one spawn. | `NamesUnique` |
| `health` | `Integrations` | The health checker probes one integration an admin edits. | `EventsTellStatus`, `UnhealthyEarned` |
| `canvas` | `Canvas` | Two concurrent calls on two canvases of a project. | `NotifiedOnce`, `VersionNamesContent`, `OneStyleBlock`, `StyleInForce`, `PickerKeepsNotation` |
| `memory` | `Memory` | Two memories, two texts that may be merged, a change of embedder. | `NothingForgotten`, `LabelTellsVector`, `ProjectKept`, `RestoreExact` |
| `cleaner` | `Memory` | A memory judged by a tick and an operator's runs. | `DecisionsClosed`, `RestoreRespected` |
| `judges` | `Memory` | One run judges three memories, rings of duplicates among them. | `OneCopyLeft` |
| `capture` | `Capture` | An operator's and an integration's session under one rule, with a restart. | `StoredOnce`, `PolicyKept` |
| `backoff` | `Capture` | Two rules over one session, a summarizer that fails. | `TickBacksOff` |
| `worker` | `MemoryWorkers` | Two providers, two admins, one call under way. | `OneDefault`, `ResolversAgree`, `DisabledNotCalled`, `SwitchedOffIsSilent`, `CallsLeaveOnlyTheirRow` |
| `document` | `ProjectDoc` | A section of a project written by the operator, an agent and the journaler. | `VectorOfText`, `MirrorTrue`, `NoSilentSession`, `HumanTextGated` |
| `page` | `ProjectDoc` | A page of the knowledge base: proposals, approvals and removals. | `RemovalsAreHuman`, `DecidedOnce` |
| `skill` | `Knowledge` | Three sessions' evidence under two titles. | `OncePerEvidence` |
| `curator` | `Knowledge` | A promoted skill aged, switched, curated and deleted. | `VaultFollowsSwitch` |
| `distil` | `Knowledge` | Two skills that agents distilled, aged, switched and curated. | `VaultFollowsSwitch`, `ReviewedFirst` |
| `drafter` | `Knowledge` | A sweep drafts a page an operator edits, locks and rejects. | `RejectedStaysRejected`, `OneCallPerChange`, `UnchangedIsClean`, `HandsOff` |
| `thread` | `Curation` | A curation thread about a section, two turns beside the operator's saves. | `PinHonoured`, `AskedIsHeard` |
| `claim` | `Curation` | A thread about a section an operator may claim meanwhile. | `ClaimRespected` |
| `faults` | `Curation` | Two turns whose reads and writes may fail, beside the operator's saves. | `ShownIsKept` |
| `suggestion` | `Curation` | Suggestions applied twice, threads escalated twice. | `AppliedOnce`, `AppliedInForce`, `OneEscalation` |
| `blueprint` | `ProjectDoc` | A project's section set seeded, saved, proposed and applied by two calls. | `SavedStays`, `FrontPageStays`, `AppliedWhole`, `ProposalSavable` |
| `cost` | `RoundTable` | Three members, one debate. | `BoundedCost` |
| `debate` | `RoundTable` | Two members debate two posts, one of them working. | `NobodyDropped`, `PausedSpeakFirst` |
| `plan` | `RoundTable` | The steps of a plan handed to sessions. | `StepOwnsSession` |

| Theme | Conjuncts |
| --- | --- |
| `NoSilentLoss` | `NoSilentGap`, `NoPanic`, `PublisherOrder`, `PagesComplete`, `PagesDescend`, `TopicOrder` |
| `ChatAnswersOnce` | `RepliedOnce`, `WaitingIsPending`, `ReplyFindsNewest`, `NotifiedOnce`, `OwnersOnly`, `KeyboardOnlyAsks`, `ActsOnWhatIsShown`, `ListReachesLive` |
| `PlatformsDeliver` | `NothingSkipped`, `OncePerInstance`, `CardArrives`, `ChunksStandAlone`, `AckedIsHandled`, `OneVoice`, `DoneClosedOnce`, `SentAsDeclared`, `StoppedOnce`, `NoLeakedAdapter`, `SecretKept` |
| `WorkIsKept` | `TreeUnderSession`, `NoWorkLost`, `NoAbandonedTree`, `ResolverKnows`, `NothingLost`, `OnlyConfigured`, `StatusParsesBack` |
| `HostsAreHeard` | `TokenKept`, `MergedIsMerged`, `PendingIsAnswered`, `VerdictTrue` |
| `AccountsFollow` | `HeldOnlyWhileLimited`, `SwitchKeepsSession`, `OwnConversation`, `FullHistory`, `ConsentKept` |
| `EndsInOrder` | `CallsOnRecord`, `OnlyStragglersPanic`, `NoneLeftUnkilled`, `StoreOutlivesWorkers`, `InstalledIsWhole`, `AcceptedIsRead`, `InterruptionConfirmed`, `UseIsSeen`, `NoStrayHelper` |
| `NoStepBack` (action) | `NeverShortened`, `MovesToFree`, `StoppedIsSilent`, `StopIsFinal`, `LingersAcrossGaps`, `DriftNotSwallowed`, `EnabledOnPurpose`, `OwnIdentity`, `NoRepeat`, `SwitchTakesNothingAlong`, `RemoteLosesOnlySeen` |
| `CredentialsHold` | `LastChangeCounts`, `OldTokensGone`, `EventsTellStatus`, `OneScheduler`, `SurvivesRestart`, `AckedIsStored`, `FileOpens`, `PlainParsesBack`, `MigrationLosesNothing` |
| `ConfigurationFollows` | `FoundIsWanted`, `IntegrationApart`, `NeverTorn`, `ListFollowsFile`, `NamesUnique`, `ReadsAreReads`, `DeleteAllOrNothing`, `NoLeakedPool`, `PoolFollowsRow`, `OneDefault`, `ResolversAgree`, `DisabledNotCalled`, `SwitchedOffIsSilent`, `CallsLeaveOnlyTheirRow` |
| `BackupsHold` | `FingerprintTrue`, `EveryRowSettled`, `KeptIsFetchable`, `LastGoodKept`, `SharesNoBadBlob`, `WholeOrError`, `StoredOpens`, `NothingPartialInPlace`, `FreshConfig`, `DeletedIsGone`, `ClaimedOnce` |
| `RestoresHold` | `SavedBeforeTouched`, `OriginalKept`, `NoHoleLeft`, `AppliedIsTrue`, `CountsTrue`, `NoOrphanZip`, `ReadyIsWhole` |
| `MemoryIsTrue` | `NothingForgotten`, `LabelTellsVector`, `ProjectKept`, `DecisionsClosed`, `OneCopyLeft`, `StoredOnce` |
| `DocumentsAreTrue` | `VectorOfText`, `MirrorTrue`, `NoSilentSession`, `SavedStays`, `FrontPageStays`, `AppliedWhole`, `ProposalSavable`, `LinksFollow`, `ProjectFound`, `NoMarkersUpstream`, `NotifiedOnce`, `VersionNamesContent`, `OneStyleBlock`, `StyleInForce` |
| `AgentsAskFirst` | `RemovalsAreHuman`, `OncePerEvidence`, `VaultFollowsSwitch`, `ReviewedFirst`, `RejectedStaysRejected`, `OneCallPerChange`, `UnchangedIsClean`, `PinHonoured`, `AskedIsHeard`, `AppliedOnce`, `AppliedInForce`, `OneEscalation`, `BoundedCost`, `NobodyDropped`, `StepOwnsSession` |
| `HumanDecides` (action) | `RestoreExact`, `RestoreRespected`, `HumanTextGated`, `DecidedOnce`, `HandsOff`, `ClaimRespected`, `ShownIsKept`, `PausedSpeakFirst`, `PolicyKept`, `TickBacksOff`, `UnhealthyEarned`, `NoneOverwritten`, `UnconfirmedTakesNothing`, `NothingLost`, `RemoteOnlyGrows`, `PickerKeepsNotation` |
| `NothingOverwritten` (action) | `StaysEncrypted`, `UserEntriesKept`, `OnlyAuthorizedWrites`, `ReplacedOnPurpose`, `NeverOverwrites` |

`live` checks what must eventually happen, on the instances of `MCLive`:

| Theme | Module | Conjunct | Fairness of |
| --- | --- | --- | --- |
| `QueuesEnd` | `SessionStream` | `QueuedIsSent` | weak: `Fanout, ExitStep, HandlerStep("a"), HandlerStep("b")` |
| `WatchersNotice` | `SessionActivity` | `SilenceNoticed` | weak: `IdleWatcher, TurnWatcher, CloseEndedCh, ActorStep("pump"), ActorStep("chat")`; strong: `Tick` |
| `WatchersNotice` | `SessionActivity` | `TurnSettles` | weak: `IdleWatcher, TurnWatcher, CloseEndedCh, ActorStep("pump"), ActorStep("chat")`; strong: `Tick` |
| `QueuesEnd` | `EventBus` | `ReadersEnd` | weak: `PublishTo("p"), PublishTo("q"), Receive("a"), Receive("b")` |
| `QueuesEnd` | `ChannelHub` | `TypingStops` | weak: `OutboundStep, HandlerStep("m1"), TimerStep("m1"), HandlerStep("m2"), TimerStep("m2")` |
| `QueuesEnd` | `ChatAdapters` | `StopEnds` | weak: `Loop, StopCloses, SocketStopReturns` |
| `QueuesEnd` | `ChatAdapters` | `DeadLinkLeft` | weak: `Loop, StopCloses, SocketStopReturns` |
| `QueuesEnd` | `ChatAdapters` | `BridgeStops` | weak: `ReadPumpEnds(1), ReadPumpEnds(2), BridgeStopReturns(1), BridgeStopReturns(2)` |
| `WatchersNotice` | `KeepAwake` | `HeldWhileUsed` | weak: `Keeper, Supervisor` |
| `WatchersNotice` | `KeepAwake` | `SleepsWhenQuiet` | weak: `Keeper, Supervisor` |
| `QueuesEnd` | `Shutdown` | `RunReturns` | weak: `RunStep, Tick, Kill, Consume` |
| `WatchersNotice` | `AccountPool` | `LoginSeen` | weak: `Import, WatchBoot, WatchOnce, WatchEvent("x")`; strong: `WatchScan` |
| `WatchersNotice` | `Integrations` | `BackInService` | weak: `Tick(1), \E a \in Answers : Probe(a)`; strong: `Recorded` |
| `WatchersNotice` | `SelfUpdate` | `RequestCleared` | weak: `UnitStarts, Step("unit")` |
| `QueuesEnd` | `RoundTable` | `DebateEnds` | weak: `Debate("d1")` |
| `PassesArrive` | `Memory` | `RecallConverges` | weak: `Pass` |
| `QueuesEnd` | `MemoryWorkers` | `CallEnds` | weak: `Step("c"), ChildExits("c")` |
| `PassesArrive` | `Capture` | `FailureRetried` | weak: `Pass("tick") \/ SummarizeFails("tick"), Pass("now") \/ SummarizeFails("now"), PauseOver(<<"all", "op">>), PauseOver(<<"own", "op">>)`; strong: `Begin("tick", "op")` |
| `PassesArrive` | `ProjectDoc` | `VectorArrives` | weak: `DocTail("op"), DirectPut("op"), DocTail("agent"), DirectPut("agent"), DocTail("drift"), DirectPut("drift"), DocTail("apr"), DirectPut("apr"), DocTail("fill"), DirectPut("fill"), DocTail("log"), DirectPut("log"), ApproveCommit, BackfillRead, BackfillWrite, Journal` |
| `PassesArrive` | `Knowledge` | `RefreshArrives` | weak: `Draft("sweep")` |
| `QueuesEnd` | `Curation` | `TurnEnds` | weak: `TurnStep(1)` |
| `PassesArrive` | `ExportImport` | `ExpiredGoes` | weak: `BuildExportZip, MarkExportReady, Expires, Reap, ImportRow("i") \/ ImportEnds("i")` |
| `PassesArrive` | `VaultGit` | `EditArrives` | weak: `TickBegins, SyncStep, Elapse("pull"), Elapse("commit")` |

### 3.3 Bounds

A client and an auto-resume slot are two callers on one session, one of which
may make any call: every race of a `Start` with another call. Two runs let a run
be replaced while its predecessor is still cleaning up; a third would need two
predecessors that have both not cleaned up. One SQL failure is every single
failing write at every place. Chunks in the ring reach half again the capacity
and their total exceeds three times the capacity, so every branch of `Write`
meets every position. The clock of `activity` runs past the last possible
activity by more than both thresholds, so a watcher can be late by a whole
window. `integrations` has two keys, so one can replace the other while a
verification of it is under way; `Probed` keeps the second registration out of
the health checker, whose state is per integration. In `MCGateway` every
instance has two of whatever races (two requests, two runs, two writers) and as
many operations, failures and crashes as its shortest counterexamples need: the
bounds were raised until the mutant of each of the 164 properties of the themes is
found with only one instance of its module in `Foci`; the second instance of the
failover, whose two sessions share the accounts, repeats the properties of the
first for their interleavings.

The instances have between 640 distinct states (`ring`) and 4.3 million
(`integrations`); `manager_restart`, `activity` and the three runs of `MCGateway`
have 1.2 to 2.2 million each.
Where a property is also proved for all constants, the instance is small.

The manager's runs check for deadlock: some step is always possible. The others
stop when their bounds are used up (a run is over, no operation is left), so
their configurations turn the deadlock check off.

### 3.4 Fairness

A goroutine that can run is run eventually (Go's scheduler), a timer that is
armed fires, tickers tick, SIGKILL is effective, the service manager restarts
the gateway. Strong fairness is assumed only of what others hold up for a moment
again and again: time in `SessionActivity` (actors hold `Tick` up for less than
a tick each), the watcher's scan and the recording of a probe (attempts that may
fail do not fail for ever, and failures are bounded). Nothing is assumed of
clients, of a request being cancelled, of a CLI that was only asked to exit, or
of output arriving.

### 3.5 Mutants

Every property of a passing run has a mutant of the modelled code (a dropped
guard, a missing reset, a forgotten write, an off-by-one, a swapped order) under
which TLC finds it violated. Mutants stand next to the definition they change,
marked "Mutant of", and are used by nothing. There is one for every conjunct of
a theme; `PROJECT.json` lists one per theme.

## 4. Disagreements between code and documentation

One is a run that must fail, with its trace; `findings` of `PROJECT.json` quotes
the sentence it contradicts. `finding_switch_start`: an account switch and a
`Start` both spawn, the switch holds no reservation, and two processes run for
one session.

The models contain more properties that the code does not have. They are stated
in their modules ("strict" ones that a comment, a document or a caller takes for
granted) and are not in a passing run; naming one as an invariant or property
reproduces it: of a run of the component's module with the constants given, or of
`MCGateway` with an instance of the module (section 3.2) alone in `Foci`. The
weaker property the code does have is in the runs.

| Property | What TLC finds | Said in |
| --- | --- | --- |
| `SessionManager!AtMostOneProcess`, `Ops = {"create", "start"}`, `EarlyIds = TRUE` | `Start` of a session `Create` has inserted and not yet installed spawns a second process | `docs/design/session-state-machine.md:154-156` |
| `SessionManager!StoppedOnlyIfAsked`, `Ops = {"start", "stop"}` | a stop request marked after the exit was classified is charged to the next run | `manager.go:1457` |
| `SessionManager!NoGhost`, `Ops = {"start", "remove"}`, 2 clients | `Remove` between a `Start`'s read and its `Reactivate` leaves a process without a row | `manager.go:1699-1700` |
| `SessionManager!TempDirKept`, `Ops = {"start", "stop"}` | late cleanup removes the scratch directory of the next run | `manager.go:362` |
| `SessionManager!RowTracksProcess`, `Ops = {"start", "stop"}`, 2 clients | `Stop` of a session being installed marks the row stopped while the process runs on | `manager.go:1431` |
| `SessionManager!RestartInterrupts`, `Ops = {"start", "sigterm"}` | a CLI that exits during the HTTP drain is recorded as ended and not resumed | `docs/design/session-state-machine.md:39` |
| `SessionStream!NoOrphanSub` | a client registers after `closeSubs` and waits on a dead run | `manager.go:2160` |
| `SessionStream!NoDuplicate`, `EveryChunk` | a chunk arrives in the replay and again from the channel; a full channel loses one | `docs/design/session-state-machine.md:164`, `manager.go:2136` |
| `SessionActivity!ActiveIsShown` | a busy session is shown idle, so keep-awake may let the host sleep | `pump.go:90` |
| `SessionActivity!TurnNeedsOutput` | keystrokes alone complete a turn | `manager.go:2086` |
| `RingBuffer!LossReported`, `KeepsCursor = TRUE` | a cursor kept across a restart skips the new run's first bytes without a word | `ringbuf.go:10-12` |
| `NotesVault!AppendsKept` | two appends read the same text, one paragraph is lost | `notes/vault.go:52-54` |
| `Shutdown!ShutdownIsAudited` | the audit sink ends with the signal's context, before `session.ended` is published | `app/app.go`, order of `Run` |
| `McpRegistry!UserNeverManaged` | a user's entry of the same name enters the managed list and is later deleted | `catalog/mcp.go:281` |
| `McpRegistry!EveryValueParsesBack` | quoting is not undone, a value with a quote reads back differently | `mcp/` secrets file |
| `DBTool!NoStalePool` | a request that read the row before an edit caches a pool on the old target | `dbtool/dbtool.go:67-69` |
| `Integrations!Consecutive` | a degraded answer does not reset the failure counter | `integration/health.go` |
| `McpRegistry!NeverHalfWritten` | the temporary file is opened with truncation and never synced; a crash leaves a short backup or file, two writers mix | `mcp/secrets.go:295` |
| `McpRegistry!NoUpdateLost` | two requests load, change and write back the whole file, one update is lost | `mcp/handler.go:359` |
| `Backups!NoneStuck` | disarm, re-arm and shutdown cancel the context the scheduler would mark its rows as failed with; pending ones stay so for good, running ones until a bootstrap more than an hour later | `backup/service.go`, `prepareGroup` |
| `Backups!SetUpSurvivesRestart` | with `OPENDRAY_BACKUP_KEY_FILE` a setup writes the default file and the next boot reads the other | `backup/keyfile.go:93-107` |
| `Backups!NoneDangles` | a fetchable row's blob is deleted through another row that shares it | `backup/retention.go:30-34` |
| `Backups!NoNilService` | a request passes `requireArmed` and then finds no service | `backup/handler.go:37-39` |
| `ProjectDoc!NeverClobbered` | drift decides on the author it read before a model call of minutes | `projectdoc/` drift |
| `ProjectDoc!ApprovedIsSaved` | a proposed section without a title passes `Propose` and the approval, and `PutSection` then refuses it | `cortex/blueprint_proposer.go:152` |
| `ProjectDoc!SeedComplete`, `DirectStaysDirect` | the default sections are seeded one row at a time beside other calls; an accepted proposal resets the policy of the section agents write directly | `ListSections`, `applyBlueprint` |
| `MemoryWorkers!KeySent` | a row that is read for a call while the vault is locked is used without its key | `memory/summarizer`, comments of the registry |
| `Canvas!ToldIsFocused` | two focus changes deliver their notes in the other order | `canvas/`, `formatFocusNote` |
| `Curation!QuestionIsSeen` (`suggestion`), `NeverSilent` (`faults`) | the prompt takes the oldest 40 messages; a failed append of the answer is only logged | `cortex/conversation_worker.go` |
| `Capture!NoneSkipped`, `HistoryLimit = 2`, `MaxPrompts = 3` | the cursor is an index into a capped list, prompts past the cap are never summarised | `session/claude_jsonl.go`, `memory/capture/engine.go` |
| `Conversation!NoTurnLost` | the copy of an earlier switch replaces the fuller conversation | `grokacct/`, `agyacct/` |
| `GitHosts!OnlyHeadRemoved` | for a pull request from a fork the base repository's branch of that name is deleted | `githost/githost.go:1071` |
| `GitHosts!NoOldNews` | a pull request first seen after the seeding poll announces an old verdict | `githost/` watcher |
| `GitWrite!PlainPushAdds` | a branch named `+b` or `:b` passes `validBranchName`; the push that was not asked to force forces or deletes | `git/write.go:458` |
| `Conversation!LiveIsFound` | after enough newer transcripts, or when its id left the tail, a run resumes another conversation or starts afresh | `session/claude_resume.go:25` |
| `GitWrite!NoSurprisingClick`, `RenamesParseBack` | a delete does not look at the work tree; the old path of a rename is read as a file | `git/write.go`, `git/handler.go` |
| `VaultGit!NeverMarkersUpstream` | an autostash that does not apply leaves markers in the files, git reports success, the loop commits and pushes them | `vaultgit/syncer.go:202` |
| `VaultGit!NothingLostUncounted` | edits between the count and the reset are lost unconfirmed | `vaultgit/handler.go:334` |
| `SelfUpdate!LatestIsRunning`, `OnlyNewer` | after a failed restart "already on the latest"; "newer" means different | `selfupdate/`, `cmd/opendray/update.go` |
| `SelfUpdate!AlwaysWhole`, `NeverHalfWritten` | two updaters share `.new`; a host that goes down before the data is on the disk keeps a short binary or request under its final name | `cmd/opendray/update.go:382`, `selfupdate/selfupdate.go:128` |
| `NotesVault!BareLinksFollow` | the flatten gives every personal note one base name, bare links go to the wrong one | `notes/flatten.go:20` |
| `RoundTable!SeesTheThread`, `StepContinues` | only the oldest 200 messages are loaded; a repeated step launches again | `roundtable/` |
| `Knowledge!NeverOverwritten` | drafts replace a page the operator edited in the meantime | `app/app.go:275` |
| `Knowledge!DisabledLeavesVault` | the row is switched off and the removal of the file fails, or another writer puts it back | `knowledge/service.go:276` |
| `Knowledge!OnlyUnusedRetired` | the curator works through a list it read before, and retires what was used since | `knowledge/service.go:393` |
| `Knowledge!ReenabledStays`, `DeletedLeavesNoFile` | the curator disables what was enabled again; a deleted skill's file is written back or shared | `knowledge/service.go` |
| `AdminAuth!ChangeTakesEffect`, `Override = TRUE` | with `OPENDRAY_ADMIN_KEY_FILE` a change reports success and does not take effect | `auth/keyfile.go` |
| `Canvas!StylesFollow` | a token change restyles a canvas only at its next render | `canvas/design.go`, `PromptBlock` |

## 5. Proofs

Every theorem holds for all constants that satisfy the named assumptions of its
module: any number of sessions, runs, callers, keys, any capacity and threshold.

| Theorem | Statement | From |
| --- | --- | --- |
| `SessionManager_proofs!TypeCorrect` | `Spec => []TypeOK` | `ConstantsAssumption`, `BoundsAssumption` |
| `SessionManager_proofs!OneProcess` | with `ReservedSpawnsOnly`, `Spec => []AtMostOneProcess` | the same |
| `SessionManager_proofs!ManagerImplementsLifecycle` | `Spec => RowFollowsLifecycle` | the same |
| `SessionManager_proofs!NoPhantoms` | `Spec => []NoPhantomRunning` | the same |
| `SessionManager_proofs!AskedStopsAreStopped` | with `ReservedSpawnsOnly`, `Spec => []UserStopWins` | the same |
| `SessionManager_proofs!StopsAndRowsAgree` | `Spec /\ []OneCallPerSession => []RowTracksProcess` | the same |
| `SessionManager_proofs!RemovedMeansGone` | `Spec /\ []OneCallPerSession => []NoGhost` | the same |
| `SessionManager_proofs!SwitchesAndRowsAgree` | `Spec /\ []OneCallPerSession => []AccountAgrees` | the same |
| `RingBuffer!RingReplaysExactly` | `Spec => []ReplayExact` | none (`NewRing` replaces a bad size) |
| `RingBuffer!PollingLosesNothingSilently` | with `~KeepsCursor`, `Spec => []LossReported` | none |
| `RingBuffer!RingKeepsTheTail` | `Spec => KeepsTail` | none |
| `SessionActivity!TypesKept` | `Spec => []TypeOK` | `TimesAssumption` |
| `SessionActivity!IdleAnnouncedOnce` | `Spec => []IdleOncePerWindow` | `TimesAssumption` |
| `SessionActivity!TurnAnnouncedOnce` | `Spec => []TurnOncePerArming` | `TimesAssumption` |
| `SessionActivity!EndedForGood` | `Spec => EndedStays` | `TimesAssumption` |
| `Integrations_proofs!PrefixHasOneTarget` | `Spec => []OneTarget` | none |
| `Integrations_proofs!AnswersWereTrue` | `Spec => []VerifiedWasEnabled` | none |
| `Integrations_proofs!ReplacedKeysLeave` | `Spec => []OldKeyForgotten` | none |
| `SessionStream!AttachLeavesNoGap` | `Spec => []NoSilentGap` | `RingSize \in Nat` |
| `EventBus!BusNeverPanics` | `Spec => []NoPanic` | none |
| `EventBus!EventsStayInOrder` | `Spec => []PublisherOrder` | none |
| `Process_proofs!SessionsHaveTrees` | `Wt!Spec => []Wt!TreeUnderSession` | none |
| `Process_proofs!WorkIsNotDeleted` | `Wt!Spec => []Wt!NoWorkLost` | none |
| `Process_proofs!TreesAreReclaimed` | `Wt!Spec => []Wt!NoAbandonedTree` | none |
| `Process_proofs!RootsStayRegistered` | `Wt!Spec => []Wt!ResolverKnows` | none |
| `Process_proofs!HeldNoLonger` | `Fl!Spec => []Fl!HeldOnlyWhileLimited` | `FlConstants` |
| `Process_proofs!MarksOnlyGrow` | `Fl!Spec => Fl!NeverShortened` | `FlConstants` |
| `Process_proofs!FailoverFindsFree` | `Fl!Spec => Fl!MovesToFree` | `FlConstants` |
| `Process_proofs!UseIsAlwaysSeen` | `Ka!Spec => []Ka!UseIsSeen` | `KaConstants` |
| `Process_proofs!LingersFully` | `Ka!Spec => Ka!LingersAcrossGaps` | `KaConstants` |
| `Process_proofs!HelperDoesNotStray` | `Ka!Spec => []Ka!NoStrayHelper` | `KaConstants` |
| `Process_proofs!UpdateIsAtomic` | `Su!Spec => []Su!InstalledIsWhole` | `SuConstants` |
| `Process_proofs!RequestsAreMet` | `Su!Spec => []` of `AcceptedIsRead`, `InterruptionConfirmed` | `SuConstants` |
| `Process_proofs!ShutdownInOrder` | `Sd!Spec => []` of `CallsOnRecord`, `OnlyStragglersPanic`, `NoneLeftUnkilled`, `StoreOutlivesWorkers` | `Budget`, `KillAfter \in Nat`, `WaitOrder` a sequence of workers |
| `Records_proofs!DefaultIsAgreed` | `Mw!Spec => []` of `OneDefault`, `ResolversAgree` | `MwConstants` |
| `Records_proofs!OffIsOff` | `Mw!Spec => []` of `DisabledNotCalled`, `SwitchedOffIsSilent` | `MwConstants` |
| `Records_proofs!CallsLeaveARow` | `Mw!Spec => []Mw!CallsLeaveOnlyTheirRow` | `MwConstants` |
| `Records_proofs!SavedFirst` | `Rs!Spec => []Rs!SavedBeforeTouched` | `RsConstants` |
| `Records_proofs!FilesSurviveRestores` | `Rs!Spec => []` of `OriginalKept`, `NoHoleLeft` | `RsConstants` |
| `Records_proofs!AppliedTellsTheTruth` | `Rs!Spec => []Rs!AppliedIsTrue` | `RsConstants` |
| `Records_proofs!TopicsStayInOrder` | `Au!Spec => []Au!TopicOrder` | `AuConstants` |
| `Records_proofs!PagingIsComplete` | `Au!Spec => []` of `PagesDescend`, `PagesComplete` | `AuConstants` |
| `Records_proofs!LastPasswordCounts` | `Adm!Spec => []Adm!LastChangeCounts` | `None \notin Changers` |
| `Records_proofs!OldTokensLeave` | `Adm!Spec => []Adm!OldTokensGone` | the same |

`Process_proofs` (what the gateway does with processes, trees and time) and
`Records_proofs` (what it writes down) each hold the theorems of several
components. They instantiate a component (`Wt` is `Worktree`, `Fl`
`RateLimitFailover`, `Ka` `KeepAwake`, `Su` `SelfUpdate`, `Sd` `Shutdown`; `Mw`
`MemoryWorkers`, `Rs` `Restore`, `Au` `AuditTrail`, `Adm` `AdminAuth`) with
constants and variables of their own, one section each, so nothing about one
component is assumed for another. Each section states the inductive invariant,
proves for each action that it keeps it, and derives the theorems. The hypotheses
are on the parameters: `FlConstants` (a day has a positive length, no limit lasts
longer, accounts are numbered from 1), `KaConstants` (the recent window is at
least two polls, the linger a number), `SuConstants` (the bounds are numbers),
`MwConstants` (finitely many providers, with numeric ids), `RsConstants` (the files
and the vault's files are listed once each, and files, vault and databases have
different names), `AuConstants` (a page has at least one row).

*Type correctness of the manager* is inductive as it stands, with two facts
beyond the types: a caller inside a call has a session id, and an exit is
classified before it is recorded. There is one lemma per group of actions and
one per building block.

*At most one process.* `AtMostOneProcess` alone is not inductive: it says nothing
of a caller that is about to spawn. `OneProcessInv` adds what the code relies on:
where a caller can be in each operation and which run it owns (`CallerShape`);
an id is unknown to others until its row is inserted (`FreshIds`); between
`tryReserveStart` and its release one caller owns the id (`Exclusive`); a run with
a process is either its launcher's own or in the live map (`RunShape`, `LiveMap`);
and while an id is being spawned the live map holds no run of it that is not
terminal (`Vacant`, which `MayReserve` establishes). A process is then owned by
the one spawner of its id or is the map's entry, and the two exclude each other.
The hypothesis `ReservedSpawnsOnly` (no account switch, ids known only after
`Create` returned) is necessary: without either half the property fails
(`finding_switch_start`, and the first line of the table of section 4).

*The refinement.* Initial rows are initial rows of `SessionLifecycle`, and every
step moves each row along the matrix or leaves it alone. Types are nearly enough:
`MarkTerminal` and `Reactivate` look at the row they change, so whatever a late
goroutine does to it is legal. Only an insert does not look, so the invariant
adds that the row of a session being created does not exist until its own
`Create` inserts it, and that no two creates have the same id (`CreateOwnsRow`).
Unlike `OneProcess` this needs no hypothesis on the operations: account switches
and early ids may spawn twice, but they cannot corrupt the table's history.

*No phantom rows.* That a row says running while nothing backs it would show as a
session that can be neither used nor restarted. `NoPhantomRunning` is not
inductive: between the write of the row and the entry into the live map the run
is backed by its launcher only, and a launcher before its write may still fail
and forget its run. `PhantomInv` therefore says that a caller owns the run it
launched, alone, until it is installed (`Launches`), and that a running row is
backed by a run whose exit is not recorded or whose launcher is past the write
(`RowsBacked`). The steps that matter are the failing write (which forgets a run
that backs nothing), `MarkRow` (which takes the row with it, unless the write
fails and uses up a fault) and the boot, which reconciles every row. No
hypothesis on the operations is needed: two processes of one session, as an
account switch may produce, leave no phantom.

*A user stop wins.* A stop is a mark on the session id, consumed by the next exit
of any run of that id. `StopHeard` follows the request through the exit detector:
in the mark while the run waits, in its local flag at the classification, in the
state it recorded afterwards. `StopNames` says that a waiting `Stop` names a run
of its own session, until that run is forgotten. Inductive they are only with
`OneProcessInv`: the mark of one run would be consumed by another of the same
session, if there could be a second one tracked.

*Rows, processes and accounts.* Three properties of the manager hold as long as
no session is called twice at the same time: `OneCallPerSession` says so, and
`manager_sequential`, with its one caller, is an instance of it. The hypothesis is
about the callers and not about the gateway, whose own goroutines interleave
freely: exits, shutdowns, crashes and failing writes come between any two steps
of a call, and calls on different sessions overlap. It is necessary: two calls on
one session break each of the three. `TrackInv` extends `PhantomInv`. A tracked
run is the one in the live map and its row says running while it waits for its
exit (`RunsTracked`); a call past its decision has an empty place in the map, or
one whose run is past its exit, until its own spawn fills it, a waiting `Stop`
names the run that is there or none, and a spawn finds its row, which is why
`Reactivate` of a missing row, that the code would not notice, is not reached
(`Placed`). `AcctInv` adds, while no write failed, what each call knows of the
account (`Accounted`) and that every entry of the map runs on its row's account
except between `Install` and `Update*Account` of the switch that put it there
(`MapAccounts`). The delicate steps are `SwitchGet`, which takes the account to
fall back on from the run and not from the row, and the rollback.

*Exact replays.* `RingInv` says which offset each cell holds: until the ring is
full the cells below `pos` hold `0 .. pos-1`; afterwards the oldest offset is in
cell `pos`. The three branches of `Write` keep it, and a snapshot cut at the
cursor is then the reference definition. With the same invariant the cells, read
from `pos`, are the tail of `OutputTail`, and each write is a step of it.

*Polling.* `PollInv` adds that the client's cursor is never ahead of `written` and
that it knows of every byte before it. The step that matters is the poll: by
`RingInv` the replay starts at the cursor or at the oldest byte kept, and the gap
between them is what the answer reports. The hypothesis is necessary, see
section 4.

*Idle and turns.* `isIdle` and the state are guarded by different locks, and a
watcher publishes after it has let go of both. What makes one event per window
true is not the state but the flag a watcher takes: whoever finds `isIdle` false
sets it, and only activity clears it. The invariants relate the counters of
windows and armings to the flag and to the watchers that have decided and not
yet published; `ClosedAfterEnd` adds that the ended channel is closed only after
the state is terminal. `EndedStays` is an action property and follows from types
and the guards under `sessMu`.

*Integrations.* `IInv` has four parts: the UNIQUE columns leave one row per
prefix (`OneRow`); a row holds a key issued to it, and a cached key was issued to
the integration it is cached for (`KeysOwned`, `CacheOwned`); a call under way has
noted everything that is enabled (`CallsNote`); and what a scan matched was
enabled during the call and has its key still, unless the replacement crossed the
call (`MatchHolds`). The last is the delicate one: a scan compares with the rows
it loaded, and its caching is another step.

*Attaching.* `Stream` subscribes before it takes the replay, so that a chunk may
be in both but in none it cannot be. `StreamInv` says that a channel holds only
what was fanned out since its registration, but for the chunk in the pump's hand
(`OnlyNew`), and that between registration and replay it holds all of it, if
nothing was dropped (`Waiting`); the replay covers what is before.

*The bus.* `Publish` walks the list of subscribers under the read lock, in several
steps; who closes a channel holds the write lock. That a publisher finds no
closed channel is that the list has only open ones (`ListedOpen`) and stays the
same during a walk (`Visiting`); that no subscriber sees the events of one
publisher in the wrong order, that the event being published is only with those
the walk has passed (`NotAhead`).

*Shutdown.* `ShutInv` follows the order of `App.Run`: the queue of the call log is
closed once and stays empty once it is drained (`Logging`), a drain in time leaves
no request that could meet the closed channel (`Drained`, `Panics`), and the clock
does not pass a kill that is due, so who survived `sessions` with time to spare
was killed (`Killing`).

*Credentials.* Writing, loading, swapping and dropping the tokens are steps of
their own, and a restart may come between them. `Tracked` says at each of them
what the file and the snapshot are, `Current` that tokens of an old password live
only between the swap and the drop, and `Locked` that changes do not overlap.

*Worktrees.* `Guarded` says that the count of pending creates is the number of
calls that hold the tree and that a reservation excludes them. With it a child's
create and the owner's removal are apart: a child that comes after the
reservation is refused, one that came before is counted, and one that has stored
its row is seen by the list (`TreesThere`). `WorkSafe` needs that a branch found
merged, and a tree found clean, change only by an edit that the history marks as
late; `TreesAccounted` that a tree without its owner is in the hands of a call
until one leaves it for a reason; `RootRegistered` that the entry is dropped only
when no child can come to a row over a tree.

*Failover.* A mark is right if it ends no later than the provider's limit
(`MarksTrue`); it is made from a banner in the window of a session (`WindowsTrue`),
through a call that holds the parsed time for a while (`CallsTrue`), and a switch
meanwhile may give the session another account. The banner tells an hour of the
day only; `LimitsNear` keeps every limit within a day of now, where the next
occurrence of the hour is the right one, which two lemmas about the remainder
prove for every length of the day. `CallTrue` also follows a failover from the
list it took to the account it switches to, for `MovesToFree`.

*Keep-awake.* A request leaves in two steps, the time stamp and the count.
`UseCounted` says that the count is the number of requests between entry and
exit, and that the stamp is not older than the last use; `LingerCounted` relates
the idle time the keeper counts to the time since, which gives the action
property; `HelperHeld` says in which phases of the hold a supervisor may be left.
The recent window of at least two polls (three in the code: 45 s and 15 s) is
what lets a poll see a request that came and went between two polls.

*Self-update.* Files are inodes and a rename moves a name; data and names reach
the disk some time later, each on its own, since the code syncs neither.
`CopiesAlone` says that one updater at a time copies, to the inode that `.new`
names, which is never the installed one, and that what it renames is whole, as is
what the disk has under the installed name; `Checked` that it was verified;
`Sound` what is left of this when two updaters filled one file. `OneRequest`
relates the request file, the daemon's check and the updater's read, `Confirmed`
carries the live sessions of a request to the restart it leads to. The code does
not promise more: `InstalledIsWhole` excuses an installation without a checksum
(`suBlind`), a host that went down before the new binary was on the disk
(`suEarly`), and, while one of them still copies or when their contents were
mixed, two updaters at a time (`suShared`). `AlwaysWhole`, without the excuses
but the first, fails (section 4).

*Memory workers.* Edits read a row and commit it in steps of their own, and the
partial unique index decides between two defaults; that the summarizer
and the registry find the same provider follows from there being one default, and
from the order they share when it is off or missing. `SeenEnabled` and `Allowed` carry from
the choice to the request that the row was enabled, and the task on, at some
moment of the call; `LeftBehind` accounts for scratch directory and metrics row.

*Restore.* The order is save, move aside, install, unpack, load. `Saved` says that
a call past the snapshot was saved or forced; `Copies` and `Moved` where the
original of a file is, by the step the call is at; `Told` relates the report to
the sections, except for the one at which the call is or broke off; `Holes`
excuses a missing file only by a crash, by a rollback that failed or because it
was missing before.

*The audit trail.* There is one consumer per topic, and it takes its id before it
commits: `InTurn` keeps a topic's buffered, open and committed rows in this order.
`Reading` says that everything with a greater id than the cursor that was there at
first has been shown. The next page is the list of the greatest matching ids below
the cursor; that there is such a list for every finite set (`ListsExist`) is
proved by a least counterexample, since induction over data is out of reach.

Only model-checked:

* liveness under fairness (`CallsReturn`, `ResumeAttempted`, the themes of
  `live`), and everything with `ENABLED`: out of the prover's reach;
* the themes of `sessions`, `data` and `operations` as such: they are
  conjunctions over the instances composed in `MCGateway`, whose constants are fixed. What is proved is
  proved of the component, for all constants: all conjuncts of `NoSilentLoss` and
  `EndsInOrder`; the worktree's of `WorkIsKept`; the failover's of
  `AccountsFollow` and `NoStepBack`, and the keep-awake's of the latter; the
  memory workers' of `ConfigurationFollows`; the restore's of `RestoresHold`; the
  authentication's of `CredentialsHold`;
* of the other components everything (channels, git pane and hosts, account
  pools, conversations, configuration, backups, exports, memory and cleaner,
  capture, documents, knowledge, curation, round table, notes, vault git, canvas,
  database tool): their invariants would be proved the same way;
* what recursive definitions compute for every input (the quoting of the secrets
  file, the parsing of `git status`, the chunks of a card): induction over data.

## 6. Not modelled

* The contents of output, transcripts, prompts, notifications, model requests;
  the virtual terminal; how provider arguments are built.
* PIDs and their reuse; a signal is delivered to the process it is meant for.
* What the kernel still buffers when `waitExit` closes the PTY.
* The wait group of `Manager.Shutdown`: the model lets the gateway go as soon as
  `Shutdown` may return, with whatever is still in flight.
* Feishu, DingTalk, WeCom and WeChat: request and response clients with the same
  interface to the hub as the adapters that are modelled.
* What runs outside the gateway (git, forges, `pg_dump`, CLIs, keychains,
  browsers) except by what it does to the state the gateway reads.
* Two components at once, beyond what section 2.4 says.
* Everything listed as `not_modelled` in `PROJECT.json`, with its reason.

## 7. Plan

1. More of the parts of the themes for all constants: the polling adapters, the
   store of secrets, the vault's syncer.
2. The remaining adapters, if their reconnects ever come to differ.
3. Instances in which two components meet, first the failover's switch with the
   exit of the run it switches, and the hub's replies with `SessionActivity`.
