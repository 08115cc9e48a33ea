----------------------------- MODULE AccountPool ----------------------------
(***************************************************************************)
(* The pools of CLI accounts (cliacct, codexacct, grokacct, agyacct,       *)
(* opencodeacct): rows name a home directory (for opencode, a sealed       *)
(* bundle) with the login.  Operators create, edit and delete rows, homes  *)
(* found on the host are imported, for Claude a watcher looks for new      *)
(* ones, and sessions switch between accounts (the switch handlers of      *)
(* session/handler.go).  apKind, the pool, is chosen in Init.              *)
(***************************************************************************)
EXTENDS Naturals, FiniteSets

CONSTANTS
    Kinds,       \* pools: "claude", "codex", "grok", "antigravity", "opencode"
    Ids,         \* ids of rows
    Names,       \* names, and the homes under the accounts dir, but "default"
    MaxOps,      \* bound: calls of operators
    MaxHost,     \* bound: logins, logouts and directories made on the host
    MaxBreaks    \* bound: errors of the watcher

Homes == Names \union {"default"}
None == 0

VARIABLES
    apKind,
    apRow,       \* apRow[i]: the row, name "" when there is none
    apHome,      \* apHome[h]: "none", "dir" or "in" (logged in)
    apMail,      \* apMail[h]: the email a login was made with
    apBase,      \* apBase[i]: the identity store's first-seen email, or None
    apArmed,     \* the cipher of the opencode pool is armed
    apCall,      \* apCall[c]: the call "create", "update" or "list" in flight
    apImport,    \* the import in flight (importMu): whether, and the homes it found
    apWatch,     \* the watcher: its state, watched homes, mkdir events, the debounce timer
    apSess,      \* the session: account, alive, and the switch under way
    apOps, apHost, apBreaks,
    apUnseen,    \* history: homes whose login no watch could see, or whose row was taken away
    apStir       \* history: the pool changed while a switch was under way

vars == <<apKind, apRow, apHome, apMail, apBase, apArmed, apCall, apImport, apWatch, apSess, apOps, apHost, apBreaks, apUnseen, apStir>>

NoRow == [name |-> "", home |-> "", on |-> FALSE, seal |-> FALSE]
Quiet == [pc |-> "idle", id |-> None, name |-> "", on |-> FALSE, mail |-> None]

Init ==
    /\ apKind \in Kinds /\ apRow = [i \in Ids |-> NoRow] /\ apHome = [h \in Homes |-> "none"] /\ apMail = [h \in Homes |-> 1]
    /\ apBase = [i \in Ids |-> None] /\ apArmed = FALSE /\ apCall = [c \in {"create", "update", "list"} |-> Quiet]
    /\ apImport = [on |-> FALSE, todo |-> {}] /\ apWatch = [pc |-> "start", homes |-> {}, events |-> {}, due |-> FALSE]
    /\ apSess = [id |-> None, alive |-> TRUE, to |-> None] /\ apOps = 0 /\ apHost = 0 /\ apBreaks = 0
    /\ apUnseen = {} /\ apStir = FALSE

Known(i) == apRow[i].name # ""
Named(n) == \E i \in Ids : apRow[i].name = n
Op == apOps < MaxOps /\ apOps' = apOps + 1
Host == apHost < MaxHost /\ apHost' = apHost + 1
Stir == apStir' = (apStir \/ apSess.to # None)

(***************************************************************************)
(* Rows.                                                                   *)
(***************************************************************************)
(* Insert, and the UNIQUE name: with the name taken it fails.              *)
Insert(n, home) ==
    IF Named(n) \/ \A i \in Ids : Known(i) THEN UNCHANGED apRow
    ELSE apRow' = [apRow EXCEPT ![CHOOSE i \in Ids : ~Known(i)] =
                      [name |-> n, home |-> home, on |-> TRUE, seal |-> apKind = "opencode"]]

(* Create: the name is looked up, and inserted later.                      *)
CreateCheck(n) ==
    /\ Op /\ apCall["create"].pc = "idle" /\ ~Named(n) /\ (apKind = "opencode" => apArmed)
    /\ apCall' = [apCall EXCEPT !["create"] = [Quiet EXCEPT !.pc = "insert", !.name = n]]
    /\ UNCHANGED <<apKind, apRow, apHome, apMail, apBase, apArmed, apImport, apWatch, apSess, apHost, apBreaks, apUnseen, apStir>>

CreateInsert ==
    /\ apCall["create"].pc = "insert" /\ Insert(apCall["create"].name, apCall["create"].name)
    /\ apCall' = [apCall EXCEPT !["create"] = Quiet]
    /\ UNCHANGED <<apKind, apHome, apMail, apBase, apArmed, apImport, apWatch, apSess, apOps, apHost, apBreaks, apUnseen, apStir>>

(* Update (a rename or a new description) reads the row ...                *)
UpdateRead(i, n) ==
    /\ Op /\ apCall["update"].pc = "idle" /\ Known(i) /\ n \in Names
    /\ apCall' = [apCall EXCEPT !["update"] = [Quiet EXCEPT !.pc = "write", !.id = i, !.name = n, !.on = apRow[i].on]]
    /\ UNCHANGED <<apKind, apRow, apHome, apMail, apBase, apArmed, apImport, apWatch, apSess, apHost, apBreaks, apUnseen, apStir>>

(* Mutant of UpdateWrite: a request without "enabled" enables.             *)
UpdateEnables ==
    LET u == apCall["update"] IN
    /\ u.pc = "write" /\ apCall' = [apCall EXCEPT !["update"] = Quiet]
    /\ IF Known(u.id) /\ \A j \in Ids \ {u.id} : apRow[j].name # u.name
         THEN /\ apRow' = [apRow EXCEPT ![u.id].name = u.name, ![u.id].on = TRUE]
              /\ apUnseen' = apUnseen \union {apRow[u.id].home} /\ Stir
         ELSE UNCHANGED <<apRow, apUnseen, apStir>>
    /\ UNCHANGED <<apKind, apHome, apMail, apBase, apArmed, apImport, apWatch, apSess, apOps, apHost, apBreaks>>

(* ... and writes all its columns back.                                    *)
UpdateWrite ==
    LET u == apCall["update"] IN
    /\ u.pc = "write" /\ apCall' = [apCall EXCEPT !["update"] = Quiet]
    /\ IF Known(u.id) /\ \A j \in Ids \ {u.id} : apRow[j].name # u.name
         THEN /\ apRow' = [apRow EXCEPT ![u.id].name = u.name, ![u.id].on = u.on]
              /\ apUnseen' = apUnseen \union {apRow[u.id].home} /\ Stir
         ELSE UNCHANGED <<apRow, apUnseen, apStir>>
    /\ UNCHANGED <<apKind, apHome, apMail, apBase, apArmed, apImport, apWatch, apSess, apOps, apHost, apBreaks>>

(* The toggle endpoint: an Update that sets "enabled" only.                *)
Toggle(i) ==
    /\ Op /\ Known(i) /\ apRow' = [apRow EXCEPT ![i].on = ~@] /\ Stir
    /\ UNCHANGED <<apKind, apHome, apMail, apBase, apArmed, apCall, apImport, apWatch, apSess, apHost, apBreaks, apUnseen>>

(* Delete: sessions lose their binding (ON DELETE SET NULL), the baseline  *)
(* is forgotten, the home stays.                                           *)
Delete(i) ==
    /\ Op /\ Known(i) /\ apRow' = [apRow EXCEPT ![i] = NoRow] /\ apBase' = [apBase EXCEPT ![i] = None]
    /\ apSess' = [apSess EXCEPT !.id = IF @ = i THEN None ELSE @] /\ apUnseen' = apUnseen \union {apRow[i].home} /\ Stir
    /\ apCall' = [c \in DOMAIN apCall |-> IF apCall[c].id = i THEN Quiet ELSE apCall[c]] \* ids are not used again
    /\ UNCHANGED <<apKind, apHome, apMail, apArmed, apImport, apWatch, apHost, apBreaks>>

(* SetAPIKey (codex): the program logs the account in.                     *)
SetAPIKey(i) ==
    /\ apKind = "codex" /\ Op /\ Known(i) /\ apHome' = [apHome EXCEPT ![apRow[i].home] = "in"] /\ Stir
    /\ UNCHANGED <<apKind, apRow, apMail, apBase, apArmed, apCall, apImport, apWatch, apSess, apHost, apBreaks, apUnseen>>

(***************************************************************************)
(* The identity store (Claude).                                            *)
(***************************************************************************)
Drift(i) == Known(i) /\ apBase[i] # None /\ apHome[apRow[i].home] = "in" /\ apBase[i] # apMail[apRow[i].home]

(* decorate reads the email and asks whether one is known ...              *)
ListRead(i) ==
    /\ apKind = "claude" /\ Op /\ apCall["list"].pc = "idle" /\ Known(i) /\ apHome[apRow[i].home] = "in" /\ apBase[i] = None
    /\ apCall' = [apCall EXCEPT !["list"] = [Quiet EXCEPT !.pc = "record", !.id = i, !.mail = apMail[apRow[i].home]]]
    /\ UNCHANGED <<apKind, apRow, apHome, apMail, apBase, apArmed, apImport, apWatch, apSess, apHost, apBreaks, apUnseen, apStir>>

(* Mutant of Record: the last observation wins.                            *)
RecordLast(i, mail) == apBase' = [apBase EXCEPT ![i] = mail]

(* Record: the first observation wins.                                     *)
Record(i, mail) == apBase' = [apBase EXCEPT ![i] = IF @ = None THEN mail ELSE @]

(* ... and records it.  Other lists run at once.                           *)
ListRecord(i, mail) ==
    /\ \/ /\ apCall["list"].pc = "record" /\ apCall["list"].id = i /\ apCall["list"].mail = mail
          /\ apCall' = [apCall EXCEPT !["list"] = Quiet]
       \/ /\ apKind = "claude" /\ Known(i) /\ apBase[i] = None /\ apHome[apRow[i].home] = "in"
          /\ mail = apMail[apRow[i].home] /\ UNCHANGED apCall
    /\ Record(i, mail)
    /\ UNCHANGED <<apKind, apRow, apHome, apMail, apArmed, apImport, apWatch, apSess, apOps, apHost, apBreaks, apUnseen, apStir>>

AcceptIdentity(i) ==
    /\ Op /\ Drift(i) /\ apBase' = [apBase EXCEPT ![i] = apMail[apRow[i].home]]
    /\ UNCHANGED <<apKind, apRow, apHome, apMail, apArmed, apCall, apImport, apWatch, apSess, apHost, apBreaks, apUnseen, apStir>>

(***************************************************************************)
(* Import and the watcher.                                                 *)
(***************************************************************************)
(* discoverLocalAccounts: the homes that are logged in.  opencode imports  *)
(* the user's own login under a name.                                      *)
Discovered == {h \in IF apKind = "opencode" THEN {"default"} ELSE Homes :
                   apHome[h] = "in" /\ (apKind = "opencode" => apArmed)}

Scan == ~apImport.on /\ apImport' = [on |-> TRUE, todo |-> Discovered]

ImportLocal ==
    /\ Op /\ Scan
    /\ UNCHANGED <<apKind, apRow, apHome, apMail, apBase, apArmed, apCall, apWatch, apSess, apHost, apBreaks, apUnseen, apStir>>

(* One found home; a known name is left alone.                             *)
ImportOne(h) ==
    /\ apImport.on /\ h \in apImport.todo /\ Insert(h, h) /\ apImport' = [apImport EXCEPT !.todo = @ \ {h}]
    /\ UNCHANGED <<apKind, apHome, apMail, apBase, apArmed, apCall, apWatch, apSess, apOps, apHost, apBreaks, apUnseen, apStir>>

ImportEnds ==
    /\ apImport.on /\ apImport.todo = {} /\ apImport' = [apImport EXCEPT !.on = FALSE]
    /\ UNCHANGED <<apKind, apRow, apHome, apMail, apBase, apArmed, apCall, apWatch, apSess, apOps, apHost, apBreaks, apUnseen, apStir>>

(* Watcher.Run: a scan, then watchOnce watches the root and the homes that *)
(* are there; after an error it is retried without a scan.                 *)
WatchBoot ==
    /\ apKind = "claude" /\ apWatch.pc = "start" /\ Scan /\ apWatch' = [apWatch EXCEPT !.pc = "off"]
    /\ UNCHANGED <<apKind, apRow, apHome, apMail, apBase, apArmed, apCall, apSess, apOps, apHost, apBreaks, apUnseen, apStir>>

WatchOnce ==
    /\ apKind = "claude" /\ apWatch.pc = "off"
    /\ apWatch' = [pc |-> "on", homes |-> {h \in Names : apHome[h] # "none"}, events |-> {}, due |-> FALSE]
    /\ UNCHANGED <<apKind, apRow, apHome, apMail, apBase, apArmed, apCall, apImport, apSess, apOps, apHost, apBreaks, apUnseen, apStir>>

WatchBreaks ==
    /\ apWatch.pc = "on" /\ apBreaks < MaxBreaks /\ apBreaks' = apBreaks + 1
    /\ apWatch' = [pc |-> "off", homes |-> {}, events |-> {}, due |-> FALSE]
    /\ apUnseen' = apUnseen \union {h \in Names : apHome[h] = "in"}
    /\ UNCHANGED <<apKind, apRow, apHome, apMail, apBase, apArmed, apCall, apImport, apSess, apOps, apHost, apStir>>

(* Mutant of WatchEvent: a new directory is not watched.                   *)
WatchRootOnly(h) ==
    /\ apWatch.pc = "on" /\ h \in apWatch.events
    /\ apWatch' = [apWatch EXCEPT !.events = @ \ {h}, !.due = TRUE]
    /\ UNCHANGED <<apKind, apRow, apHome, apMail, apBase, apArmed, apCall, apImport, apSess, apOps, apHost, apBreaks, apUnseen, apStir>>

(* The event of a new directory: it is watched and a scan is due.          *)
WatchEvent(h) ==
    /\ apWatch.pc = "on" /\ h \in apWatch.events
    /\ apWatch' = [apWatch EXCEPT !.events = @ \ {h}, !.homes = @ \union {h}, !.due = TRUE]
    /\ UNCHANGED <<apKind, apRow, apHome, apMail, apBase, apArmed, apCall, apImport, apSess, apOps, apHost, apBreaks, apUnseen, apStir>>

(* The debounce timer fires.                                               *)
WatchScan ==
    /\ apWatch.pc = "on" /\ apWatch.due /\ Scan /\ apWatch' = [apWatch EXCEPT !.due = FALSE]
    /\ UNCHANGED <<apKind, apRow, apHome, apMail, apBase, apArmed, apCall, apSess, apOps, apHost, apBreaks, apUnseen, apStir>>

(***************************************************************************)
(* The host: directories, logins and logouts outside the program; the      *)
(* operator arms the cipher.                                               *)
(***************************************************************************)
MakeDir(h) ==
    /\ Host /\ h \in Names /\ apHome[h] = "none" /\ apHome' = [apHome EXCEPT ![h] = "dir"]
    /\ apWatch' = [apWatch EXCEPT !.events = IF apWatch.pc = "on" THEN @ \union {h} ELSE @]
    /\ UNCHANGED <<apKind, apRow, apMail, apBase, apArmed, apCall, apImport, apSess, apOps, apBreaks, apUnseen, apStir>>

Login(h, mail) ==
    /\ Host /\ (apHome[h] = "none" => h = "default") /\ ~(apHome[h] = "in" /\ apMail[h] = mail)
    /\ apHome' = [apHome EXCEPT ![h] = "in"] /\ apMail' = [apMail EXCEPT ![h] = mail] /\ Stir
    /\ apWatch' = [apWatch EXCEPT !.due = @ \/ h \in apWatch.homes]
    /\ apUnseen' = IF apWatch.pc = "on" \/ (apWatch.pc = "start" /\ apKind = "claude") THEN apUnseen ELSE apUnseen \union {h}
    /\ UNCHANGED <<apKind, apRow, apBase, apArmed, apCall, apImport, apSess, apOps, apBreaks>>

Logout(h) ==
    /\ Host /\ apHome[h] = "in" /\ apHome' = [apHome EXCEPT ![h] = "dir"] /\ Stir
    /\ UNCHANGED <<apKind, apRow, apMail, apBase, apArmed, apCall, apImport, apWatch, apSess, apOps, apBreaks, apUnseen>>

ArmCipher ==
    /\ apKind = "opencode" /\ Host /\ apArmed' = ~apArmed /\ Stir
    /\ UNCHANGED <<apKind, apRow, apHome, apMail, apBase, apCall, apImport, apWatch, apSess, apOps, apBreaks, apUnseen>>

(***************************************************************************)
(* Sessions.                                                               *)
(***************************************************************************)
HasLogin(i) == apHome[apRow[i].home] = "in"

(* ResolveSpawnCreds (Claude).  No account: the CLI's own login, which the *)
(* program does not look at.                                               *)
ResolveSpawnCreds(i) == i = None \/ (Known(i) /\ apRow[i].on /\ HasLogin(i))

(* ResolveSpawnHome of codex and of Antigravity.                           *)
CodexHome(i) == i = None \/ (Known(i) /\ apRow[i].on /\ HasLogin(i))
AgyHome(i) == i = None \/ (Known(i) /\ apRow[i].on /\ HasLogin(i))

(* ResolveSpawnAuth (opencode): the bundle must open.                      *)
ResolveSpawnAuth(i) == i = None \/ (Known(i) /\ apRow[i].on /\ apRow[i].seal /\ apArmed)

(* ResolveSpawnHomeResilient (grok): any usable home will do.              *)
ResolveSpawnHomeResilient(i) ==
    \/ i # None /\ Known(i) /\ apRow[i].on /\ HasLogin(i)
    \/ apHome["default"] = "in"
    \/ \E j \in Ids : Known(j) /\ apRow[j].on /\ HasLogin(j)

SpawnOk(i) ==
    CASE apKind = "claude" -> ResolveSpawnCreds(i)
      [] apKind = "codex" -> CodexHome(i)
      [] apKind = "grok" -> ResolveSpawnHomeResilient(i)
      [] apKind = "antigravity" -> AgyHome(i)
      [] apKind = "opencode" -> ResolveSpawnAuth(i)

(* Mutant of Check: enabled is enough for every pool.                      *)
CheckEnabledOnly(i) == i = None \/ (Known(i) /\ apRow[i].on)

(* What the switch handlers check before they stop the session: for Claude *)
(* and Antigravity that the account is enabled, for the others its login   *)
(* too; nothing for "no account".                                          *)
Check(i) ==
    i = None \/ (Known(i) /\ apRow[i].on
                   /\ CASE apKind \in {"codex", "grok"} -> HasLogin(i)
                        [] apKind = "opencode" -> ResolveSpawnAuth(i)
                        [] OTHER -> TRUE)

SwitchCheck(i) ==
    /\ Op /\ apSess.to = None /\ apSess.alive /\ i # apSess.id /\ i # None /\ Check(i)
    /\ apSess' = [apSess EXCEPT !.to = i] /\ apStir' = FALSE
    /\ UNCHANGED <<apKind, apRow, apHome, apMail, apBase, apArmed, apCall, apImport, apWatch, apHost, apBreaks, apUnseen>>

(* Stop and respawn; codex, grok and opencode go back to the old account   *)
(* when the new one fails.                                                 *)
SwitchSpawn ==
    LET i == apSess.to  back == apKind \in {"codex", "grok", "opencode"} /\ SpawnOk(apSess.id) IN
    /\ i # None
    /\ apSess' = IF SpawnOk(i) THEN [id |-> i, alive |-> TRUE, to |-> None] ELSE [apSess EXCEPT !.alive = back, !.to = None]
    /\ UNCHANGED <<apKind, apRow, apHome, apMail, apBase, apArmed, apCall, apImport, apWatch, apOps, apHost, apBreaks, apUnseen, apStir>>

Import == (\E h \in Homes : ImportOne(h)) \/ ImportEnds
Watcher == WatchBoot \/ WatchOnce \/ WatchScan \/ \E h \in Names : WatchEvent(h)
Switch == SwitchSpawn \/ \E i \in Ids : SwitchCheck(i)

(* The operations every service has on its own table ...                   *)
Admin ==
    \/ CreateInsert \/ UpdateWrite \/ ImportLocal
    \/ \E n \in Names : CreateCheck(n) \/ \E i \in Ids : UpdateRead(i, n)
    \/ \E i \in Ids : Toggle(i) \/ Delete(i)

(* ... and each service.                                                   *)
Cliacct ==
    apKind = "claude" /\ (Admin \/ Watcher \/ WatchBreaks
                           \/ \E i \in Ids : ListRead(i) \/ AcceptIdentity(i) \/ \E m \in 1..2 : ListRecord(i, m))
Codexacct == apKind = "codex" /\ (Admin \/ \E i \in Ids : SetAPIKey(i))
Grokacct == apKind = "grok" /\ Admin
Agyacct == apKind = "antigravity" /\ Admin
Opencodeacct == apKind = "opencode" /\ (Admin \/ ArmCipher)

Next ==
    \/ Cliacct \/ Codexacct \/ Grokacct \/ Agyacct \/ Opencodeacct \/ Import \/ Switch
    \/ \E n \in Names : MakeDir(n)
    \/ \E h \in Homes : Logout(h) \/ \E m \in 1..2 : Login(h, m)

(* The watcher's goroutine runs and an import comes to its end.            *)
Fairness == WF_vars(Import) /\ WF_vars(WatchBoot) /\ WF_vars(WatchOnce) /\ SF_vars(WatchScan)
            /\ \A h \in Names : WF_vars(WatchEvent(h))

Spec == Init /\ [][Next]_vars /\ Fairness

TypeOK ==
    /\ apKind \in Kinds /\ \A i \in Ids : apRow[i].name \in Homes \union {""} /\ apBase[i] \in 0..2
    /\ apHome \in [Homes -> {"none", "dir", "in"}] /\ apImport.todo \subseteq Homes
    /\ apSess.id \in Ids \union {None} /\ apSess.to \in Ids \union {None}

DriftNotSwallowedStep ==
    \A i \in Ids : (Drift(i) /\ ~Drift(i)') =>
          (apOps' # apOps \/ apHost' # apHost)

(* A drift of the identity is shown until the operator accepts it, the old *)
(* login is back, or the login or the row is gone: lists that overlap do   *)
(* not swallow it.                                                         *)
DriftNotSwallowed == [][DriftNotSwallowedStep]_vars

EnabledOnPurposeStep ==
    \A i \in Ids : (Known(i) /\ ~apRow[i].on /\ apRow'[i].on) =>
          \/ apOps' = apOps + 1
          \/ apCall["update"].pc = "write" /\ apCall["update"].id = i /\ apCall["update"].on

(* A disabled account is enabled by the operator's toggle, or by an edit   *)
(* that had read it enabled; neither import nor other edits enable it.     *)
EnabledOnPurpose == [][EnabledOnPurposeStep]_vars

(* A switch that leaves the session dead met an account that changed while *)
(* it ran; for Claude and Antigravity also one that was not logged in.     *)
SwitchKeepsSession ==
    apSess.alive \/ apStir \/ apKind \in {"claude", "antigravity"}

(* An account that logs in under the watched directory gets a row by       *)
(* itself, in whatever order the directory, its watch and the login came   *)
(* (unless the watcher was down, or an operator moved or removed the row). *)
LoginSeen ==
    \A h \in Names : (apKind = "claude" /\ apHome[h] = "in" /\ h \notin apUnseen)
                        ~> (Named(h) \/ h \in apUnseen \/ apHome[h] # "in" \/ \A i \in Ids : Known(i))
=============================================================================
