---------------------------- MODULE McpRegistry -----------------------------
(***************************************************************************)
(* MCP servers and what they need (mcp/, catalog/mcp.go): the entries a    *)
(* spawn writes into the configuration of its CLI, and the sealed file of  *)
(* the secrets the servers are given.                                      *)
(***************************************************************************)
EXTENDS Naturals, FiniteSets, Sequences

CONSTANTS
    Parts,         \* subset of {"config", "secrets"}: what is in use
    Clis,          \* subset of {"antigravity", "grok"}
    Spawns,        \* spawns under way
    Admins,        \* registry requests under way
    Servers,       \* registry ids
    ConfigNames,   \* display names
    UserNames,     \* names of entries the user writes himself
    MaxOps,        \* bound: registry changes and user edits
    MaxSpawns,     \* bound: spawns
    MaxFails,      \* bound: writes that fail
    Reqs,          \* loads under way: requests and spawns
    SecretsNames,  \* secret keys
    Characters,    \* characters values are made of
    MaxChars,      \* bound: length of a value
    MaxVersion,    \* bound: loads, numbered from 2
    MaxKeys,       \* bound: keys generated
    MaxFlips,      \* bound: times the keychain goes away or comes back
    MaxCrashes     \* bound: restarts

VARIABLES
    mcCli,
    mcReg,      \* id -> [name, on], name "" when there is no such server
    mcAdmin,    \* admin -> [pc, id, name, on]
    mcFile,     \* name -> "", "user", "vault", "memory" or "integration"
    mcTorn,     \* the file is being rewritten in place
    mcManaged,  \* the managed list
    mcSpawn,    \* spawn -> [pc, who, bound, want, file, managed]
    mcOps, mcSpawns, mcFails,
    mcLive,     \* history: spawn -> what its CLI found in the file
    mcClash,    \* history: names an entry of the user shared with a managed one
    mcRaced,    \* history: two syncs, or a sync and the user, overlapped
    mcShared,   \* history: a sync ran while another spawn had not started its CLI
    mcOrphans,  \* history: entries whose list could not be written
    mcTwo,      \* history: two registry writes overlapped
    msChain,    \* keychain: [up, key], key 0 when it holds none that decodes
    msFile,     \* the file: [kind, key, vals], kind "none", "plain", "enc", "cut" or "mixed"
    msTmp,      \* path.tmp
    msBak,      \* path.migrated.bak
    msReq,      \* request -> [pc, op, name, ver, key, vals, at], at: where the file it writes is by now
    msAcked,    \* history: name -> version last acknowledged
    msNext, msKeys, msFlips, msCrashes,
    msRaced,    \* history: two writers overlapped
    msTaken,    \* history: a rename took a path.tmp that another request had opened
    msTwoKeys   \* history: two loads made a key at once

-----------------------------------------------------------------------------
(***************************************************************************)
(* How the registry's MCP servers reach a CLI whose configuration is       *)
(* shared (mcp/mcp.go and handler.go, catalog/mcp.go, the MCP part of      *)
(* Resolve and Prepare in catalog/adapter.go).  Antigravity reads one file *)
(* per HOME, Grok one per working directory: a spawn merges its servers    *)
(* into it, keeps a list of the entries it manages, and takes off the      *)
(* managed ones that are no longer wanted.  A file maps an entry's name to *)
(* who wrote it; the registry is kept in a file per server.                *)
(***************************************************************************)

configVars == <<mcCli, mcReg, mcAdmin, mcFile, mcTorn, mcManaged, mcSpawn, mcOps, mcSpawns, mcFails, mcLive, mcClash, mcRaced, mcShared, mcOrphans, mcTwo>>
registry == <<mcReg, mcAdmin, mcTwo>>

AllNames == ConfigNames \union UserNames \union {"opendray-memory", "i"}
NoEntry == [n \in AllNames |-> ""]
ConfigIdle == [pc |-> "idle", who |-> "op", bound |-> FALSE, want |-> NoEntry, file |-> NoEntry, managed |-> {}]

ConfigInit ==
    /\ mcCli \in Clis /\ mcReg = [s \in Servers |-> [name |-> "", on |-> FALSE]]
    /\ mcAdmin = [a \in Admins |-> [pc |-> "idle", id |-> 0, name |-> "", on |-> FALSE]]
    /\ mcFile = NoEntry /\ mcTorn = FALSE /\ mcManaged = {} /\ mcSpawn = [s \in Spawns |-> ConfigIdle]
    /\ mcOps = 0 /\ mcSpawns = 0 /\ mcFails = 0 /\ mcLive = [s \in Spawns |-> NoEntry]
    /\ mcClash = {} /\ mcRaced = FALSE /\ mcShared = FALSE /\ mcOrphans = {} /\ mcTwo = FALSE

(* Mutant of NameTaken: a server is compared with itself only.             *)
NameTakenNever(name, id) == FALSE
(* Loader.NameTaken: another server has the display name.                  *)
NameTaken(name, id) == \E s \in Servers : s # id /\ mcReg[s].name = name

(* create, update: the name is looked up, then the file is written; ...    *)
PutChecks(a, id, name, on) ==
    /\ mcAdmin[a].pc = "idle" /\ mcOps < MaxOps /\ mcOps' = mcOps + 1 /\ ~NameTaken(name, id)
    /\ mcAdmin' = [mcAdmin EXCEPT ![a] = [pc |-> "write", id |-> id, name |-> name, on |-> on]]
    /\ mcTwo' = (mcTwo \/ \E b \in Admins : mcAdmin[b].pc = "write")
    /\ UNCHANGED <<mcCli, mcReg, mcFile, mcTorn, mcManaged, mcSpawn, mcSpawns, mcFails, mcLive, mcClash, mcRaced, mcShared, mcOrphans>>
PutWrites(a) ==
    /\ mcAdmin[a].pc = "write" /\ mcAdmin' = [mcAdmin EXCEPT ![a].pc = "idle"]
    /\ mcReg' = [mcReg EXCEPT ![mcAdmin[a].id] = [name |-> mcAdmin[a].name, on |-> mcAdmin[a].on]]
    /\ UNCHANGED <<mcCli, mcFile, mcTorn, mcManaged, mcSpawn, mcOps, mcSpawns, mcFails, mcLive, mcClash, mcRaced, mcShared, mcOrphans, mcTwo>>
(* ... delete removes the directory.                                       *)
DeleteServer(id) ==
    /\ mcOps < MaxOps /\ mcOps' = mcOps + 1 /\ mcReg[id].name # "" /\ mcReg' = [mcReg EXCEPT ![id] = [name |-> "", on |-> FALSE]]
    /\ UNCHANGED <<mcCli, mcAdmin, mcFile, mcTorn, mcManaged, mcSpawn, mcSpawns, mcFails, mcLive, mcClash, mcRaced, mcShared, mcOrphans, mcTwo>>

(* The user, or the CLI itself, edits the file.                            *)
UserEdit(n) ==
    /\ mcOps < MaxOps /\ mcOps' = mcOps + 1 /\ ~mcTorn
    /\ mcFile' = [mcFile EXCEPT ![n] = IF @ = "user" THEN "" ELSE "user"]
    /\ mcClash' = IF mcFile[n] \in {"", "user"} /\ n \notin mcManaged THEN mcClash ELSE mcClash \union {n}
    /\ mcRaced' = (mcRaced \/ \E s \in Spawns : mcSpawn[s].pc \in {"config", "tear", "list"})
    /\ UNCHANGED <<mcCli, registry, mcTorn, mcManaged, mcSpawn, mcSpawns, mcFails, mcLive, mcShared, mcOrphans>>

(* Mutant of integrationMCPAllowed: an integration's servers go anywhere.  *)
integrationMCPAllowedAlways(cli, bound) == TRUE
(* An integration's servers reach Antigravity only with a HOME of its own. *)
integrationMCPAllowed(cli, bound) == cli # "antigravity" \/ bound

(* Resolve: the enabled servers of the registry, the integration's over    *)
(* them, the memory server for everybody else.                             *)
Desired(who, bound) ==
    [n \in AllNames |->
        IF who = "integration" /\ n = "i" /\ integrationMCPAllowed(mcCli, bound) THEN "integration"
        ELSE IF who = "op" /\ n = "opendray-memory" THEN "memory"
        ELSE IF \E s \in Servers : mcReg[s].on /\ mcReg[s].name = n THEN "vault" ELSE ""]
Duplicate == \E s, t \in Servers : s # t /\ mcReg[s].on /\ mcReg[t].on /\ mcReg[s].name = mcReg[t].name

(* A bound spawn has a file of its own, which the model leaves out; a      *)
(* duplicate name fails the spawn before anything is written.              *)
Resolve(s, who, bound) ==
    /\ mcSpawn[s].pc = "idle" /\ mcSpawns < MaxSpawns /\ mcSpawns' = mcSpawns + 1
    /\ mcSpawn' = [mcSpawn EXCEPT ![s] = IF Duplicate \/ (bound /\ mcCli = "antigravity") THEN ConfigIdle
                                         ELSE [ConfigIdle EXCEPT !.pc = "read", !.who = who, !.bound = bound, !.want = Desired(who, bound)]]
    /\ UNCHANGED <<mcCli, registry, mcFile, mcTorn, mcManaged, mcOps, mcFails, mcLive, mcClash, mcRaced, mcShared, mcOrphans>>

Busy(s) == mcSpawn[s].pc \in {"config", "tear", "list"}
(* Mutant of Exclusive: nothing serialises the syncs.                      *)
ExclusiveNot(s) == TRUE
(* agyGlobalMCPMu serialises Antigravity's syncs, nothing Grok's.          *)
Exclusive(s) == mcCli = "antigravity" => \A t \in Spawns : ~Busy(t)

Names0(f) == {n \in AllNames : f[n] # ""}

(* Mutant of NothingToDo: a spawn without servers skips the cleanup.       *)
NothingWanted(q) == Names0(q.want) = {}
NothingToDo(q) == Names0(q.want) = {} /\ mcManaged = {}

(* syncAgyGlobalMCP, syncGrokWorkspaceMCP: the managed list and the file   *)
(* are read; nothing wanted and nothing managed is nothing to do, and a    *)
(* file that does not parse fails the spawn.                               *)
SyncReads(s) ==
    LET q == mcSpawn[s] IN
    /\ q.pc = "read" /\ Exclusive(s)
    /\ mcSpawn' = [mcSpawn EXCEPT ![s] = IF mcTorn THEN ConfigIdle
                                         ELSE IF NothingToDo(q) THEN [q EXCEPT !.pc = "start"]
                                         ELSE [q EXCEPT !.pc = "config", !.file = mcFile, !.managed = mcManaged]]
    /\ mcRaced' = (mcRaced \/ \E t \in Spawns : t # s /\ Busy(t))
    /\ mcShared' = (mcShared \/ \E t \in Spawns : t # s /\ (Busy(t) \/ mcSpawn[t].pc = "start"))
    /\ UNCHANGED <<mcCli, registry, mcFile, mcTorn, mcManaged, mcOps, mcSpawns, mcFails, mcLive, mcClash, mcOrphans>>

(* Mutant of Merged: whatever is not wanted goes.                          *)
MergedOnly(q) == q.want
(* Managed entries that are not wanted go, wanted ones are set, the rest   *)
(* stays.                                                                  *)
Merged(q) == [n \in AllNames |-> IF q.want[n] # "" THEN q.want[n] ELSE IF n \in q.managed THEN "" ELSE q.file[n]]

(* Mutant of Atomic: the file is rewritten in place.                       *)
AtomicNever == FALSE
(* Antigravity's file is replaced by a rename, Grok's rewritten in place.  *)
Atomic == mcCli = "antigravity"
SyncTears(s) ==
    /\ mcSpawn[s].pc = "config" /\ ~Atomic /\ mcSpawn' = [mcSpawn EXCEPT ![s].pc = "tear"] /\ mcTorn' = TRUE
    /\ UNCHANGED <<mcCli, registry, mcFile, mcManaged, mcOps, mcSpawns, mcFails, mcLive, mcClash, mcRaced, mcShared, mcOrphans>>
SyncWrites(s) ==
    LET q == mcSpawn[s] IN
    /\ (q.pc = "tear" \/ (q.pc = "config" /\ Atomic))
    /\ mcSpawn' = [mcSpawn EXCEPT ![s].pc = "list"] /\ mcFile' = Merged(q) /\ mcTorn' = FALSE
    /\ mcClash' = mcClash \union {n \in AllNames : q.want[n] # "" /\ q.file[n] = "user"}
    /\ UNCHANGED <<mcCli, registry, mcManaged, mcOps, mcSpawns, mcFails, mcLive, mcRaced, mcShared, mcOrphans>>
(* Then the list; when that fails the spawn fails, and the file keeps      *)
(* entries nobody lists.                                                   *)
SyncLists(s) ==
    LET q == mcSpawn[s] IN
    /\ q.pc = "list"
    /\ \/ /\ mcManaged' = Names0(q.want) /\ mcSpawn' = [mcSpawn EXCEPT ![s].pc = "start"] /\ UNCHANGED <<mcFails, mcOrphans>>
       \/ /\ mcFails < MaxFails /\ mcFails' = mcFails + 1 /\ mcSpawn' = [mcSpawn EXCEPT ![s] = ConfigIdle]
          /\ mcOrphans' = mcOrphans \union (Names0(q.want) \ mcManaged) /\ UNCHANGED mcManaged
    /\ UNCHANGED <<mcCli, registry, mcFile, mcTorn, mcOps, mcSpawns, mcLive, mcClash, mcRaced, mcShared>>

(* The CLI starts and reads the file; later it ends.                       *)
Start(s) ==
    /\ mcSpawn[s].pc = "start" /\ mcSpawn' = [mcSpawn EXCEPT ![s].pc = "running"] /\ mcLive' = [mcLive EXCEPT ![s] = mcFile]
    /\ UNCHANGED <<mcCli, registry, mcFile, mcTorn, mcManaged, mcOps, mcSpawns, mcFails, mcClash, mcRaced, mcShared, mcOrphans>>
Exit(s) ==
    /\ mcSpawn[s].pc = "running" /\ mcSpawn' = [mcSpawn EXCEPT ![s] = ConfigIdle] /\ mcLive' = [mcLive EXCEPT ![s] = NoEntry]
    /\ UNCHANGED <<mcCli, registry, mcFile, mcTorn, mcManaged, mcOps, mcSpawns, mcFails, mcClash, mcRaced, mcShared, mcOrphans>>

ConfigNext ==
    \/ \E a \in Admins : PutWrites(a) \/ \E id \in Servers, name \in ConfigNames, on \in BOOLEAN : PutChecks(a, id, name, on)
    \/ \E id \in Servers : DeleteServer(id)
    \/ \E n \in UserNames : UserEdit(n)
    \/ \E s \in Spawns : \/ \E who \in {"op", "integration"}, bound \in BOOLEAN : Resolve(s, who, bound)
                         \/ SyncReads(s) \/ SyncTears(s) \/ SyncWrites(s) \/ SyncLists(s) \/ Start(s) \/ Exit(s)

ConfigTypeOK ==
    /\ mcManaged \subseteq AllNames /\ \A n \in AllNames : mcFile[n] \in {"", "user", "vault", "memory", "integration"}
    /\ \A s \in Spawns : mcSpawn[s].pc \in {"idle", "read", "config", "tear", "list", "start", "running"}

(* What a spawn wanted is what its CLI finds beside the user's entries:    *)
(* nothing missing and no server that was switched off before, unless      *)
(* spawns overlapped before their CLIs had read the file, a list was not   *)
(* written or a name is also the user's.                                   *)
FoundIsWanted ==
    \A s \in Spawns : mcSpawn[s].pc = "running" /\ ~mcRaced /\ ~mcShared =>
        \A n \in AllNames \ (mcOrphans \union mcClash) : mcLive[s][n] \in {mcSpawn[s].want[n], "user"}

(* What one step may do, for UserEntriesKept.                              *)
UserEntriesKeptStep ==
    \A n \in AllNames \ mcClash' : mcFile[n] = "user" /\ mcFile'[n] # "user" => mcOps' # mcOps \/ mcRaced

(* An entry of the user stays as it is, but for the names the registry     *)
(* uses too and edits that land inside a sync.                             *)
UserEntriesKept == [][UserEntriesKeptStep]_configVars

(* Two servers never share a display name, unless two requests overlapped. *)
NamesUnique == \A s, t \in Servers : s # t /\ mcReg[s].name = mcReg[t].name => mcReg[s].name = "" \/ mcTwo

(* An integration's server never stands in the file all Antigravity        *)
(* sessions of the HOME share.                                             *)
IntegrationApart == mcCli = "antigravity" => \A n \in AllNames : mcFile[n] # "integration"

(* Antigravity, which watches the file, never sees half of it; and no      *)
(* spawn of it fails on one.                                               *)
NeverTorn == mcCli = "antigravity" => ~mcTorn

(* Antigravity's syncs never overlap: the list names the entries the file  *)
(* has.                                                                    *)
ListFollowsFile ==
    mcCli = "antigravity" /\ (\A s \in Spawns : ~Busy(s)) => \A n \in AllNames : mcFile[n] \in {"vault", "memory"} => n \in mcManaged \union mcOrphans

(* catalog/mcp.go:281: "User-authored entries are never in the managed     *)
(* list".                                                                  *)
UserNeverManaged == [][\A n \in AllNames : mcFile[n] = "user" /\ mcFile'[n] # "user" => mcOps' # mcOps]_configVars

-----------------------------------------------------------------------------
(***************************************************************************)
(* The secrets file of the MCP registry (mcp/secrets.go, the _secrets      *)
(* requests of mcp/handler.go).  Every request and every spawn loads the   *)
(* file anew: it takes the key from the OS keychain or makes one, moves a  *)
(* plaintext file to the encrypted form, and a request that sets or        *)
(* deletes a secret writes the whole file back.  Nothing locks the file: a *)
(* file is truncated when it is opened and then written in one call, and   *)
(* requests that open the same path write to the same file.                *)
(* A secret's value is a version; the dotenv form of a value is checked as *)
(* a function of its characters.                                           *)
(***************************************************************************)

secretsVars == <<msChain, msFile, msTmp, msBak, msReq, msAcked, msNext, msKeys, msFlips, msCrashes, msRaced, msTaken, msTwoKeys>>
bounds == <<msFlips, msCrashes>>

Empty == [n \in SecretsNames |-> 0]
NoFile == [kind |-> "none", key |-> 0, vals |-> Empty]
SecretsIdle == [pc |-> "idle", op |-> "load", name |-> "", ver |-> 0, key |-> 0, vals |-> Empty, at |-> ""]

(* An installation before its first start with a keychain: no file, or a   *)
(* plaintext one.                                                          *)
SecretsInit ==
    /\ msChain \in [up : BOOLEAN, key : {0}] /\ msTmp = NoFile /\ msBak = NoFile
    /\ \E old \in {0, 1} :
         /\ msFile = IF old = 0 THEN NoFile ELSE [kind |-> "plain", key |-> 0, vals |-> [n \in SecretsNames |-> 1]]
         /\ msAcked = [n \in SecretsNames |-> old]
    /\ msReq = [r \in Reqs |-> SecretsIdle] /\ msNext = 2 /\ msKeys = 0 /\ msFlips = 0 /\ msCrashes = 0
    /\ msRaced = FALSE /\ msTaken = FALSE /\ msTwoKeys = FALSE

(* formatPlaintext and parse of one value: %q around a value with a blank, *)
(* a hash, a quote or a newline; the parser trims, and takes one pair of   *)
(* quotes off.                                                             *)
Values == UNION {[1..n -> Characters] : n \in 0..MaxChars}
Has(v, cs) == \E i \in 1..Len(v) : v[i] \in cs
(* Mutant of needsQuoting: a blank needs no quotes.                        *)
needsQuotingSpaceless(v) == Has(v, {"#", "dq", "nl"})
needsQuoting(v) == Has(v, {" ", "#", "dq", "nl"})
Escaped[v \in Values] ==
    IF v = <<>> THEN <<>>
    ELSE (CASE v[1] = "dq" -> <<"bs", "dq">> [] v[1] = "bs" -> <<"bs", "bs">> [] v[1] = "nl" -> <<"bs", "n">> [] OTHER -> <<v[1]>>)
         \o Escaped[Tail(v)]
formatPlaintext(v) == IF needsQuoting(v) THEN <<"dq">> \o Escaped[v] \o <<"dq">> ELSE v
Trimmed(line) ==
    LET solid == {i \in 1..Len(line) : line[i] # " "} IN
    IF solid = {} THEN <<>>
    ELSE SubSeq(line, CHOOSE i \in solid : \A j \in solid : i <= j, CHOOSE i \in solid : \A j \in solid : i >= j)
parse(line) ==
    LET t == Trimmed(line) IN
    IF Len(t) >= 2 /\ t[1] \in {"dq", "sq"} /\ t[Len(t)] = t[1] THEN SubSeq(t, 2, Len(t) - 1) ELSE t

Writing(r) == msReq[r].pc \in {"bak", "copy", "mtmp", "mfill", "mren", "modify", "tmp", "fill", "ren"}

(* LoadSecrets begins with loadOrCreateKeychainKey: the key, ...           *)
Begin(r, op, n) ==
    /\ msReq[r].pc = "idle" /\ msNext <= MaxVersion /\ msNext' = msNext + 1
    /\ LET q == [SecretsIdle EXCEPT !.op = op, !.name = n, !.ver = IF op = "set" THEN msNext ELSE 0] IN
       msReq' = [msReq EXCEPT ![r] = IF ~msChain.up THEN [q EXCEPT !.pc = "read"]
                                     ELSE IF msChain.key # 0 THEN [q EXCEPT !.pc = "read", !.key = msChain.key]
                                     ELSE [q EXCEPT !.pc = "gen"]]
    /\ UNCHANGED <<msChain, msFile, msTmp, msBak, msAcked, msKeys, bounds, msRaced, msTaken, msTwoKeys>>
(* Mutant of Generate: the new key is used although it was not stored.     *)
GenerateUnstored(r) ==
    /\ msReq[r].pc = "gen" /\ msKeys < MaxKeys /\ msKeys' = msKeys + 1
    /\ msReq' = [msReq EXCEPT ![r].pc = "read", ![r].key = msKeys + 1]
    /\ UNCHANGED <<msChain, msFile, msTmp, msBak, msAcked, msNext, bounds, msRaced, msTaken, msTwoKeys>>

(* ... or a new one, stored over whatever is there; when the keychain does *)
(* not take it, the load goes on without a key.                            *)
Generate(r) ==
    /\ msReq[r].pc = "gen"
    /\ \/ /\ msChain.up /\ msKeys < MaxKeys /\ msKeys' = msKeys + 1 /\ msChain' = [msChain EXCEPT !.key = msKeys + 1]
          /\ msReq' = [msReq EXCEPT ![r].pc = "read", ![r].key = msKeys + 1]
          /\ msTwoKeys' = (msTwoKeys \/ msChain.key # 0)
       \/ msReq' = [msReq EXCEPT ![r].pc = "read"] /\ UNCHANGED <<msChain, msKeys, msTwoKeys>>
    /\ UNCHANGED <<msFile, msTmp, msBak, msAcked, msNext, bounds, msRaced, msTaken>>

Ends(r) == msReq' = [msReq EXCEPT ![r] = SecretsIdle]
Loaded(q) == IF q.op = "load" THEN SecretsIdle ELSE [q EXCEPT !.pc = "modify"]

Cut == [NoFile EXCEPT !.kind = "cut"]
Mixed == [NoFile EXCEPT !.kind = "mixed"]
(* What a file holds once mine is written to it: over what another request *)
(* wrote there meanwhile, rests of that may stay.                          *)
Filled(c, mine) == {mine} \union (IF c \in {Cut, mine} THEN {} ELSE {Mixed})

Readable(q) == msFile.kind = "enc" => q.key = msFile.key
(* Of a file that is cut or mixed nothing may be left, or it is an error.  *)
Found == IF msFile.kind \in {"cut", "mixed"} THEN {[NoFile EXCEPT !.kind = "plain"], Mixed} ELSE {msFile}

(* The file is read; an encrypted one without its key is an error, a       *)
(* plaintext one with a key begins the migration.                          *)
Read(r) ==
    /\ msReq[r].pc = "read"
    /\ \E f \in Found :
        LET q == [msReq[r] EXCEPT !.vals = IF Readable(msReq[r]) THEN f.vals ELSE Empty] IN
        msReq' = [msReq EXCEPT ![r] = IF ~Readable(q) \/ f = Mixed THEN SecretsIdle
                                      ELSE IF f.kind = "plain" /\ q.key # 0 THEN [q EXCEPT !.pc = "bak"]
                                      ELSE Loaded(q)]
    /\ msRaced' = (msRaced \/ (msReq'[r].pc # "idle" /\ \E o \in Reqs : o # r /\ Writing(o)))
    /\ UNCHANGED <<msChain, msFile, msTmp, msBak, msAcked, msNext, msKeys, bounds, msTaken, msTwoKeys>>

(* Mutant of Backup: nothing is kept.                                      *)
BackupNot(r) ==
    /\ msReq[r].pc = "bak" /\ msReq' = [msReq EXCEPT ![r].pc = "mtmp"]
    /\ UNCHANGED <<msChain, msFile, msTmp, msBak, msAcked, msNext, msKeys, bounds, msRaced, msTaken, msTwoKeys>>

(* The migration keeps the plaintext, over an earlier copy, and persists;  *)
(* a copy that cannot be written fails the load.                           *)
Backup(r) ==
    /\ msReq[r].pc = "bak" /\ msReq' = [msReq EXCEPT ![r].pc = "copy"] /\ msBak' = Cut
    /\ UNCHANGED <<msChain, msFile, msTmp, msAcked, msNext, msKeys, bounds, msRaced, msTaken, msTwoKeys>>
BackupEnds(r) ==
    /\ msReq[r].pc = "copy"
    /\ \/ msReq' = [msReq EXCEPT ![r].pc = "mtmp"] /\ msBak' \in Filled(msBak, [kind |-> "plain", key |-> 0, vals |-> msReq[r].vals])
       \/ Ends(r) /\ UNCHANGED msBak
    /\ UNCHANGED <<msChain, msFile, msTmp, msAcked, msNext, msKeys, bounds, msRaced, msTaken, msTwoKeys>>

(* Mutant of Modify: the new value is all that is kept.                    *)
ModifyAlone(r) ==
    LET q == msReq[r] IN
    /\ q.pc = "modify"
    /\ IF q.op = "delete" /\ q.vals[q.name] = 0 THEN Ends(r)
       ELSE msReq' = [msReq EXCEPT ![r].pc = "tmp", ![r].vals = [Empty EXCEPT ![q.name] = q.ver]]
    /\ UNCHANGED <<msChain, msFile, msTmp, msBak, msAcked, msNext, msKeys, bounds, msRaced, msTaken, msTwoKeys>>

(* Set and Delete change the loaded values; deleting what is not there is  *)
(* an error.                                                               *)
Modify(r) ==
    LET q == msReq[r] IN
    /\ q.pc = "modify"
    /\ IF q.op = "delete" /\ q.vals[q.name] = 0 THEN Ends(r)
       ELSE msReq' = [msReq EXCEPT ![r].pc = "tmp", ![r].vals[q.name] = q.ver]
    /\ UNCHANGED <<msChain, msFile, msTmp, msBak, msAcked, msNext, msKeys, bounds, msRaced, msTaken, msTwoKeys>>

(* persist: opens path.tmp, ...                                            *)
OpenTmp(r) ==
    LET q == msReq[r] IN
    /\ q.pc \in {"mtmp", "tmp"} /\ msTmp' = Cut
    /\ msReq' = [msReq EXCEPT ![r].pc = IF q.pc = "mtmp" THEN "mfill" ELSE "fill", ![r].at = "tmp"]
    /\ UNCHANGED <<msChain, msFile, msBak, msAcked, msNext, msKeys, bounds, msRaced, msTaken, msTwoKeys>>

(* Mutant of Form: the form follows the keychain of the moment.            *)
FormOfTheMoment(q) == [kind |-> IF msChain.up /\ q.key # 0 THEN "enc" ELSE "plain", key |-> q.key, vals |-> q.vals]
Form(q) == [kind |-> IF q.key # 0 THEN "enc" ELSE "plain", key |-> q.key, vals |-> q.vals]

(* ... writes it, in the form the key allows, wherever it is by now, ...   *)
WriteTmp(r) ==
    LET q == msReq[r] IN
    /\ q.pc \in {"mfill", "fill"}
    /\ \/ /\ msReq' = [msReq EXCEPT ![r].pc = IF q.pc = "mfill" THEN "mren" ELSE "ren"]
          /\ IF q.at = "tmp" THEN msTmp' \in Filled(msTmp, Form(q)) ELSE UNCHANGED msTmp
          /\ IF q.at = "file" THEN msFile' \in Filled(msFile, Form(q)) ELSE UNCHANGED msFile
       \/ Ends(r) /\ UNCHANGED <<msTmp, msFile>>
    /\ UNCHANGED <<msChain, msBak, msAcked, msNext, msKeys, bounds, msRaced, msTaken, msTwoKeys>>

(* ... and renames what is there; another load may have taken it away.     *)
RenameTmp(r) ==
    LET q == msReq[r] IN
    /\ q.pc \in {"mren", "ren"}
    /\ IF msTmp = NoFile THEN Ends(r) /\ UNCHANGED <<msTmp, msFile, msAcked, msTaken>>
       ELSE /\ msTmp' = NoFile /\ msFile' = msTmp
            /\ msReq' = [o \in Reqs |-> IF o = r THEN (IF q.pc = "ren" THEN SecretsIdle ELSE Loaded([q EXCEPT !.at = ""]))
                                        ELSE [msReq[o] EXCEPT !.at = CASE @ = "tmp" -> "file" [] @ = "file" -> "gone" [] OTHER -> @]]
            /\ msAcked' = IF q.pc = "ren" THEN [msAcked EXCEPT ![q.name] = q.ver] ELSE msAcked
            /\ msTaken' = (msTaken \/ msTmp # Form(q) \/ \E o \in Reqs \ {r} : msReq[o].at = "tmp")
    /\ UNCHANGED <<msChain, msBak, msNext, msKeys, bounds, msRaced, msTwoKeys>>

(* The keychain goes away and comes back; the gateway restarts.            *)
Flip ==
    /\ msFlips < MaxFlips /\ msFlips' = msFlips + 1 /\ msChain' = [msChain EXCEPT !.up = ~@]
    /\ UNCHANGED <<msFile, msTmp, msBak, msReq, msAcked, msNext, msKeys, msCrashes, msRaced, msTaken, msTwoKeys>>
Crash ==
    /\ msCrashes < MaxCrashes /\ msCrashes' = msCrashes + 1 /\ msReq' = [r \in Reqs |-> SecretsIdle]
    /\ UNCHANGED <<msChain, msFile, msTmp, msBak, msAcked, msNext, msKeys, msFlips, msRaced, msTaken, msTwoKeys>>

SecretsNext ==
    \/ \E r \in Reqs : \/ Begin(r, "load", "") \/ \E op \in {"set", "delete"}, n \in SecretsNames : Begin(r, op, n)
                       \/ Generate(r) \/ Read(r) \/ Backup(r) \/ BackupEnds(r) \/ Modify(r) \/ OpenTmp(r) \/ WriteTmp(r) \/ RenameTmp(r)
    \/ Flip \/ Crash

SecretsTypeOK ==
    /\ \A f \in {msFile, msTmp, msBak} : f.kind \in {"none", "plain", "enc", "cut", "mixed"}
    /\ msChain.key \in 0..MaxKeys /\ \A r \in Reqs : Writing(r) \/ msReq[r].pc \in {"idle", "gen", "read"}

Quiet == \A r \in Reqs : msReq[r].pc = "idle"

(* What was acknowledged is what the file holds, unless two writers        *)
(* overlapped: a load that cannot read the file never takes it for an      *)
(* empty one and writes over it.                                           *)
AckedIsStored == Quiet /\ ~msRaced => msFile.vals = msAcked

(* The encrypted file opens with the key in the keychain, unless two loads *)
(* made a key at once.                                                     *)
FileOpens == msFile.kind = "enc" /\ ~msTwoKeys => msFile.key = msChain.key

(* Wherever the gateway dies, also in the middle of a write, a secret of   *)
(* the plaintext file that nobody changed can be read: in the file or, when*)
(* a race for the key locked it, in the copy; unless a rename took what    *)
(* another request was writing, or a second load was just rewriting the    *)
(* copy the race had made the last.                                        *)
Opens == msFile.kind = "plain" \/ (msFile.kind = "enc" /\ msFile.key = msChain.key)
MigrationLosesNothing ==
    msTaken \/ (msTwoKeys /\ msBak = Cut) \/
        \A n \in SecretsNames : msAcked[n] = 1 => (Opens /\ msFile.vals[n] = 1) \/ msBak.vals[n] = 1

StaysEncryptedStep == msFile.kind = "enc" /\ msFile'.kind # "enc" => msRaced

(* An encrypted file is never written back in plaintext, but by a load     *)
(* that overlapped another.                                                *)
StaysEncrypted == [][StaysEncryptedStep]_secretsVars

(* A value without quotes, backslashes and newlines parses back.           *)
PlainParsesBack == \A v \in Values : ~Has(v, {"dq", "sq", "bs", "nl"}) => parse(formatPlaintext(v)) = v

(* secrets.go:295: "persist atomically writes the current in-memory state".*)
NeverHalfWritten == msFile.kind \notin {"cut", "mixed"}
(* handler.go:359 "stores or updates a single key": two requests at a time *)
(* each keep what the other stored.                                        *)
NoUpdateLost == Quiet => msFile.vals = msAcked

(* secrets.go:373: "Quote values that contain whitespace or `#` so they    *)
(* parse back unambiguously": every value parses back.                     *)
EveryValueParsesBack == \A v \in Values : parse(formatPlaintext(v)) = v

-----------------------------------------------------------------------------
vars == <<configVars, secretsVars>>

Init == ConfigInit /\ SecretsInit

(* The parts share no state: a step of one leaves the others alone.        *)
Next ==
    \/ "config" \in Parts /\ ConfigNext /\ UNCHANGED <<secretsVars>>
    \/ "secrets" \in Parts /\ SecretsNext /\ UNCHANGED <<configVars>>

Spec == Init /\ [][Next]_vars

TypeOK == ConfigTypeOK /\ SecretsTypeOK
=============================================================================
