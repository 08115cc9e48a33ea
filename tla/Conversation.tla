---------------------------- MODULE Conversation ----------------------------
(***************************************************************************)
(* How the conversation of a session is kept over restarts and account     *)
(* switches.  Every CLI stores conversations in the home of its account    *)
(* (opencode in one database for all): Claude a transcript per id, codex a *)
(* rollout per thread, which runs in a scratch home and is synced back on  *)
(* exit, grok a directory, Antigravity an SQLite file with a write-ahead   *)
(* log.  A restart resumes the session's conversation, a switch carries it *)
(* into the new account's home when the operator agrees.  A conversation   *)
(* is a number, its content the number of its turns.  Once a CLI is        *)
(* stopped nobody writes the session's files, so a switch is one step.     *)
(***************************************************************************)
EXTENDS Naturals, FiniteSets, FiniteSetsExt

CONSTANTS
    Providers,   \* "claude", "codex", "grok", "antigravity", "opencode"
    MaxCandidates, \* claudeResumeMaxCandidates: transcripts looked into for the id of a run
    MaxConvs,    \* bound: conversations
    MaxTurns,    \* bound: turns of this session
    MaxOps       \* bound: stops, exits, restarts and switches

Convs == 1..MaxConvs
Accts == 1..2
Never == 0

VARIABLES
    cvKind,      \* the provider of the session
    cvAcct,      \* account of the row
    cvStored,    \* claude_session_id of the row, Never when empty
    cvRun,       \* the run: up, its conversation, the id it was launched with, its scratch
    cvHook,      \* the exit hook of an ended codex run that has not run: on, run, account
    cvDisk,      \* per home and conversation: turns (len), write-ahead log (wal), mtime;
                 \* per conversation the launch ids in the tail that is read, and whether it is one inode
    cvNext,      \* conversations so far
    cvTurns, cvOps,
    cvHist       \* history: turns of every conversation (full), the session's own one (mine),
                 \* who may see what (allowed), whether something went wrong that excuses

vars == <<cvKind, cvAcct, cvStored, cvRun, cvHook, cvDisk, cvNext, cvTurns, cvOps, cvHist>>

Zero == [c \in Convs |-> 0]
Down == [up |-> FALSE, conv |-> Never, launch |-> Never, scratch |-> Zero]

Init ==
    /\ cvKind \in Providers /\ cvAcct = 1 /\ cvStored = Never /\ cvRun = Down /\ cvHook = [on |-> FALSE, run |-> Down, acct |-> 1]
    /\ cvDisk = [len |-> [a \in Accts |-> Zero], wal |-> [a \in Accts |-> Zero], mtime |-> [a \in Accts |-> Zero],
                 tag |-> [c \in Convs |-> {}], linked |-> {}]
    /\ cvNext = 0 /\ cvTurns = 0 /\ cvOps = 0
    /\ cvHist = [full |-> Zero, mine |-> Never, allowed |-> {}, excused |-> FALSE]

Op == cvOps < MaxOps /\ cvOps' = cvOps + 1
Home(a) == IF cvKind = "opencode" THEN 1 ELSE a
Has(D, a, c) == c # Never /\ D.len[Home(a)][c] > 0
Now(D) == 1 + Max({D.mtime[a][c] : a \in Accts, c \in Convs})

(* The conversation of the set that was written last; Never when empty.    *)
Latest(D, a, S) ==
    IF S = {} THEN Never ELSE CHOOSE c \in S : \A d \in S : D.mtime[Home(a)][d] <= D.mtime[Home(a)][c]

(* LatestGrokSessionID, grok --continue, ConversationIDForCwd,             *)
(* LatestSessionID: the newest of the working directory, whoever wrote it. *)
Newest(D, a) == Latest(D, a, {c \in Convs : Has(D, a, c)})

(* newestTranscripts: as many as are looked into.                          *)
newestTranscripts(D, a) ==
    {c \in Convs : Has(D, a, c) /\ Cardinality({d \in Convs : Has(D, a, d) /\ D.mtime[a][d] > D.mtime[a][c]}) < MaxCandidates}

(* Mutant of resolveClaudeResumeID: only the file named by the stored id.  *)
ResolveStoredOnly(D, a, id) == IF Has(D, a, id) THEN id ELSE Never

(* resolveClaudeResumeID: the newest of these that is named by the id or   *)
(* has it in its tail, else the one that is named by it wherever it is.    *)
resolveClaudeResumeID(D, a, id) ==
    LET found == {c \in newestTranscripts(D, a) : c = id \/ id \in D.tag[c]} IN
    IF found # {} THEN Latest(D, a, found) ELSE IF Has(D, a, id) THEN id ELSE Never

(* The transcript the session writes is neither named by the stored id nor *)
(* one that is found by it: too many are newer, or the tail does not show  *)
(* the id.                                                                 *)
Hidden(D, a, id) ==
    LET c == cvHist.mine IN
    cvKind = "claude" /\ c \notin {id, Never} /\ ~(c \in newestTranscripts(D, a) /\ id \in D.tag[c])

(***************************************************************************)
(* Copies.                                                                 *)
(***************************************************************************)
(* Mutant of migrateClaudeTranscript: a file already there is kept.        *)
MigrateKeepsDst(D, from, to, c, link) ==
    IF c \in D.linked \/ Has(D, to, c) THEN D
    ELSE [D EXCEPT !.len[to][c] = D.len[from][c], !.mtime[to][c] = IF link THEN D.mtime[from][c] ELSE Now(D),
                   !.linked = IF link THEN @ \union {c} ELSE @]

(* migrateClaudeTranscript: a hard link, or a copy across file systems.    *)
migrateClaudeTranscript(D, from, to, c, link) ==
    IF c \in D.linked THEN D
    ELSE [D EXCEPT !.len[to][c] = D.len[from][c], !.mtime[to][c] = IF link THEN D.mtime[from][c] ELSE Now(D),
                   !.linked = IF link THEN @ \union {c} ELSE @]

MigrateCodexRollout(D, from, to, c) ==
    [D EXCEPT !.len[to][c] = D.len[from][c], !.mtime[to][c] = D.mtime[from][c]]

migrateGrokSession(D, from, to, c) ==
    [D EXCEPT !.len[to][c] = D.len[from][c], !.mtime[to][c] = Now(D)]

(* copyConversation: a log that is not at the source is left as it is at   *)
(* the destination.                                                        *)
copyConversation(D, from, to, c) ==
    [D EXCEPT !.len[to][c] = D.len[from][c], !.wal[to][c] = IF D.wal[from][c] > 0 THEN D.wal[from][c] ELSE @,
              !.mtime[to][c] = Now(D)]

(* What a CLI that opens the conversation finds: the log is replayed.      *)
Opened(D, a, c) == IF D.wal[a][c] > 0 THEN D.wal[a][c] ELSE D.len[Home(a)][c]

Held(c) == IF cvKind = "codex" THEN cvRun.scratch[c] ELSE Opened(cvDisk, cvAcct, c)

(***************************************************************************)
(* Spawn.                                                                  *)
(***************************************************************************)
(* spawn(reactivate) with conversation c, or with a new one: the run, the  *)
(* row's stored id and the conversations so far.  Claude's id is minted by *)
(* the program and stored; codex is seeded from the credential home.       *)
Spawned(D, a, c, stored) ==
    LET found == Has(D, a, c)
        n == IF found THEN c ELSE cvNext + 1
    IN  /\ found \/ cvNext < MaxConvs
        /\ cvRun' = [up |-> TRUE, conv |-> n, launch |-> n,
                     scratch |-> IF cvKind = "codex" /\ found THEN [Zero EXCEPT ![c] = D.len[a][c]] ELSE Zero]
        /\ cvNext' = IF found THEN cvNext ELSE cvNext + 1
        /\ cvStored' = IF cvKind = "claude" THEN n ELSE stored
        /\ cvAcct' = a /\ cvDisk' = D

(* The session has no turns of its own yet under the account, and grok     *)
(* takes the newest conversation of the home, a copy that was left there.  *)
Adopts == cvKind = "grok" /\ cvHist.mine = Never

(* What a restart on the same account resumes.                             *)
Restarts(D, a, stored) ==
    CASE cvKind = "claude" -> resolveClaudeResumeID(D, a, stored)
      [] cvKind = "codex" -> stored
      [] OTHER -> Newest(D, a)

(* Create: a new conversation.                                             *)
Create ==
    /\ cvNext = 0 /\ Spawned(cvDisk, 1, Never, Never) /\ UNCHANGED <<cvKind, cvHook, cvTurns, cvOps, cvHist>>

Start ==
    /\ Op /\ ~cvRun.up /\ cvNext > 0 /\ Spawned(cvDisk, cvAcct, Restarts(cvDisk, cvAcct, cvStored), cvStored)
    /\ cvHist' = [cvHist EXCEPT !.excused = @ \/ cvHook.on \/ Adopts \/ Hidden(cvDisk, cvAcct, cvStored)]
    /\ UNCHANGED <<cvKind, cvHook, cvTurns>>

(***************************************************************************)
(* The CLI.                                                                *)
(***************************************************************************)
(* A turn leaves in the tail of a transcript the ids before it and its own,*)
(* its own, or, when its last record is longer than the tail, none.        *)
Tails(c) == IF cvKind = "claude" THEN {cvDisk.tag[c] \union {cvRun.launch}, {cvRun.launch}, {}} ELSE {{}}

Write(D, a, c, tail) ==
    LET v == Held(c) + 1
        both == [x \in Accts |-> IF x = Home(a) \/ (c \in D.linked) THEN [D.len[x] EXCEPT ![c] = v] ELSE D.len[x]]
        stamp == [x \in Accts |-> IF x = Home(a) \/ (c \in D.linked) THEN [D.mtime[x] EXCEPT ![c] = Now(D)] ELSE D.mtime[x]]
    IN  CASE cvKind = "codex" -> D
          [] cvKind = "antigravity" ->
               [D EXCEPT !.len[a][c] = IF @ = 0 THEN 1 ELSE @, !.wal[a][c] = v, !.mtime[a][c] = Now(D)]
          [] OTHER -> [D EXCEPT !.len = both, !.mtime = stamp,
                                !.tag[c] = tail]

Turn ==
    LET c == cvRun.conv IN
    /\ cvRun.up /\ cvTurns < MaxTurns /\ cvTurns' = cvTurns + 1
    /\ \E tail \in Tails(c) : cvDisk' = Write(cvDisk, cvAcct, c, tail)
    /\ cvRun' = IF cvKind = "codex" THEN [cvRun EXCEPT !.scratch[c] = @ + 1] ELSE cvRun
    /\ cvHist' = [cvHist EXCEPT !.full[c] = @ + 1, !.mine = c,
                                !.allowed = IF cvHist.full[c] = 0 THEN @ \union {<<c, cvAcct>>} ELSE @]
    /\ UNCHANGED <<cvKind, cvAcct, cvStored, cvHook, cvNext, cvOps>>

(* /clear: the CLI goes on in a new conversation.                          *)
Clear ==
    /\ cvRun.up /\ cvHist.mine = cvRun.conv /\ cvNext < MaxConvs /\ cvNext' = cvNext + 1
    /\ cvRun' = [cvRun EXCEPT !.conv = cvNext + 1] /\ cvHist' = [cvHist EXCEPT !.mine = Never]
    /\ UNCHANGED <<cvKind, cvAcct, cvStored, cvHook, cvDisk, cvTurns, cvOps>>

(* Another run of the CLI in the same directory, under the account.        *)
Other ==
    /\ cvNext > 0 /\ cvNext < MaxConvs /\ cvNext' = cvNext + 1 /\ cvKind # "codex"
    /\ cvDisk' = [cvDisk EXCEPT !.len[Home(cvAcct)][cvNext + 1] = 1, !.mtime[Home(cvAcct)][cvNext + 1] = Now(cvDisk)]
    /\ cvHist' = [cvHist EXCEPT !.full[cvNext + 1] = 1, !.allowed = @ \union {<<cvNext + 1, cvAcct>>},
                                !.excused = @ \/ cvKind # "claude"]
    /\ UNCHANGED <<cvKind, cvAcct, cvStored, cvRun, cvHook, cvTurns, cvOps>>

(***************************************************************************)
(* Exits.                                                                  *)
(***************************************************************************)
(* SyncCodexHome: the threads of the scratch go to the credential home,    *)
(* the last one is stored.                                                 *)
Synced(D, a, scratch) ==
    [D EXCEPT !.len[a] = [c \in Convs |-> IF scratch[c] > 0 THEN scratch[c] ELSE @[c]],
              !.mtime[a] = [c \in Convs |-> IF scratch[c] > 0 THEN Now(D) + c ELSE @[c]]]

LastOf(scratch, conv) == IF scratch[conv] > 0 THEN conv ELSE Max({c \in Convs : scratch[c] > 0} \union {Never})

(* The end of a run, the exit hook included; an agy that ends cleanly      *)
(* checkpoints its log.                                                    *)
Exited(D, a, run, clean) ==
    [disk |-> CASE cvKind = "codex" -> Synced(D, a, run.scratch)
                [] cvKind = "antigravity" /\ clean /\ D.wal[a][run.conv] > 0 ->
                     [D EXCEPT !.len[a][run.conv] = D.wal[a][run.conv], !.wal[a][run.conv] = 0]
                [] OTHER -> D,
     stored |-> IF cvKind = "codex" /\ LastOf(run.scratch, run.conv) # Never THEN LastOf(run.scratch, run.conv) ELSE cvStored]

(* Stop waits for the end of the run.                                      *)
Stop(clean) ==
    LET x == Exited(cvDisk, cvAcct, cvRun, clean) IN
    /\ Op /\ cvRun.up /\ cvRun' = Down /\ cvDisk' = x.disk /\ cvStored' = x.stored
    /\ UNCHANGED <<cvKind, cvAcct, cvHook, cvNext, cvTurns, cvHist>>

(* The CLI of a codex session ends by itself: the row is ended before the  *)
(* hook has run, and the session may be started again.                     *)
ExitCodex ==
    /\ cvKind = "codex" /\ Op /\ cvRun.up /\ ~cvHook.on /\ cvRun' = Down
    /\ cvHook' = [on |-> TRUE, run |-> cvRun, acct |-> cvAcct]
    /\ UNCHANGED <<cvKind, cvAcct, cvStored, cvDisk, cvNext, cvTurns, cvHist>>

ExitHook ==
    LET x == Exited(cvDisk, cvHook.acct, cvHook.run, FALSE) IN
    /\ cvHook.on /\ cvHook' = [cvHook EXCEPT !.on = FALSE] /\ cvDisk' = x.disk /\ cvStored' = x.stored
    /\ UNCHANGED <<cvKind, cvAcct, cvRun, cvNext, cvTurns, cvOps, cvHist>>

(* The gateway dies: no exit hook, and the scratch is lost.                *)
Crash ==
    /\ Op /\ cvRun.up /\ cvRun' = Down /\ cvHook' = [cvHook EXCEPT !.on = FALSE]
    /\ cvHist' = [cvHist EXCEPT !.excused = @ \/ cvKind = "codex"]
    /\ UNCHANGED <<cvKind, cvAcct, cvStored, cvDisk, cvNext, cvTurns>>

(***************************************************************************)
(* Switches.  carry is the operator's consent; ok, whether the respawn     *)
(* under the new account succeeds.                                         *)
(***************************************************************************)
(* Mutant of Consented: the conversation always comes along.               *)
ConsentAssumed(carry) == TRUE

(* Antigravity carries whatever the operator said.                         *)
Consented(carry) == carry \/ cvKind = "antigravity"

(* The conversation a switch takes along: what the stored id resolves to,  *)
(* the stored thread, or the newest of the directory.                      *)
Carried(D, a, stored, carry) ==
    IF ~Consented(carry) THEN Never
    ELSE CASE cvKind = "claude" -> LET r == resolveClaudeResumeID(D, a, stored) IN IF r = Never THEN stored ELSE r
           [] cvKind = "codex" -> stored
           [] OTHER -> Newest(D, a)

Copied(D, from, to, c, link) ==
    IF ~Has(D, from, c) THEN D
    ELSE CASE cvKind = "claude" -> migrateClaudeTranscript(D, from, to, c, link)
           [] cvKind = "codex" -> MigrateCodexRollout(D, from, to, c)
           [] cvKind = "grok" -> migrateGrokSession(D, from, to, c)
           [] cvKind = "antigravity" -> copyConversation(D, from, to, c)
           [] cvKind = "opencode" -> D

(* The resume of the respawn: Claude verifies the id in the new home, and  *)
(* a switch of Antigravity that carries nothing looks the directory up.    *)
Resumed(D, to, c) ==
    CASE cvKind = "claude" /\ c # Never -> resolveClaudeResumeID(D, to, c)
      [] cvKind = "antigravity" /\ c = Never -> Newest(D, to)
      [] OTHER -> c

Switch(carry, ok, link, clean) ==
    LET to == CHOOSE a \in Accts : a # cvAcct
        x == Exited(cvDisk, cvAcct, cvRun, clean)
        c == Carried(x.disk, cvAcct, x.stored, carry)
        D == Copied(x.disk, cvAcct, to, c, link)
        there == Has(x.disk, cvAcct, c)
    IN  /\ Op /\ cvRun.up /\ ~cvHook.on
        /\ \/ /\ ok /\ Spawned(D, to, Resumed(D, to, IF there THEN c ELSE Never), IF there THEN x.stored ELSE Never)
           \/ /\ ~ok /\ cvKind \in {"claude", "antigravity"} /\ cvRun' = Down /\ cvDisk' = D /\ cvStored' = x.stored
              /\ UNCHANGED <<cvAcct, cvNext>>
           \/ /\ ~ok /\ cvKind \notin {"claude", "antigravity"}
              /\ Spawned(D, cvAcct, IF cvKind = "codex" THEN x.stored ELSE c, x.stored)
        /\ cvHist' = [cvHist EXCEPT !.mine = IF ok /\ ~carry THEN Never ELSE @,
                                    !.allowed = IF carry THEN @ \union {<<c, to>>} ELSE @,
                                    !.excused = @ \/ (~ok /\ ~carry /\ cvKind \in {"grok", "opencode"}) \/ Adopts \/ Hidden(x.disk, cvAcct, x.stored)]
        /\ UNCHANGED <<cvKind, cvHook, cvTurns>>

Next ==
    \/ Create \/ Start \/ Turn \/ Clear \/ Other \/ ExitCodex \/ ExitHook \/ Crash
    \/ \E clean \in BOOLEAN : Stop(clean) \/ \E carry, ok, link \in BOOLEAN : Switch(carry, ok, link, clean)

Spec == Init /\ [][Next]_vars

TypeOK ==
    /\ cvKind \in Providers /\ cvAcct \in Accts /\ cvStored \in Convs \union {Never} /\ cvRun.conv \in Convs \union {Never}
    /\ cvNext \in 0..MaxConvs /\ cvHist.mine \in Convs \union {Never}

(* A restart, a carried switch and its rollback go on with the session's   *)
(* own conversation, also after /clear (unless another run wrote in the    *)
(* directory, for the providers that take its newest conversation; a codex *)
(* run was cut off or restarted before its exit hook; or a switch without  *)
(* consent failed, where grok and opencode start afresh; or grok adopted   *)
(* the copy an earlier switch had left, before a turn of its own; or too   *)
(* many transcripts are newer than Claude's, or its tail lacks the id).    *)
OwnConversation == (cvRun.up /\ cvHist.mine # Never /\ ~cvHist.excused) => cvRun.conv = cvHist.mine

(* claude_resume.go:25: "a session's live conversation is always among the *)
(* most recently written", and its records "sit at the end of the file".   *)
LiveIsFound == (cvRun.up /\ cvHist.mine # Never /\ cvKind = "claude") => cvRun.conv = cvHist.mine

(* What is resumed is the whole conversation: copies left in a home by an  *)
(* earlier switch never hide later turns.                                  *)
FullHistory ==
    (cvRun.up /\ ~cvHist.excused /\ cvKind # "antigravity") => Held(cvRun.conv) = cvHist.full[cvRun.conv]

(* Without the operator's consent an account never gets to run a           *)
(* conversation that was held under the other one.                         *)
ConsentKept ==
    (cvRun.up /\ cvHist.full[cvRun.conv] > 0 /\ cvKind \in {"claude", "codex", "grok"})
        => <<cvRun.conv, cvAcct>> \in cvHist.allowed

(* The same for every provider.                                            *)
ConsentAlways == (cvRun.up /\ cvHist.full[cvRun.conv] > 0) => <<cvRun.conv, cvAcct>> \in cvHist.allowed

(* No turn is lost: some home has the whole of every conversation.         *)
NoTurnLost ==
    (cvKind # "codex") => \A c \in Convs : \E a \in Accts : Opened(cvDisk, a, c) = cvHist.full[c]

(* FullHistory for every provider.                                         *)
CarriedWhole == (cvRun.up /\ ~cvHist.excused) => Held(cvRun.conv) = cvHist.full[cvRun.conv]
=============================================================================
