--------------------------- MODULE MemoryWorkers ----------------------------
(***************************************************************************)
(* The model calls of the memory subsystem (memory/worker, and             *)
(* memory/summarizer registry, store and providers, memory/gatekeeper.go). *)
(* A task's row in memory_workers picks an HTTP summariser or a headless   *)
(* agent CLI; summarisers are rows one of which may be the default.        *)
(* Operators edit both tables while calls are under way, and a caller may  *)
(* bring a configuration of its own (RunWith).  A gateway that dies leaves *)
(* the scratch directory of its call to the system.                        *)
(***************************************************************************)
EXTENDS Naturals, FiniteSets

CONSTANTS
    Providers,    \* ids 1..n of memory_summarizer_providers rows, numbered by created_at
    Seeded,       \* rows that are there at first: 1..Seeded
    Keyed,        \* those with an API key
    Admins,       \* concurrent edits of a provider row
    Calls,        \* concurrent Registry.Run calls of one task
    MaxEdits,     \* bound: edits of the two tables
    MaxFails,     \* bound: metrics rows and scratch directories that cannot be written or removed
    None          \* no provider

VARIABLES
    mwRow,        \* mwRow[p]: [there, on, dflt]
    mwTask,       \* memory_workers row of the task: [on, kind, sid]
    mwEdit,       \* mwEdit[a]: an UpdateProvider between its read and its commit
    mwCall,       \* mwCall[c]: the call
    mwEdits, mwFails,
    mwMade,       \* rows inserted so far
    mwWasOn,      \* history: providers enabled at some time of call c
    mwTaskOn,     \* history: call c began while the task was enabled
    mwRecorded,   \* calls with a memory_worker_calls row
    mwDirs,       \* scratch directories of agent calls
    mwLost        \* history: <<call, "row" or "dir">> whose insert or removal failed

tables == <<mwRow, mwTask, mwEdit, mwEdits, mwMade>>
left == <<mwFails, mwRecorded, mwDirs, mwLost>>
vars == <<tables, mwCall, mwWasOn, mwTaskOn, left>>

NoEdit == [p |-> None, wasDflt |-> FALSE, dflt |-> {}, on |-> {}]
Ready == [pc |-> "idle", kind |-> "", p |-> None, pin |-> FALSE, own |-> FALSE, key |-> FALSE, ok |-> FALSE, child |-> FALSE]
Absent == [there |-> FALSE, on |-> FALSE, dflt |-> FALSE]
Fault == mwFails < MaxFails /\ mwFails' = mwFails + 1

Init ==
    /\ mwRow = [p \in Providers |-> IF p <= Seeded THEN [there |-> TRUE, on |-> TRUE, dflt |-> p = 1] ELSE Absent]
    /\ mwMade = Seeded /\ mwFails = 0 /\ mwLost = {}
    /\ mwTask = [on |-> TRUE, kind |-> "summarizer", sid |-> None]
    /\ mwEdit = [a \in Admins |-> NoEdit] /\ mwCall = [c \in Calls |-> Ready] /\ mwEdits = 0
    /\ mwWasOn = [c \in Calls |-> {}] /\ mwTaskOn = [c \in Calls |-> FALSE] /\ mwRecorded = {} /\ mwDirs = {}

(* Mutant of Enabled: a disabled row counts.                               *)
EnabledAny == {p \in Providers : mwRow[p].there}

Enabled == {p \in Providers : mwRow[p].there /\ mwRow[p].on}
Oldest(S) == CHOOSE p \in S : \A q \in S : p <= q

(* Registry.Default: the default row if it is enabled, else the oldest     *)
(* enabled one.                                                            *)
Default ==
    LET d == {p \in Providers : mwRow[p].there /\ mwRow[p].dflt} IN
    IF d # {} /\ d \subseteq Enabled THEN Oldest(d) ELSE IF Enabled = {} THEN None ELSE Oldest(Enabled)

(* Mutant of Pick: the default row is taken although it is disabled.       *)
PickDisabled ==
    LET d == {p \in Providers : mwRow[p].there /\ mwRow[p].dflt} IN
    IF d # {} THEN Oldest(d) ELSE IF Enabled = {} THEN None ELSE Oldest(Enabled)

(* SummarizerWorker.pickProvider without a pinned row: the enabled rows    *)
(* in order, the default before the first.                                 *)
Pick ==
    LET d == {p \in Enabled : mwRow[p].dflt} IN
    IF d # {} THEN Oldest(d) ELSE IF Enabled = {} THEN None ELSE Oldest(Enabled)

Noted(rows) == [c \in Calls |-> IF mwCall[c].pc = "idle" THEN {}
                                ELSE mwWasOn[c] \union {p \in Providers : rows[p].there /\ rows[p].on}]

(* InsertProvider clears the other default in the same transaction.        *)
InsertProvider(on, dflt) ==
    /\ mwEdits < MaxEdits /\ mwEdits' = mwEdits + 1 /\ mwMade + 1 \in Providers /\ mwMade' = mwMade + 1
    /\ mwRow' = [p \in Providers |-> IF p = mwMade' THEN [there |-> TRUE, on |-> on, dflt |-> dflt]
                                    ELSE [mwRow[p] EXCEPT !.dflt = @ /\ ~dflt]]
    /\ mwWasOn' = Noted(mwRow')
    /\ UNCHANGED <<mwTask, mwEdit, mwCall, mwTaskOn, left>>

(* UpdateProvider reads the row first; a flag the patch leaves out is {}.  *)
ReadRow(a) ==
    /\ mwEdit[a] = NoEdit /\ mwEdits < MaxEdits /\ mwEdits' = mwEdits + 1
    /\ \E p \in Providers, dflt, on \in {{}, {TRUE}, {FALSE}} :
          /\ mwRow[p].there
          /\ mwEdit' = [mwEdit EXCEPT ![a] = [p |-> p, wasDflt |-> mwRow[p].dflt, dflt |-> dflt, on |-> on]]
    /\ UNCHANGED <<mwRow, mwTask, mwMade, mwCall, mwWasOn, mwTaskOn, left>>

Set(patch, flag) == IF patch = {} THEN flag ELSE TRUE \in patch
Cleared(e) == [p \in Providers |->
                 CASE p = e.p /\ mwRow[p].there           -> [mwRow[p] EXCEPT !.dflt = Set(e.dflt, @), !.on = Set(e.on, @)]
                   [] e.dflt = {TRUE} /\ ~e.wasDflt /\ p # e.p -> [mwRow[p] EXCEPT !.dflt = FALSE]
                   [] OTHER                               -> mwRow[p]]
OneDefaultIn(rows) == Cardinality({p \in Providers : rows[p].there /\ rows[p].dflt}) <= 1

(* Mutant of CommitRow: nothing holds the table to one default.            *)
CommitRowUnindexed(a) ==
    /\ mwEdit[a] # NoEdit /\ mwEdit' = [mwEdit EXCEPT ![a] = NoEdit]
    /\ mwRow' = Cleared(mwEdit[a]) /\ mwWasOn' = Noted(mwRow')
    /\ UNCHANGED <<mwTask, mwEdits, mwMade, mwCall, mwTaskOn, left>>

(* ... and clears the other default only if the row read was not one; the  *)
(* partial unique index refuses what that leaves, and a statement that     *)
(* fails rolls everything back.  The row may be gone by now: what was      *)
(* cleared for it stays cleared.                                           *)
CommitRow(a) ==
    /\ mwEdit[a] # NoEdit /\ mwEdit' = [mwEdit EXCEPT ![a] = NoEdit]
    /\ mwRow' \in {mwRow} \union {rows \in {Cleared(mwEdit[a])} : OneDefaultIn(rows)}
    /\ mwWasOn' = Noted(mwRow')
    /\ UNCHANGED <<mwTask, mwEdits, mwMade, mwCall, mwTaskOn, left>>

DeleteProvider(p) ==
    /\ mwRow[p].there /\ mwEdits < MaxEdits /\ mwEdits' = mwEdits + 1
    /\ mwRow' = [mwRow EXCEPT ![p] = Absent] /\ mwWasOn' = Noted(mwRow')
    /\ UNCHANGED <<mwTask, mwEdit, mwMade, mwCall, mwTaskOn, left>>

(* Upsert of the task's row.                                               *)
Upsert ==
    /\ mwEdits < MaxEdits /\ mwEdits' = mwEdits + 1
    /\ \E on \in BOOLEAN, kind \in {"summarizer", "agent"}, sid \in Providers \union {None} :
          mwTask' = [on |-> on, kind |-> kind, sid |-> sid]
    /\ UNCHANGED <<mwRow, mwEdit, mwMade, mwCall, mwWasOn, mwTaskOn, left>>

Asks(kind, sid, own) == [Ready EXCEPT !.pc = "pick", !.kind = kind, !.p = sid, !.pin = sid # None, !.own = own]

(* Mutant of WorkerFor: a disabled task is given the default worker.       *)
WorkerForAny(c) == mwCall' = [mwCall EXCEPT ![c] = Asks(mwTask.kind, mwTask.sid, FALSE)]

(* Registry.Run: WorkerFor refuses a disabled task.                        *)
WorkerFor(c) ==
    mwCall' = [mwCall EXCEPT ![c] = IF mwTask.on THEN Asks(mwTask.kind, mwTask.sid, FALSE) ELSE [Ready EXCEPT !.pc = "refused"]]

EnabledNow(c) == mwWasOn' = [mwWasOn EXCEPT ![c] = {p \in Providers : mwRow[p].there /\ mwRow[p].on}]

Begin(c) ==
    /\ mwCall[c].pc = "idle" /\ WorkerFor(c) /\ EnabledNow(c) /\ mwTaskOn' = [mwTaskOn EXCEPT ![c] = mwTask.on]
    /\ UNCHANGED <<tables, left>>

(* RunWith: the configuration is the caller's, Enabled is ignored.         *)
BeginOwn(c) ==
    /\ mwCall[c].pc = "idle" /\ EnabledNow(c)
    /\ \E kind \in {"summarizer", "agent"}, sid \in Providers \union {None} :
          mwCall' = [mwCall EXCEPT ![c] = Asks(kind, sid, TRUE)]
    /\ UNCHANGED <<tables, mwTaskOn, left>>

Goes(c, pc) == mwCall' = [mwCall EXCEPT ![c].pc = pc]
Fail(c) == mwCall' = [mwCall EXCEPT ![c].pc = "record", ![c].ok = FALSE]

(* pickProvider: the pinned row, or the default of the enabled rows ...    *)
PickProvider(c) ==
    LET p == IF mwCall[c].pin THEN mwCall[c].p ELSE Pick IN
    /\ mwCall[c].pc = "pick" /\ mwCall[c].kind = "summarizer"
    /\ \/ Fail(c)
       \/ p # None /\ mwCall' = [mwCall EXCEPT ![c].pc = "build", ![c].p = p]
    /\ UNCHANGED <<tables, mwWasOn, mwTaskOn, left>>

(* ... is built, which reads it again and decrypts its key ...             *)
Build(c) ==
    /\ mwCall[c].pc = "build"
    /\ \/ Fail(c)
       \/ mwCall[c].p \in Enabled /\ Goes(c, "reread")
    /\ UNCHANGED <<tables, mwWasOn, mwTaskOn, left>>

(* ... then taken from the list, whose rows carry no decrypted key.  One   *)
(* that is not pinned and not found there is used as it was picked.        *)
Reread(c) ==
    /\ mwCall[c].pc = "reread"
    /\ \/ mwCall[c].pin /\ Fail(c)
       \/ (~mwCall[c].pin \/ mwCall[c].p \in Enabled) /\ mwCall' = [mwCall EXCEPT ![c].pc = "call", ![c].key = FALSE]
    /\ UNCHANGED <<tables, mwWasOn, mwTaskOn, left>>

(* One request: an answer, or an error, a status or the timeout.           *)
Request(c) ==
    /\ mwCall[c].pc = "call"
    /\ Fail(c) \/ mwCall' = [mwCall EXCEPT ![c].pc = "record", ![c].ok = TRUE]
    /\ UNCHANGED <<tables, mwWasOn, mwTaskOn, left>>

(* AgentWorker.Run: a scratch directory, then the command and its tools;   *)
(* the CLI may start a child that keeps its output open.                   *)
Spawn(c) ==
    /\ mwCall[c].pc = "pick" /\ mwCall[c].kind = "agent"
    /\ \/ Fail(c) /\ UNCHANGED mwDirs
       \/ /\ mwDirs' = mwDirs \union {c}
          /\ \E child \in BOOLEAN : mwCall' = [mwCall EXCEPT ![c].pc = "running", ![c].child = child]
    /\ UNCHANGED <<tables, mwWasOn, mwTaskOn, mwFails, mwRecorded, mwLost>>

(* Mutant of Reap: an agent that fails keeps its scratch directory.        *)
ReapKeeps(c, ok) ==
    /\ mwCall' = [mwCall EXCEPT ![c].pc = "record", ![c].ok = ok] /\ UNCHANGED <<mwFails, mwLost>>
    /\ mwDirs' = IF ok THEN mwDirs \ {c} ELSE mwDirs

(* The deferred RemoveAll runs on every path, its error ignored.           *)
Reap(c, ok) ==
    /\ mwCall' = [mwCall EXCEPT ![c].pc = "record", ![c].ok = ok]
    /\ \/ mwDirs' = mwDirs \ {c} /\ UNCHANGED <<mwFails, mwLost>>
       \/ Fault /\ mwLost' = mwLost \union {<<c, "dir">>} /\ UNCHANGED mwDirs

(* The command cannot be built or started, the CLI exits, or is killed at  *)
(* the timeout; Wait also waits for a child that holds the output.         *)
Exit(c) ==
    /\ mwCall[c].pc = "running" /\ ~mwCall[c].child /\ \E ok \in BOOLEAN : Reap(c, ok)
    /\ UNCHANGED <<tables, mwWasOn, mwTaskOn, mwRecorded>>

ChildExits(c) ==
    /\ mwCall[c].child /\ mwCall' = [mwCall EXCEPT ![c].child = FALSE]
    /\ UNCHANGED <<tables, mwWasOn, mwTaskOn, left>>

(* Mutant of RecordCall: the call waits for a row that fails to be written. *)
RecordCallWaits(c) ==
    /\ mwCall[c].pc = "record" /\ mwCall[c].ok /\ Goes(c, "done") /\ mwRecorded' = mwRecorded \union {c}
    /\ UNCHANGED <<tables, mwWasOn, mwTaskOn, mwFails, mwDirs, mwLost>>

(* runWorker writes the metrics row under a context of its own; an error   *)
(* is dropped.                                                             *)
RecordCall(c) ==
    /\ mwCall[c].pc = "record" /\ Goes(c, "done")
    /\ \/ mwRecorded' = mwRecorded \union {c} /\ UNCHANGED <<mwFails, mwLost>>
       \/ Fault /\ mwLost' = mwLost \union {<<c, "row">>} /\ UNCHANGED mwRecorded
    /\ UNCHANGED <<tables, mwWasOn, mwTaskOn, mwDirs>>

Step(c) == PickProvider(c) \/ Build(c) \/ Reread(c) \/ Request(c) \/ Spawn(c) \/ Exit(c) \/ RecordCall(c)

Next ==
    \/ \E a \in Admins : ReadRow(a) \/ CommitRow(a)
    \/ \E p \in Providers : DeleteProvider(p)
    \/ \E on, dflt \in BOOLEAN : InsertProvider(on, dflt)
    \/ Upsert
    \/ \E c \in Calls : Begin(c) \/ BeginOwn(c) \/ Step(c) \/ ChildExits(c)

(* A call goes on, its requests are bounded by a timeout, and a child of   *)
(* the CLI ends at some time.                                              *)
Fairness == \A c \in Calls : WF_vars(Step(c)) /\ WF_vars(ChildExits(c))

Spec == Init /\ [][Next]_vars /\ Fairness

TypeOK ==
    /\ mwRow \in [Providers -> [there : BOOLEAN, on : BOOLEAN, dflt : BOOLEAN]]
    /\ mwTask \in [on : BOOLEAN, kind : {"summarizer", "agent"}, sid : Providers \union {None}]
    /\ \A c \in Calls : mwCall[c].pc \in {"idle", "pick", "build", "reread", "call", "running", "record", "done", "refused"}

(* Two edits that race on the default flag never leave two defaults.       *)
OneDefault == OneDefaultIn(mwRow)

(* The two places that look for "the default provider", the summarizer's   *)
(* and the registry's, agree on it whatever is edited and disabled.        *)
ResolversAgree == Pick = Default

(* A request goes to a row that was enabled at some time of the call.      *)
DisabledNotCalled == \A c \in Calls : mwCall[c].pc = "call" => mwCall[c].p \in mwWasOn[c]

(* A task the operator switched off makes no call at all, not even through *)
(* a fallback, but for callers that bring their own configuration.         *)
SwitchedOffIsSilent == \A c \in Calls : mwCall[c].pc \notin {"idle", "refused"} /\ ~mwCall[c].own => mwTaskOn[c]

(* Every call that ran leaves its metrics row and no scratch directory,    *)
(* whatever failed but the insert of that row or the removal itself.       *)
CallsLeaveOnlyTheirRow ==
    \A c \in Calls : mwCall[c].pc = "done" =>
       (c \in mwRecorded \/ <<c, "row">> \in mwLost) /\ (c \notin mwDirs \/ <<c, "dir">> \in mwLost)

(* Every call comes to an end.                                             *)
CallEnds == \A c \in Calls : (mwCall[c].pc = "pick") ~> (mwCall[c].pc = "done")

(* What the comments say: the row a request is made from carries the       *)
(* decrypted key of its provider.                                          *)
KeySent == \A c \in Calls : (mwCall[c].pc = "call" /\ mwCall[c].p \in Keyed) => mwCall[c].key
=============================================================================
