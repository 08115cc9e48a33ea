------------------------------- MODULE DBTool --------------------------------
(***************************************************************************)
(* The database tool (dbtool/dbtool.go, handler.go, classify.go, the       *)
(* drivers): one registered connection, requests of agents and of the      *)
(* operator that resolve it, open or reuse its pool and run a statement or *)
(* delete rows, an administrator who edits or deletes it meanwhile, and    *)
(* the idle eviction.  A statement is its sequence of tokens, a target     *)
(* database its set of rows and how often statements changed it.           *)
(***************************************************************************)
EXTENDS Naturals, Sequences, FiniteSets

CONSTANTS
    Reqs,         \* requests under way
    Statements,   \* token sequences the console may send
    Drivers,      \* drivers a connection may have
    Rows,         \* rows a delete names
    MaxCfg,       \* bound: targets the connection is pointed at
    MaxHandles,   \* bound: pools ever opened
    MaxCalls,     \* bound: requests
    MaxFails      \* bound: statements that fail in the database

VARIABLES
    dtDriver,     \* the connection's driver
    dtRow,        \* db_connections: [cfg, ro], cfg 0 once deleted
    dtPool,       \* Service.pools of the connection: a handle or 0
    dtHandles,    \* handle -> [cfg, open]
    dtMu,         \* who waits, under Service.mu, for a pool to close
    dtAdmin,      \* the administrator's edit: idle or invalidate
    dtReq,        \* request -> [pc, kind, stmt, may, ro, cfg, handle, left, gone]
    dtData,       \* target -> [rows, changes]
    dtClosed,     \* the service is shut down
    dtNext, dtCalls, dtFails,
    dtOverlap     \* history: handles opened by a request that read the row before an edit

vars == <<dtDriver, dtRow, dtPool, dtHandles, dtMu, dtAdmin, dtReq, dtData, dtClosed, dtNext, dtCalls, dtFails, dtOverlap>>

Handles == 1..MaxHandles
Idle == [pc |-> "idle", kind |-> "", stmt |-> <<>>, may |-> FALSE, ro |-> FALSE, cfg |-> 0, handle |-> 0, left |-> {},
         gone |-> {}]

Init ==
    /\ dtDriver \in Drivers /\ dtRow = [cfg |-> 1, ro |-> FALSE] /\ dtPool = 0
    /\ dtHandles = [h \in Handles |-> [cfg |-> 0, open |-> FALSE]] /\ dtMu = "free" /\ dtAdmin = "idle"
    /\ dtReq = [r \in Reqs |-> Idle] /\ dtData = [c \in 1..MaxCfg |-> [rows |-> Rows, changes |-> 0]]
    /\ dtClosed = FALSE /\ dtNext = 1 /\ dtCalls = 0 /\ dtFails = 0 /\ dtOverlap = {}

(* classify.go: the keyword tables.                                        *)
TxnKeywords == {"COMMIT"}
ReadLeaders == {"SELECT", "SHOW"}
WriteKeywords == {"INSERT", "DELETE"}
Has(s, tokens) == \E i \in 1..Len(s) : s[i] \in tokens

(* classifyExplain skips an option list in parentheses and bare ANALYZE    *)
(* and VERBOSE; <<i, analyze>> is where the inner statement begins.        *)
AfterOptions(s) ==
    LET close == IF Len(s) > 0 /\ s[1] = "(" THEN CHOOSE i \in 1..Len(s) : s[i] = ")" /\ \A j \in 1..(i - 1) : s[j] # ")" ELSE 0
        bare == {i \in (close + 1)..Len(s) : \A j \in (close + 1)..i : s[j] \in {"ANALYZE", "VERBOSE"}}
        start == close + Cardinality(bare) + 1
    IN <<start, \E j \in 1..(start - 1) : s[j] = "ANALYZE">>

RECURSIVE Class(_)
Class(s) ==
    LET t == IF s # <<>> /\ s[Len(s)] = ";" THEN SubSeq(s, 1, Len(s) - 1) ELSE s
        rest == IF t = <<>> THEN <<>> ELSE Tail(t)
    IN CASE t = <<>> -> "error"
         [] Has(t, {";"}) -> "error"
         [] t[1] \in TxnKeywords -> "error"
         [] t[1] \in ReadLeaders -> "read"
         [] t[1] = "EXPLAIN" -> IF rest = <<>> THEN "error"
                                ELSE IF ~AfterOptions(rest)[2] THEN "read"
                                ELSE Class(SubSeq(rest, AfterOptions(rest)[1], Len(rest)))
         [] t[1] = "WITH" -> IF Has(rest, WriteKeywords) THEN "write" ELSE "read"
         [] OTHER -> "write"

(* Mutant of Classify: EXPLAIN is taken to plan only.                      *)
ClassifyExplainPlans(s) == IF s # <<>> /\ s[1] = "EXPLAIN" THEN "read" ELSE Class(s)
Classify(s) == Class(s)

(* What the database would do: whether running the statement changes data. *)
(* A select does through a function f, a plan does not.                    *)
Changes(s) ==
    IF s[1] = "EXPLAIN"
    THEN AfterOptions(Tail(s))[2] /\ Has(s, WriteKeywords \union {"f", "CREATE"})
    ELSE Has(s, WriteKeywords \union {"f", "CREATE", "CALL"})

(* Mutant of Fenced: reads run like everything else.                       *)
FencedNot(class) == FALSE
(* A read runs in a read-only transaction, or on sqlite's read-only pool,  *)
(* where a change is an error.                                             *)
Fenced(class) == class = "read"

(* A request: requireConnCwd, requireScope, then Query or DeleteRows       *)
(* resolves the row.                                                       *)
Begin(r, kind, s, may) ==
    /\ dtReq[r].pc = "idle" /\ dtCalls < MaxCalls /\ dtCalls' = dtCalls + 1 /\ dtRow.cfg # 0
    /\ kind = "delete" => may
    /\ kind = "query" => Classify(s) # "error"
    /\ dtReq' = [dtReq EXCEPT ![r] = [Idle EXCEPT !.pc = "handle", !.kind = kind, !.stmt = s, !.may = may,
                                      !.ro = dtRow.ro, !.cfg = dtRow.cfg]]
    /\ UNCHANGED <<dtDriver, dtRow, dtPool, dtHandles, dtMu, dtAdmin, dtData, dtClosed, dtNext, dtFails, dtOverlap>>

Lock == dtMu = "free"

(* After withConn the write gate: the caller's scope, the read_only flag.  *)
Gated(q) == IF q.kind = "delete" THEN q.ro ELSE Classify(q.stmt) # "read" /\ (~q.may \/ q.ro)
Resolved(q, h) == IF Gated(q) THEN Idle ELSE [q EXCEPT !.pc = "run", !.handle = h, !.left = IF q.kind = "delete" THEN Rows ELSE {}]

(* Service.handle: the cached pool, or ...                                 *)
HandleHit(r) ==
    /\ dtReq[r].pc = "handle" /\ Lock /\ dtPool # 0
    /\ dtReq' = [dtReq EXCEPT ![r] = Resolved(@, dtPool)]
    /\ UNCHANGED <<dtDriver, dtRow, dtPool, dtHandles, dtMu, dtAdmin, dtData, dtClosed, dtNext, dtCalls, dtFails, dtOverlap>>

(* ... one opened, outside the lock, with the row that was read, ...       *)
HandleOpen(r) ==
    /\ dtReq[r].pc = "handle" /\ Lock /\ dtPool = 0 /\ dtNext <= MaxHandles /\ dtNext' = dtNext + 1
    /\ dtHandles' = [dtHandles EXCEPT ![dtNext] = [cfg |-> dtReq[r].cfg, open |-> TRUE]]
    /\ dtReq' = [dtReq EXCEPT ![r].pc = "store", ![r].handle = dtNext]
    /\ UNCHANGED <<dtDriver, dtRow, dtPool, dtMu, dtAdmin, dtData, dtClosed, dtCalls, dtFails, dtOverlap>>

(* Mutant of HandleStore: the handle that lost the race stays open.        *)
HandleStoreLeaks(r) ==
    LET h == dtReq[r].handle IN
    /\ dtReq[r].pc = "store" /\ Lock
    /\ dtPool' = (IF dtPool = 0 THEN h ELSE dtPool) /\ UNCHANGED dtHandles
    /\ dtReq' = [dtReq EXCEPT ![r] = Resolved(@, dtPool')]
    /\ dtOverlap' = IF dtReq[r].cfg = dtRow.cfg THEN dtOverlap ELSE dtOverlap \union {h}
    /\ UNCHANGED <<dtDriver, dtRow, dtMu, dtAdmin, dtData, dtClosed, dtNext, dtCalls, dtFails>>

(* ... and cached, unless another request was first.                       *)
HandleStore(r) ==
    LET h == dtReq[r].handle IN
    /\ dtReq[r].pc = "store" /\ Lock
    /\ IF dtPool = 0 THEN dtPool' = h /\ UNCHANGED dtHandles
       ELSE dtHandles' = [dtHandles EXCEPT ![h].open = FALSE] /\ UNCHANGED dtPool
    /\ dtReq' = [dtReq EXCEPT ![r] = Resolved(@, dtPool')]
    /\ dtOverlap' = IF dtReq[r].cfg = dtRow.cfg /\ ~dtClosed THEN dtOverlap ELSE dtOverlap \union {h}
    /\ UNCHANGED <<dtDriver, dtRow, dtMu, dtAdmin, dtData, dtClosed, dtNext, dtCalls, dtFails>>

Ends(r) == dtReq' = [dtReq EXCEPT ![r] = Idle]

(* The statement runs in its transaction; on a closed pool it fails.       *)
Run(r) ==
    LET q == dtReq[r] IN
    /\ q.pc = "run" /\ q.kind = "query" /\ Ends(r)
    /\ dtData' = IF dtHandles[q.handle].open /\ Changes(q.stmt) /\ ~Fenced(Classify(q.stmt))
                 THEN [dtData EXCEPT ![dtHandles[q.handle].cfg].changes = 1] ELSE dtData
    /\ UNCHANGED <<dtDriver, dtRow, dtPool, dtHandles, dtMu, dtAdmin, dtClosed, dtNext, dtCalls, dtFails, dtOverlap>>

(* Mutant of OneTransaction: every driver deletes row by row.              *)
OneTransactionNever == FALSE
(* postgres deletes the rows in one transaction, the others each in its    *)
(* own.                                                                    *)
OneTransaction == dtDriver = "postgres"

(* The next row of a delete; a failure ends the request with an error, and *)
(* so does a pool closed meanwhile, which postgres' Close waits with.      *)
DeleteRow(r, x) ==
    LET q == dtReq[r]  c == dtHandles[q.handle].cfg IN
    /\ q.pc = "run" /\ q.kind = "delete" /\ x \in q.left
    /\ \/ /\ dtHandles[q.handle].open /\ UNCHANGED dtFails
          /\ dtReq' = [dtReq EXCEPT ![r].left = @ \ {x}, ![r].gone = @ \union {x}]
          /\ dtData' = IF OneTransaction THEN dtData ELSE [dtData EXCEPT ![c].rows = @ \ {x}]
       \/ /\ (dtFails < MaxFails /\ dtFails' = dtFails + 1) \/ (~dtHandles[q.handle].open /\ UNCHANGED dtFails)
          /\ dtReq' = [dtReq EXCEPT ![r] = [Idle EXCEPT !.pc = "failed", !.gone = IF OneTransaction THEN {} ELSE q.gone]]
          /\ UNCHANGED dtData
    /\ UNCHANGED <<dtDriver, dtRow, dtPool, dtHandles, dtMu, dtAdmin, dtClosed, dtNext, dtCalls, dtOverlap>>
DeleteEnds(r) ==
    LET q == dtReq[r] IN
    /\ \/ /\ q.pc = "run" /\ q.kind = "delete" /\ q.left = {}
          /\ dtData' = [dtData EXCEPT ![dtHandles[q.handle].cfg].rows = @ \ q.gone]
       \/ q.pc = "failed" /\ UNCHANGED dtData
    /\ Ends(r)
    /\ UNCHANGED <<dtDriver, dtRow, dtPool, dtHandles, dtMu, dtAdmin, dtClosed, dtNext, dtCalls, dtFails, dtOverlap>>

(* UpdateConnection writes the row, then closes the cached pool; ...       *)
Update(ro) ==
    /\ dtAdmin = "idle" /\ dtRow.cfg # 0 /\ dtRow.cfg < MaxCfg /\ dtAdmin' = "invalidate"
    /\ dtRow' = [cfg |-> dtRow.cfg + 1, ro |-> ro]
    /\ UNCHANGED <<dtDriver, dtPool, dtHandles, dtMu, dtReq, dtData, dtClosed, dtNext, dtCalls, dtFails, dtOverlap>>
DeleteConnection ==
    /\ dtAdmin = "idle" /\ dtRow.cfg # 0 /\ dtAdmin' = "invalidate" /\ dtRow' = [dtRow EXCEPT !.cfg = 0]
    /\ UNCHANGED <<dtDriver, dtPool, dtHandles, dtMu, dtReq, dtData, dtClosed, dtNext, dtCalls, dtFails, dtOverlap>>

(* A delete of postgres holds a connection that Close waits for.           *)
Busy(h) == dtDriver = "postgres" /\ \E r \in Reqs : dtReq[r].pc = "run" /\ dtReq[r].kind = "delete" /\ dtReq[r].handle = h /\ dtReq[r].gone # {}

ClosePool == /\ dtPool' = 0
             /\ dtHandles' = IF dtPool = 0 THEN dtHandles ELSE [dtHandles EXCEPT ![dtPool].open = FALSE]

(* Mutant of Invalidate: the pool of an edited connection stays.           *)
InvalidateNot ==
    /\ dtAdmin = "invalidate" /\ Lock /\ dtAdmin' = "idle"
    /\ UNCHANGED <<dtDriver, dtRow, dtPool, dtHandles, dtMu, dtReq, dtData, dtClosed, dtNext, dtCalls, dtFails, dtOverlap>>

(* ... which waits, with the lock held, for what runs on it.               *)
Invalidate ==
    /\ dtAdmin = "invalidate"
    /\ IF dtPool # 0 /\ Busy(dtPool)
       THEN dtMu = "free" /\ dtMu' = "admin" /\ UNCHANGED <<dtAdmin, dtPool, dtHandles>>
       ELSE dtMu' = "free" /\ dtAdmin' = "idle" /\ ClosePool
    /\ UNCHANGED <<dtDriver, dtRow, dtReq, dtData, dtClosed, dtNext, dtCalls, dtFails, dtOverlap>>

(* evictLoop: a pool nobody used for the TTL, which is longer than a       *)
(* request may take.                                                       *)
Evict ==
    /\ Lock /\ dtPool # 0 /\ ~dtClosed /\ (\A r \in Reqs : dtReq[r].handle # dtPool) /\ ClosePool
    /\ UNCHANGED <<dtDriver, dtRow, dtMu, dtAdmin, dtReq, dtData, dtClosed, dtNext, dtCalls, dtFails, dtOverlap>>

(* Service.Close.                                                          *)
Close ==
    /\ Lock /\ ~dtClosed /\ (dtPool # 0 => ~Busy(dtPool)) /\ dtClosed' = TRUE /\ ClosePool
    /\ UNCHANGED <<dtDriver, dtRow, dtMu, dtAdmin, dtReq, dtData, dtNext, dtCalls, dtFails, dtOverlap>>

Next ==
    \/ \E r \in Reqs, may \in BOOLEAN : \/ \E s \in Statements : Begin(r, "query", s, may)
                                        \/ Begin(r, "delete", <<>>, may)
    \/ \E r \in Reqs : HandleHit(r) \/ HandleOpen(r) \/ HandleStore(r) \/ Run(r) \/ DeleteEnds(r)
    \/ \E r \in Reqs, x \in Rows : DeleteRow(r, x)
    \/ \E ro \in BOOLEAN : Update(ro)
    \/ DeleteConnection \/ Invalidate \/ Evict \/ Close

Spec == Init /\ [][Next]_vars

TypeOK ==
    /\ dtPool \in 0..MaxHandles /\ dtMu \in {"free", "admin"} /\ dtAdmin \in {"idle", "invalidate"}
    /\ \A r \in Reqs : dtReq[r].pc \in {"idle", "handle", "store", "run", "failed"}
    /\ dtRow.cfg \in 0..MaxCfg

Quiet == dtAdmin = "idle" /\ \A r \in Reqs : dtReq[r].pc = "idle"

(* What one step may do, for OnlyAuthorizedWrites.                         *)
OnlyAuthorizedWritesStep ==
    dtData' # dtData => \E r \in Reqs : dtReq[r].pc = "run" /\ dtReq'[r] # dtReq[r] /\ dtReq[r].may /\ ~dtReq[r].ro

(* Data changes only by a request with the write scope on a connection it  *)
(* read as writable: a statement the classifier takes for a read changes   *)
(* nothing, whatever it calls.                                             *)
OnlyAuthorizedWrites == [][OnlyAuthorizedWritesStep]_vars

(* Classify never takes for a read what changes data by its own verbs.     *)
ReadsAreReads == \A s \in Statements : Classify(s) = "read" /\ ~Has(s, {"f"}) => ~Changes(s)

(* No pool is left open that is not cached, however the requests that open *)
(* them, the edits, the eviction and the shutdown interleave.              *)
NoLeakedPool == Quiet => \A h \in Handles : dtHandles[h].open => h = dtPool

(* The cached pool goes to the database the row names, unless a request    *)
(* had read the row before the edit and cached its pool after it.          *)
PoolFollowsRow == Quiet /\ dtPool # 0 /\ dtPool \notin dtOverlap => dtHandles[dtPool].cfg = dtRow.cfg

(* On postgres a delete that reports an error has deleted nothing.         *)
DeleteAllOrNothing ==
    \A r \in Reqs : dtDriver = "postgres" /\ dtReq[r].pc = "failed" => dtReq[r].gone = {}

(* dbtool.go:68: the handles are "closed on idle-eviction, update, delete  *)
(* and shutdown": none outlives the edit it was opened before.             *)
NoStalePool == Quiet /\ dtPool # 0 => dtHandles[dtPool].cfg = dtRow.cfg
=============================================================================
