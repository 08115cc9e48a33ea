----------------------------- MODULE AuditTrail ------------------------------
(***************************************************************************)
(* The two append-only logs and their readers (audit/sink.go, service.go,  *)
(* handler.go; integration/calllog.go Query and calllog_http.go list).     *)
(* One consumer per subscribed topic inserts rows, each as a transaction   *)
(* whose id is taken before it commits; a reader pages newest first with   *)
(* the last id as its cursor while rows go on arriving.                    *)
(***************************************************************************)
EXTENDS Integers, Sequences, FiniteSets, FiniteSetsExt

CONSTANTS
    Topics,     \* subscribedPatterns
    Buffer,     \* subscriberBuffer
    MaxEvents,  \* bound: events published
    Limit,      \* page size
    Wanted      \* topics the reader's filter lets through

VARIABLES
    atSent,     \* events published, each event's topic in order
    atBuf,      \* atBuf[t]: the bus buffer of topic t, event numbers
    atTx,       \* atTx[t]: the insert under way [ev, id] or NoTx
    atSeq,      \* last value of the id sequence
    atRows,     \* committed rows: [id, ev]
    atRead      \* the reader: [pc, cursor, got (ids in order), base]

vars == <<atSent, atBuf, atTx, atSeq, atRows, atRead>>

NoTx == [ev |-> 0, id |-> 0]

Init ==
    /\ atSent = <<>> /\ atBuf = [t \in Topics |-> <<>>] /\ atTx = [t \in Topics |-> NoTx]
    /\ atSeq = 0 /\ atRows = {} /\ atRead = [pc |-> "idle", cursor |-> 0, got |-> <<>>, base |-> {}]

(* Hub.Publish: a full buffer loses the event.                             *)
Publish(t) ==
    /\ Len(atSent) < MaxEvents /\ atSent' = Append(atSent, t)
    /\ atBuf' = IF Len(atBuf[t]) < Buffer THEN [atBuf EXCEPT ![t] = Append(@, Len(atSent) + 1)] ELSE atBuf
    /\ UNCHANGED <<atTx, atSeq, atRows, atRead>>

(* Mutant of Insert: the rows of a topic are written concurrently, newest  *)
(* first.                                                                  *)
InsertLast(t) ==
    /\ atTx[t] = NoTx /\ atBuf[t] # <<>> /\ atSeq' = atSeq + 1
    /\ atTx' = [atTx EXCEPT ![t] = [ev |-> atBuf[t][Len(atBuf[t])], id |-> atSeq + 1]]
    /\ atBuf' = [atBuf EXCEPT ![t] = SubSeq(@, 1, Len(@) - 1)]
    /\ UNCHANGED <<atSent, atRows, atRead>>

(* Sink.consume takes the next event of its topic and write begins its     *)
(* INSERT; ...                                                             *)
Insert(t) ==
    /\ atTx[t] = NoTx /\ atBuf[t] # <<>> /\ atSeq' = atSeq + 1
    /\ atTx' = [atTx EXCEPT ![t] = [ev |-> Head(atBuf[t]), id |-> atSeq + 1]]
    /\ atBuf' = [atBuf EXCEPT ![t] = Tail(@)]
    /\ UNCHANGED <<atSent, atRows, atRead>>

(* ... it commits, or fails and leaves a hole in the ids.                  *)
Commit(t) ==
    /\ atTx[t] # NoTx /\ atTx' = [atTx EXCEPT ![t] = NoTx]
    /\ \/ atRows' = atRows \union {[id |-> atTx[t].id, ev |-> atTx[t].ev]}
       \/ UNCHANGED atRows
    /\ UNCHANGED <<atSent, atBuf, atSeq, atRead>>

(* Mutant of Matching: the cursor row is returned again.                   *)
MatchingInclusive(cursor) ==
    {r.id : r \in {x \in atRows : atSent[x.ev] \in Wanted /\ (cursor = 0 \/ x.id <= cursor)}}

(* buildQuery and buildCallQuery: the filters, and id < cursor.            *)
Matching(cursor) ==
    {r.id : r \in {x \in atRows : atSent[x.ev] \in Wanted /\ (cursor = 0 \/ x.id < cursor)}}

Newest(S, n) == {i \in S : Cardinality({j \in S : j > i}) < n}

(* Mutant of NextCursor: a full page ends the list.                        *)
NextCursorNever(page) == 0

(* Query: a full page names its last id, a short one is the tail.          *)
NextCursor(page) == IF Cardinality(page) = Limit THEN Min(page) ELSE 0

Descending(S) == CHOOSE q \in [1..Cardinality(S) -> S] :
                    \A i, j \in 1..Cardinality(S) : i < j => q[i] > q[j]

(* The list handlers: one request reads one page.                          *)
ReadPage ==
    LET page == Newest(Matching(atRead.cursor), Limit)
        next == NextCursor(page)
    IN
    /\ atRead.pc # "done"
    /\ atRead' = [pc |-> IF next = 0 THEN "done" ELSE "paging", cursor |-> next,
                  got |-> atRead.got \o Descending(page),
                  base |-> IF atRead.pc = "idle"
                           THEN {r.id : r \in {x \in atRows : atSent[x.ev] \in Wanted}} ELSE atRead.base]
    /\ UNCHANGED <<atSent, atBuf, atTx, atSeq, atRows>>

Next == ReadPage \/ \E t \in Topics : Publish(t) \/ Insert(t) \/ Commit(t)
Spec == Init /\ [][Next]_vars

TypeOK == atRead.pc \in {"idle", "paging", "done"} /\ \A t \in Topics : Len(atBuf[t]) <= Buffer

(* A reader that reaches the end has seen every row there was when it      *)
(* began, however many rows are committed between its pages.               *)
PagesComplete == atRead.pc = "done" => atRead.base \subseteq {atRead.got[k] : k \in 1..Len(atRead.got)}

(* No row is shown twice, and every row is older than the one above it.    *)
PagesDescend == \A j, k \in 1..Len(atRead.got) : j < k => atRead.got[j] > atRead.got[k]

(* Rows of one topic are in the order of publication, although consumers   *)
(* of several topics insert side by side.                                  *)
TopicOrder == \A r, q \in atRows : atSent[r.ev] = atSent[q.ev] /\ r.id < q.id => r.ev < q.ev
=============================================================================
