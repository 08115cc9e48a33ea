------------------------------ MODULE EventBus ------------------------------
(***************************************************************************)
(* The in-process publish/subscribe hub of internal/eventbus/bus.go.       *)
(* Publish runs under the read lock, so publishers interleave with each    *)
(* other, one channel send at a time, but never with Subscribe,            *)
(* unsubscribe or Close, which hold the write lock.  A topic is the        *)
(* sequence of its dot-separated segments.                                 *)
(***************************************************************************)
EXTENDS Naturals, SequencesExt, TLAPS

CONSTANTS
    SubIds,       \* subscriptions that may be made, each at most once
    Pattern,      \* Pattern[s]: the pattern s subscribes with
    Publishers,   \* goroutines that publish
    Topics,       \* topics they publish
    Buffer,       \* capacity of a subscriber's channel
    MaxEvents     \* bound: events a publisher publishes

VARIABLES
    subs,         \* Hub.subs, in order of subscription
    closed,       \* Hub.closed
    ch,           \* ch[s]: what the channel of s holds
    chState,      \* "none", "open" or "closed"
    visit,        \* visit[p]: [topic, n, next] while p is in Publish
    count,        \* count[p]: events p has published
    reader,       \* "none", "reading" or "done"
    got,          \* history: the events the reader of s received
    late,         \* history: subscriptions made after Close
    panic         \* a send on, or a second close of, a closed channel

vars == <<subs, closed, ch, chState, visit, count, reader, got, late, panic>>

NoVisit == [topic |-> <<>>, n |-> 0, next |-> 0]

Init ==
    /\ subs = <<>> /\ closed = FALSE
    /\ ch = [s \in SubIds |-> <<>>] /\ chState = [s \in SubIds |-> "none"]
    /\ visit = [p \in Publishers |-> NoVisit] /\ count = [p \in Publishers |-> 0]
    /\ reader = [s \in SubIds |-> "none"] /\ got = [s \in SubIds |-> <<>>]
    /\ late = {} /\ panic = FALSE

(* "a.*" matches what begins with "a.", "*" everything, else equality.     *)
Match(pattern, topic) ==
    \/ pattern = topic
    \/ Len(pattern) > 1 /\ Last(pattern) = "*" /\ IsStrictPrefix(Front(pattern), topic)
    \/ pattern = <<"*">>

Publishing(p) == visit[p] # NoVisit

(* Nobody holds the read lock.                                             *)
WriteLock == \A p \in Publishers : ~Publishing(p)

(* Publish takes the read lock; a closed hub takes no events.              *)
BeginPublish(p, topic) ==
    /\ ~Publishing(p) /\ count[p] < MaxEvents
    /\ count' = [count EXCEPT ![p] = @ + 1]
    /\ visit' = IF closed \/ subs = <<>> THEN visit
                ELSE [visit EXCEPT ![p] = [topic |-> topic, n |-> count[p] + 1, next |-> 1]]
    /\ UNCHANGED <<subs, closed, ch, chState, reader, got, late, panic>>

(* The select of Publish: a full channel drops this event.                 *)
Offered(queue, event) ==
    IF Len(queue) < Buffer THEN Append(queue, event) ELSE queue

(* One round of the loop over the subscriptions.                           *)
PublishTo(p) ==
    /\ Publishing(p)
    /\ LET v == visit[p]
           s == subs[v.next]
       IN /\ IF Match(Pattern[s], v.topic)
               THEN /\ ch' = [ch EXCEPT ![s] = Offered(@, <<p, v.n>>)]
                    /\ panic' = (panic \/ chState[s] = "closed")
               ELSE UNCHANGED <<ch, panic>>
          /\ visit' = [visit EXCEPT ![p] = IF v.next = Len(subs) THEN NoVisit
                                           ELSE [v EXCEPT !.next = @ + 1]]
    /\ UNCHANGED <<subs, closed, chState, count, reader, got, late>>

(* Subscribe does not look at closed.                                      *)
Subscribe(s) ==
    /\ WriteLock /\ chState[s] = "none"
    /\ subs' = Append(subs, s)
    /\ chState' = [chState EXCEPT ![s] = "open"]
    /\ reader' = [reader EXCEPT ![s] = "reading"]
    /\ late' = IF closed THEN late \union {s} ELSE late
    /\ UNCHANGED <<closed, ch, visit, count, got, panic>>

(* Mutant of Unsubscribe: without the write lock.                          *)
UnsubscribeUnlocked(s) ==
    /\ s \in Range(subs)
    /\ subs' = SelectSeq(subs, LAMBDA x : x # s)
    /\ chState' = [chState EXCEPT ![s] = "closed"]
    /\ visit' = [p \in Publishers |-> IF subs' = <<>> THEN NoVisit ELSE
                    [visit[p] EXCEPT !.next = IF @ > Len(subs') THEN Len(subs') ELSE @]]
    /\ UNCHANGED <<closed, ch, count, reader, got, late, panic>>

(* unsubscribe, by the subscriber, at any time and any number of times:    *)
(* the channel is closed only if the subscription is still in the list.    *)
Unsubscribe(s) ==
    /\ WriteLock
    /\ \E i \in DOMAIN subs : subs[i] = s /\ subs' = RemoveAt(subs, i)
    /\ chState' = [chState EXCEPT ![s] = "closed"]
    /\ panic' = (panic \/ chState[s] = "closed")
    /\ UNCHANGED <<closed, ch, visit, count, reader, got, late>>

(* Mutant of Close: the list is kept.                                      *)
CloseKeepsList ==
    /\ WriteLock /\ ~closed
    /\ closed' = TRUE
    /\ chState' = [s \in SubIds |-> IF s \in Range(subs) THEN "closed" ELSE chState[s]]
    /\ UNCHANGED <<subs, ch, visit, count, reader, got, late, panic>>

(* Mutant of Close: the channels are left open.                            *)
CloseLeavesOpen ==
    /\ WriteLock /\ ~closed
    /\ closed' = TRUE /\ subs' = <<>>
    /\ UNCHANGED <<ch, chState, visit, count, reader, got, late, panic>>

Close ==
    /\ WriteLock /\ ~closed
    /\ closed' = TRUE /\ subs' = <<>>
    /\ chState' = [s \in SubIds |-> IF s \in Range(subs) THEN "closed" ELSE chState[s]]
    /\ panic' = (panic \/ \E s \in Range(subs) : chState[s] = "closed")
    /\ UNCHANGED <<ch, visit, count, reader, got, late>>

(* The loops of the subscribers (runOutbound, the event streams, ...):     *)
(* receive until the channel is closed and empty.                          *)
Receive(s) ==
    /\ reader[s] = "reading"
    /\ \/ /\ ch[s] # <<>>
          /\ got' = [got EXCEPT ![s] = Append(@, Head(ch[s]))]
          /\ ch' = [ch EXCEPT ![s] = Tail(@)]
          /\ UNCHANGED reader
       \/ /\ ch[s] = <<>> /\ chState[s] = "closed"
          /\ reader' = [reader EXCEPT ![s] = "done"]
          /\ UNCHANGED <<ch, got>>
    /\ UNCHANGED <<subs, closed, chState, visit, count, late, panic>>

Next ==
    \/ \E p \in Publishers : PublishTo(p) \/ \E t \in Topics : BeginPublish(p, t)
    \/ \E s \in SubIds : Subscribe(s) \/ Unsubscribe(s) \/ Receive(s)
    \/ Close

Spec == Init /\ [][Next]_vars

(* Goroutines run; nobody has to publish, unsubscribe or close.            *)
Fairness ==
    /\ \A p \in Publishers : WF_vars(PublishTo(p))
    /\ \A s \in SubIds : WF_vars(Receive(s))

TypeOK ==
    /\ subs \in Seq(SubIds) /\ IsInjective(subs)
    /\ closed \in BOOLEAN /\ panic \in BOOLEAN
    /\ \A s \in SubIds : Len(ch[s]) <= Buffer
    /\ chState \in [SubIds -> {"none", "open", "closed"}]
    /\ reader \in [SubIds -> {"none", "reading", "done"}]

(* No interleaving of publishers, unsubscribing readers and Close sends on *)
(* a closed channel or closes one twice: the gateway does not panic.       *)
NoPanic == ~panic

InOrder(events) ==
    \A i, j \in DOMAIN events :
      i < j /\ events[i][1] = events[j][1] => events[i][2] < events[j][2]

(* What the reader of s received, and what it will receive.                *)
All(s) == got[s] \o ch[s]

(* A subscriber sees the events of one publisher in the order they were    *)
(* published, each at most once, with gaps only: a drop never reorders.    *)
PublisherOrder == \A s \in SubIds : InOrder(All(s))

(* Once the hub is closed, the reader of every subscription made before    *)
(* drains its channel and ends: shutdown leaves no goroutine behind.       *)
ReadersEnd ==
    \A s \in SubIds : closed /\ s \notin late /\ reader[s] = "reading" ~> reader[s] = "done"

-----------------------------------------------------------------------------
(***************************************************************************)
(* Proofs: no panic and the order of a publisher's events, for every set   *)
(* of subscriptions, publishers and topics and every size of the channels. *)
(***************************************************************************)

Event == Publishers \X Nat
Visit == [topic : Topics \union {<<>>}, n : Nat, next : Nat]

BusTyped ==
    /\ subs \in Seq(SubIds) /\ IsInjective(subs)
    /\ ch \in [SubIds -> Seq(Event)] /\ got \in [SubIds -> Seq(Event)]
    /\ count \in [Publishers -> Nat] /\ visit \in [Publishers -> Visit]
    /\ chState \in [SubIds -> {"none", "open", "closed"}]

(* Who is in the list has an open channel.                                 *)
ListedOpen == \A i \in DOMAIN subs : chState[subs[i]] = "open"

(* A publisher under way publishes its last event to somebody in the list. *)
Visiting ==
    \A p \in Publishers : Publishing(p) => visit[p].n = count[p] /\ visit[p].next \in DOMAIN subs

(* Nothing of a publisher is ahead of its count, and the event it is       *)
(* publishing is only with the subscribers its loop has passed.            *)
NotAhead ==
    \A s \in SubIds : \A i \in DOMAIN All(s) :
      LET e == All(s)[i] IN
      /\ e[2] <= count[e[1]]
      /\ Publishing(e[1]) /\ e[2] = count[e[1]] =>
           \E j \in DOMAIN subs : j < visit[e[1]].next /\ subs[j] = s

BusInv == BusTyped /\ ListedOpen /\ Visiting /\ NotAhead /\ PublisherOrder /\ panic = FALSE

(* Taking the head of a channel moves it to the end of what was received.  *)
LEMMA HeadMoves ==
    ASSUME NEW S, NEW g \in Seq(S), NEW q \in Seq(S), q # <<>>
    PROVE /\ Append(g, Head(q)) \in Seq(S) /\ Tail(q) \in Seq(S)
          /\ Append(g, Head(q)) \o Tail(q) = g \o q
  OBVIOUS

(* A send adds an event at the end.                                        *)
LEMMA SendAppends ==
    ASSUME NEW S, NEW g \in Seq(S), NEW q \in Seq(S), NEW e \in S
    PROVE /\ Append(q, e) \in Seq(S) /\ g \o q \in Seq(S)
          /\ g \o Append(q, e) = Append(g \o q, e)
  OBVIOUS

(* What a concatenation holds.                                             *)
LEMMA Concatenation ==
    ASSUME NEW S, NEW a \in Seq(S), NEW b \in Seq(S)
    PROVE /\ a \o b \in Seq(S) /\ Len(a \o b) = Len(a) + Len(b)
          /\ \A j \in 1..Len(a) : (a \o b)[j] = a[j]
          /\ \A j \in (Len(a) + 1)..(Len(a) + Len(b)) : (a \o b)[j] = b[j - Len(a)]
<1>1. a \o b \in Seq(S) /\ Len(a \o b) = Len(a) + Len(b)
  OBVIOUS
<1>2. ASSUME NEW j \in 1..Len(a) PROVE (a \o b)[j] = a[j]
  OBVIOUS
<1>3. ASSUME NEW j \in (Len(a) + 1)..(Len(a) + Len(b)) PROVE (a \o b)[j] = b[j - Len(a)]
  OBVIOUS
<1> QED
  BY <1>1, <1>2, <1>3

(* append(subs[:i], subs[i+1:]...) loses the i-th entry and no other.      *)
LEMMA RemovalKeeps ==
    ASSUME NEW S, NEW q \in Seq(S), IsInjective(q), NEW i \in DOMAIN q
    PROVE /\ RemoveAt(q, i) \in Seq(S) /\ IsInjective(RemoveAt(q, i))
          /\ \A j \in DOMAIN RemoveAt(q, i) : \E k \in DOMAIN q : k # i /\ RemoveAt(q, i)[j] = q[k]
<1> DEFINE a == SubSeq(q, 1, i - 1)
           b == SubSeq(q, i + 1, Len(q))
           r == RemoveAt(q, i)
           Old(j) == IF j < i THEN j ELSE j + 1
<1>1. i \in 1..Len(q) /\ Len(q) \in Nat
  OBVIOUS
<1>2. /\ a \in Seq(S) /\ Len(a) = i - 1 /\ \A j \in 1..(i - 1) : a[j] = q[j]
  BY <1>1
<1>3. /\ b \in Seq(S) /\ Len(b) = Len(q) - i /\ \A j \in 1..(Len(q) - i) : b[j] = q[i + j]
  BY <1>1
<1> HIDE DEF a, b
<1>4. r = a \o b
  BY DEF a, b, RemoveAt
<1>5. /\ r \in Seq(S) /\ Len(r) = Len(q) - 1 /\ DOMAIN r = 1..(Len(q) - 1)
      /\ \A j \in 1..(i - 1) : r[j] = a[j]
      /\ \A j \in i..(Len(q) - 1) : r[j] = b[j - (i - 1)]
  <2>1. /\ a \o b \in Seq(S) /\ Len(a \o b) = Len(a) + Len(b)
        /\ \A j \in 1..Len(a) : (a \o b)[j] = a[j]
        /\ \A j \in (Len(a) + 1)..(Len(a) + Len(b)) : (a \o b)[j] = b[j - Len(a)]
    BY <1>2, <1>3, Concatenation
  <2>2. Len(a) + Len(b) = Len(q) - 1 /\ Len(a) + 1 = i
    BY <1>1, <1>2, <1>3
  <2> QED
    BY <1>2, <1>4, <2>1, <2>2
<1> HIDE DEF r
<1>6. ASSUME NEW j \in DOMAIN r PROVE Old(j) \in DOMAIN q /\ Old(j) # i /\ r[j] = q[Old(j)]
  <2>1. CASE j < i
    BY <1>1, <1>2, <1>5, <2>1
  <2>2. CASE j >= i
    <3>1. j \in i..(Len(q) - 1) /\ j - (i - 1) \in 1..(Len(q) - i) /\ i + (j - (i - 1)) = j + 1
      BY <1>1, <1>5, <2>2
    <3> QED
      BY <1>1, <1>3, <1>5, <2>2, <3>1
  <2> QED
    BY <1>1, <1>5, <2>1, <2>2
<1>7. ASSUME NEW j \in DOMAIN r, NEW k \in DOMAIN r, r[j] = r[k] PROVE j = k
  <2>1. Old(j) = Old(k)
    BY <1>6, <1>7 DEF IsInjective
  <2> QED
    BY <1>1, <1>5, <2>1
<1> QED
  BY <1>5, <1>6, <1>7 DEF IsInjective, r

(* Nothing the order depends on changes: no event moves, nobody publishes. *)
LEMMA BusQuiet ==
    ASSUME BusInv, UNCHANGED <<visit, count>>, \A s \in SubIds : All(s)' = All(s), panic' = FALSE,
           BusTyped', ListedOpen',
           subs' = subs \/ \A p \in Publishers : ~Publishing(p)
    PROVE  BusInv'
<1>1. \A s \in SubIds : All(s)' = All(s)
  OBVIOUS
<1>2. \A p : Publishing(p)' = Publishing(p)
  BY DEF Publishing
<1>3. \A s \in SubIds : All(s) \in Seq(Event)
  BY DEF BusInv, BusTyped, All
<1>4. ASSUME NEW s \in SubIds, NEW i \in DOMAIN All(s) PROVE All(s)[i][1] \in Publishers
  BY <1>3 DEF Event
<1>5. Visiting'
  BY <1>2 DEF BusInv, Visiting
<1>6. NotAhead'
  BY <1>1, <1>2, <1>4 DEF BusInv, NotAhead
<1>7. PublisherOrder'
  BY <1>1 DEF BusInv, PublisherOrder, InOrder
<1> QED
  BY <1>5, <1>6, <1>7 DEF BusInv

(* No subscriber, no event.                                                *)
LEMMA InitBus == Init => BusInv
<1> SUFFICES ASSUME Init PROVE BusInv
  OBVIOUS
<1>1. panic = FALSE
  BY Zenon DEF Init
<1>2. /\ subs = <<>> /\ ch = [s \in SubIds |-> <<>>] /\ got = [s \in SubIds |-> <<>>]
      /\ chState = [s \in SubIds |-> "none"] /\ visit = [p \in Publishers |-> NoVisit]
      /\ count = [p \in Publishers |-> 0]
  BY DEF Init
<1>3. BusTyped
  BY <1>2 DEF BusTyped, NoVisit, Visit, IsInjective
<1>4. ListedOpen /\ Visiting
  BY <1>2 DEF ListedOpen, Visiting, Publishing
<1>5. \A s \in SubIds : DOMAIN All(s) = {}
  BY <1>2 DEF All
<1>6. NotAhead /\ PublisherOrder
  BY <1>5 DEF NotAhead, PublisherOrder, InOrder
<1> QED
  BY <1>1, <1>3, <1>4, <1>6 DEF BusInv

(* Subscribe appends a fresh channel.                                      *)
LEMMA SubscribeStep == ASSUME NEW s \in SubIds, BusInv, Subscribe(s) PROVE BusInv'
<1>1. /\ chState[s] = "none" /\ subs' = Append(subs, s) /\ chState' = [chState EXCEPT ![s] = "open"]
      /\ UNCHANGED <<ch, visit, count, got>> /\ WriteLock
  BY DEF Subscribe
<1>2. panic' = FALSE
  BY Zenon DEF Subscribe, BusInv
<1>3. /\ subs \in Seq(SubIds) /\ subs' \in Seq(SubIds) /\ DOMAIN subs' = 1..(Len(subs) + 1)
      /\ Len(subs) \in Nat /\ subs'[Len(subs) + 1] = s /\ \A i \in DOMAIN subs : subs'[i] = subs[i] /\ subs[i] # s
  BY <1>1 DEF BusInv, BusTyped, ListedOpen
<1>4. IsInjective(subs')
  <2> SUFFICES ASSUME NEW i \in 1..(Len(subs) + 1), NEW j \in 1..(Len(subs) + 1), subs'[i] = subs'[j]
               PROVE i = j
    BY <1>3 DEF IsInjective
  <2>1. DOMAIN subs = 1..Len(subs) /\ (i \in DOMAIN subs \/ i = Len(subs) + 1)
                                  /\ (j \in DOMAIN subs \/ j = Len(subs) + 1)
    BY <1>3
  <2>2. i \in DOMAIN subs /\ j \in DOMAIN subs => i = j
    BY <1>3 DEF BusInv, BusTyped, IsInjective
  <2> QED
    BY <1>3, <2>1, <2>2
<1>5. BusTyped'
  BY <1>1, <1>3, <1>4 DEF BusInv, BusTyped
<1>6. ListedOpen'
  BY <1>1, <1>3 DEF BusInv, BusTyped, ListedOpen
<1> QED
  BY <1>1, <1>2, <1>5, <1>6, BusQuiet DEF WriteLock, All

(* unsubscribe closes the channel it takes out of the list.                *)
LEMMA UnsubscribeStep == ASSUME NEW s \in SubIds, BusInv, Unsubscribe(s) PROVE BusInv'
<1>1. PICK i \in DOMAIN subs : subs[i] = s /\ subs' = RemoveAt(subs, i)
  BY DEF Unsubscribe
<1>2. /\ chState' = [chState EXCEPT ![s] = "closed"]
      /\ UNCHANGED <<ch, visit, count, got>> /\ WriteLock
  BY DEF Unsubscribe
<1>3. chState[s] # "closed"
  BY <1>1 DEF BusInv, ListedOpen
<1>4. panic' = FALSE
  BY <1>3, Zenon DEF Unsubscribe, BusInv
<1>5. /\ subs' \in Seq(SubIds) /\ IsInjective(subs')
      /\ \A j \in DOMAIN subs' : \E k \in DOMAIN subs : k # i /\ subs'[j] = subs[k]
  BY <1>1, RemovalKeeps DEF BusInv, BusTyped
<1>6. BusTyped'
  BY <1>2, <1>5 DEF BusInv, BusTyped
<1>7. ListedOpen'
  <2> SUFFICES ASSUME NEW j \in DOMAIN subs' PROVE chState'[subs'[j]] = "open"
    BY DEF ListedOpen
  <2>1. PICK k \in DOMAIN subs : k # i /\ subs'[j] = subs[k]
    BY <1>5
  <2>2. subs[k] # s /\ subs[k] \in SubIds
    BY <1>1, <2>1 DEF BusInv, BusTyped, IsInjective
  <2> QED
    BY <1>2, <2>1, <2>2 DEF BusInv, BusTyped, ListedOpen
<1> QED
  BY <1>2, <1>4, <1>6, <1>7, BusQuiet DEF WriteLock, All

(* Close closes every channel of the list, once, and empties the list.     *)
LEMMA CloseStep == ASSUME BusInv, Close PROVE BusInv'
<1>1. /\ subs' = <<>> /\ UNCHANGED <<ch, visit, count, got>> /\ WriteLock
      /\ chState' = [s \in SubIds |-> IF s \in Range(subs) THEN "closed" ELSE chState[s]]
  BY DEF Close
<1>2. \A s \in Range(subs) : chState[s] # "closed"
  BY DEF Range, BusInv, ListedOpen
<1>3. panic' = FALSE
  BY <1>2, Zenon DEF Close, BusInv
<1>4. BusTyped' /\ ListedOpen'
  BY <1>1 DEF BusInv, BusTyped, ListedOpen, IsInjective
<1> QED
  BY <1>1, <1>3, <1>4, BusQuiet DEF WriteLock, All

(* A reader takes the head of its channel, or ends.                        *)
LEMMA ReceiveStep == ASSUME NEW s \in SubIds, BusInv, Receive(s) PROVE BusInv'
<1>1. UNCHANGED <<subs, chState, visit, count>>
  BY DEF Receive
<1>2. panic' = FALSE
  BY Zenon DEF Receive, BusInv
<1>3. /\ All(s)' = All(s)
      /\ \A t \in SubIds : t # s => ch'[t] = ch[t] /\ got'[t] = got[t]
      /\ ch' \in [SubIds -> Seq(Event)] /\ got' \in [SubIds -> Seq(Event)]
  <2>1. CASE ch[s] = <<>>
    BY <2>1 DEF Receive, BusInv, BusTyped, All
  <2>2. CASE ch[s] # <<>>
    <3>1. /\ got' = [got EXCEPT ![s] = Append(got[s], Head(ch[s]))]
          /\ ch' = [ch EXCEPT ![s] = Tail(ch[s])]
      BY <2>2 DEF Receive
    <3>2. ch[s] \in Seq(Event) /\ got[s] \in Seq(Event)
      BY DEF BusInv, BusTyped
    <3>3. /\ Append(got[s], Head(ch[s])) \in Seq(Event) /\ Tail(ch[s]) \in Seq(Event)
          /\ Append(got[s], Head(ch[s])) \o Tail(ch[s]) = got[s] \o ch[s]
      BY <2>2, <3>2, HeadMoves
    <3> QED
      BY <3>1, <3>3 DEF BusInv, BusTyped, All
  <2> QED
    BY <2>1, <2>2
<1>4. \A t \in SubIds : All(t)' = All(t)
  BY <1>3 DEF All
<1>5. BusTyped'
  BY <1>1, <1>3 DEF BusInv, BusTyped
<1>6. ListedOpen'
  BY <1>1 DEF BusInv, ListedOpen
<1> QED
  BY <1>1, <1>2, <1>4, <1>5, <1>6, BusQuiet

(* Publish numbers its event after all the earlier ones of the publisher.  *)
LEMMA BeginPublishStep ==
    ASSUME NEW p \in Publishers, NEW t \in Topics, BusInv, BeginPublish(p, t) PROVE BusInv'
<1> DEFINE start == [topic |-> t, n |-> count[p] + 1, next |-> 1]
<1>1. /\ ~Publishing(p) /\ count' = [count EXCEPT ![p] = count[p] + 1]
      /\ visit' = visit \/ (subs # <<>> /\ visit' = [visit EXCEPT ![p] = start])
      /\ UNCHANGED <<subs, ch, chState, got>>
  BY DEF BeginPublish
<1>2. panic' = FALSE
  BY Zenon DEF BeginPublish, BusInv
<1>3. start \in Visit /\ start.n = count[p] + 1 /\ start.next = 1
  BY DEF Visit, BusInv, BusTyped
<1> HIDE DEF start
<1>4. /\ count'[p] = count[p] + 1 /\ count[p] \in Nat
      /\ \A r \in Publishers : r # p => visit'[r] = visit[r] /\ count'[r] = count[r]
      /\ visit'[p] = NoVisit \/ (visit'[p] = start /\ subs # <<>>)
  BY <1>1 DEF BusInv, BusTyped, Publishing
<1>5. BusTyped'
  <2>1. count' \in [Publishers -> Nat]
    BY <1>1, <1>4 DEF BusInv, BusTyped
  <2>2. visit' \in [Publishers -> Visit]
    BY <1>1, <1>3 DEF BusInv, BusTyped
  <2> QED
    BY <1>1, <2>1, <2>2 DEF BusInv, BusTyped
<1>6. ListedOpen' /\ \A s \in SubIds : All(s)' = All(s) /\ All(s) \in Seq(Event)
  BY <1>1 DEF BusInv, BusTyped, ListedOpen, All
<1>7. Visiting'
  <2> SUFFICES ASSUME NEW r \in Publishers, visit'[r] # NoVisit
               PROVE visit'[r].n = count'[r] /\ visit'[r].next \in DOMAIN subs
    BY <1>1 DEF Visiting, Publishing
  <2>1. CASE r # p
    BY <1>4, <2>1 DEF BusInv, Visiting, Publishing
  <2>2. CASE r = p
    <3>1. 1 \in DOMAIN subs
      BY <1>4, <2>2 DEF BusInv, BusTyped
    <3> QED
      BY <1>3, <1>4, <2>2, <3>1
  <2> QED
    BY <2>1, <2>2
<1>8. NotAhead'
  <2> SUFFICES ASSUME NEW s \in SubIds, NEW i \in DOMAIN All(s), NEW e, e = All(s)[i]
               PROVE /\ e[2] <= count'[e[1]]
                     /\ visit'[e[1]] # NoVisit /\ e[2] = count'[e[1]] =>
                          \E j \in DOMAIN subs : j < visit'[e[1]].next /\ subs[j] = s
    BY <1>1, <1>6 DEF NotAhead, Publishing
  <2>1. e[1] \in Publishers /\ e[2] \in Nat
    BY <1>6 DEF Event
  <2>2. e[2] <= count[e[1]]
    BY DEF BusInv, NotAhead
  <2>3. CASE e[1] # p
    BY <1>4, <2>1, <2>3 DEF BusInv, NotAhead, Publishing
  <2>4. CASE e[1] = p
    BY <1>4, <2>1, <2>2, <2>4
  <2> QED
    BY <2>3, <2>4
<1>9. PublisherOrder'
  BY <1>6 DEF BusInv, PublisherOrder
<1> QED
  BY <1>2, <1>5, <1>6, <1>7, <1>8, <1>9 DEF BusInv

(* One round of the loop: the subscriber is in the list, so its channel is *)
(* open, and it has nothing of this event yet.                             *)
LEMMA PublishToStep == ASSUME NEW p \in Publishers, BusInv, PublishTo(p) PROVE BusInv'
<1> DEFINE v == visit[p]
           s == subs[v.next]
           e == <<p, count[p]>>
<1>1. /\ Publishing(p) /\ v.n = count[p] /\ v.next \in DOMAIN subs
      /\ v \in Visit /\ s \in SubIds /\ e \in Event /\ chState[s] = "open"
  BY DEF PublishTo, BusInv, BusTyped, Visiting, ListedOpen, Event
<1>2. UNCHANGED <<subs, chState, count, got>>
  BY DEF PublishTo
<1>3. panic' = FALSE
  <2>1. panic = FALSE /\ chState[s] # "closed"
    BY <1>1 DEF BusInv
  <2> QED
    BY <2>1, Zenon DEF PublishTo
<1>4. visit' = [visit EXCEPT ![p] = IF v.next = Len(subs) THEN NoVisit ELSE [v EXCEPT !.next = v.next + 1]]
  BY DEF PublishTo
<1>5. /\ visit' \in [Publishers -> Visit] /\ \A r \in Publishers : r # p => visit'[r] = visit[r]
      /\ visit'[p] # NoVisit => /\ visit'[p].n = count[p] /\ visit'[p].next = v.next + 1
                               /\ v.next + 1 \in DOMAIN subs
  <2>1. v.next \in Nat /\ v.next + 1 \in Nat /\ (v.next # Len(subs) => v.next + 1 \in DOMAIN subs)
    BY <1>1 DEF Visit, BusInv, BusTyped
  <2>2. [v EXCEPT !.next = v.next + 1] \in Visit /\ [v EXCEPT !.next = v.next + 1].n = v.n
        /\ [v EXCEPT !.next = v.next + 1].next = v.next + 1 /\ NoVisit \in Visit
    BY <1>1, <2>1 DEF Visit, NoVisit
  <2> QED
    BY <1>1, <1>4, <2>1, <2>2 DEF BusInv, BusTyped
<1>6. /\ ch' \in [SubIds -> Seq(Event)] /\ \A t \in SubIds : t # s => ch'[t] = ch[t]
      /\ ch'[s] = ch[s] \/ ch'[s] = Append(ch[s], e)
  <2>1. ch' = ch \/ ch' = [ch EXCEPT ![s] = Offered(ch[s], e)]
    BY <1>1 DEF PublishTo
  <2>2. Offered(ch[s], e) = ch[s] \/ Offered(ch[s], e) = Append(ch[s], e)
    BY DEF Offered
  <2>3. ch[s] \in Seq(Event) /\ Append(ch[s], e) \in Seq(Event)
    BY <1>1 DEF BusInv, BusTyped
  <2> QED
    BY <1>1, <2>1, <2>2, <2>3 DEF BusInv, BusTyped
<1> HIDE DEF s, v, e
<1>7. \A t \in SubIds : \/ All(t)' = All(t)
                        \/ t = s /\ All(t)' = Append(All(t), e)
  <2> SUFFICES ASSUME NEW t \in SubIds, t = s, ch'[s] = Append(ch[s], e)
               PROVE All(t)' = Append(All(t), e)
    BY <1>2, <1>6 DEF All
  <2>1. got[s] \in Seq(Event) /\ ch[s] \in Seq(Event)
    BY <1>1 DEF BusInv, BusTyped
  <2>2. got[s] \o Append(ch[s], e) = Append(got[s] \o ch[s], e)
    <3>1. \A g, q \in Seq(Event), x \in Event : g \o Append(q, x) = Append(g \o q, x)
      BY SendAppends
    <3> QED
      BY <1>1, <2>1, <3>1, Zenon
  <2> QED
    BY <1>2, <2>2 DEF All
<1>8. \A t \in SubIds : All(t) \in Seq(Event)
  BY DEF BusInv, BusTyped, All
<1>9. e[1] = p /\ e[2] = count[p] /\ count[p] \in Nat
  BY DEF e, BusInv, BusTyped
<1>10. BusTyped' /\ ListedOpen'
  BY <1>2, <1>5, <1>6 DEF BusInv, BusTyped, ListedOpen
<1>11. Visiting'
  BY <1>2, <1>5 DEF BusInv, Visiting, Publishing
<1>12. NotAhead'
  <2> SUFFICES ASSUME NEW t \in SubIds, NEW i \in DOMAIN (All(t)'), NEW f, f = (All(t)')[i]
               PROVE /\ f[2] <= count[f[1]]
                     /\ visit'[f[1]] # NoVisit /\ f[2] = count[f[1]] =>
                          \E j \in DOMAIN subs : j < visit'[f[1]].next /\ subs[j] = t
    BY <1>2 DEF NotAhead, Publishing
  <2>1. CASE i \in DOMAIN All(t) /\ f = All(t)[i]
    <3>1. f[1] \in Publishers
      BY <1>8, <2>1 DEF Event
    <3>2. f[2] <= count[f[1]]
      BY <2>1 DEF BusInv, NotAhead
    <3>3. visit[f[1]] # NoVisit /\ f[2] = count[f[1]] =>
            \E j \in DOMAIN subs : j < visit[f[1]].next /\ subs[j] = t
      BY <2>1 DEF BusInv, NotAhead, Publishing
    <3>4. CASE f[1] # p
      BY <1>5, <3>1, <3>2, <3>3, <3>4
    <3>5. CASE f[1] = p
      BY <1>1, <1>5, <3>2, <3>3, <3>5 DEF Publishing, v, Visit, BusInv, BusTyped
    <3> QED
      BY <3>4, <3>5
  <2>2. CASE t = s /\ f = e
    BY <1>1, <1>5, <1>9, <2>2 DEF s, v, Visit
  <2>3. \/ i \in DOMAIN All(t) /\ f = All(t)[i]
        \/ t = s /\ f = e
    BY <1>1, <1>7, <1>8
  <2> QED
    BY <2>1, <2>2, <2>3
<1>13. PublisherOrder'
  <2> SUFFICES ASSUME NEW t \in SubIds PROVE InOrder(All(t)')
    BY DEF PublisherOrder
  <2>1. CASE All(t)' = All(t)
    BY <2>1 DEF BusInv, PublisherOrder
  <2>2. CASE t = s /\ All(t)' = Append(All(t), e)
    <3>1. ASSUME NEW i \in DOMAIN All(t), All(t)[i][1] = p PROVE All(t)[i][2] < count[p]
      <4>1. All(t)[i][2] <= count[p] /\ All(t)[i][2] \in Nat
        BY <1>8, <3>1 DEF BusInv, NotAhead, Event
      <4>2. All(t)[i][2] # count[p]
        <5>1. SUFFICES ASSUME All(t)[i][2] = count[p] PROVE FALSE
          OBVIOUS
        <5>2. PICK j \in DOMAIN subs : j < v.next /\ subs[j] = s
          BY <1>1, <2>2, <3>1, <5>1 DEF BusInv, NotAhead, v
        <5>3. j = v.next /\ v.next \in Nat
          BY <1>1, <5>2 DEF BusInv, BusTyped, IsInjective, s, Visit
        <5> QED
          BY <5>2, <5>3
      <4> QED
        BY <1>9, <4>1, <4>2
    <3> SUFFICES ASSUME NEW i \in 1..(Len(All(t)) + 1), NEW j \in 1..(Len(All(t)) + 1), i < j,
                        Append(All(t), e)[i][1] = Append(All(t), e)[j][1]
                 PROVE Append(All(t), e)[i][2] < Append(All(t), e)[j][2]
      BY <1>1, <1>8, <2>2 DEF InOrder
    <3>2. Len(All(t)) \in Nat /\ i \in DOMAIN All(t) /\ Append(All(t), e)[i] = All(t)[i]
      BY <1>1, <1>8
    <3>3. CASE j = Len(All(t)) + 1
      BY <1>1, <1>8, <1>9, <3>1, <3>2, <3>3
    <3>4. CASE j # Len(All(t)) + 1
      <4>1. j \in DOMAIN All(t) /\ Append(All(t), e)[j] = All(t)[j]
        BY <1>1, <1>8, <3>2, <3>4
      <4> QED
        BY <3>2, <4>1 DEF BusInv, PublisherOrder, InOrder
    <3> QED
      BY <3>3, <3>4
  <2> QED
    BY <1>7, <2>1, <2>2
<1> QED
  BY <1>3, <1>10, <1>11, <1>12, <1>13 DEF BusInv

(* The invariant holds throughout.                                         *)
LEMMA BusInvariance == Spec => []BusInv
<1>1. BusInv /\ UNCHANGED vars => BusInv'
  <2> SUFFICES ASSUME BusInv, UNCHANGED vars PROVE BusInv'
    OBVIOUS
  <2>1. BusTyped' /\ ListedOpen'
    BY DEF BusInv, BusTyped, ListedOpen, vars
  <2>2. panic' = FALSE
    BY Zenon DEF BusInv, vars
  <2> QED
    BY <2>1, <2>2, BusQuiet DEF vars, All
<1>2. BusInv /\ [Next]_vars => BusInv'
  BY <1>1, BeginPublishStep, PublishToStep, SubscribeStep, UnsubscribeStep, ReceiveStep, CloseStep DEF Next
<1> QED
  BY <1>2, InitBus, PTL DEF Spec

(* Publish holds the read lock, whoever closes a channel the write lock:   *)
(* nothing is sent on a closed channel and none is closed twice.           *)
THEOREM BusNeverPanics == Spec => []NoPanic
<1>1. BusInv => NoPanic
  BY Zenon DEF BusInv, NoPanic
<1> QED
  BY <1>1, BusInvariance, PTL

(* The select of Publish drops, it does not delay: a subscriber sees the   *)
(* events of one publisher in order and each at most once.                 *)
THEOREM EventsStayInOrder == Spec => []PublisherOrder
<1>1. BusInv => PublisherOrder
  BY DEF BusInv
<1> QED
  BY <1>1, BusInvariance, PTL
=============================================================================
