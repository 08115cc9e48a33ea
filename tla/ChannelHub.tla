----------------------------- MODULE ChannelHub -----------------------------
(***************************************************************************)
(* The message flow of internal/channel: handleInbound takes chat messages *)
(* to sessions, runOutbound takes session events to chats, and typing.go   *)
(* keeps the "typing..." indicator of every message that awaits a reply.   *)
(* Inbound handlers, the outbound goroutine and the cap timers interleave  *)
(* between critical sections and network calls.  The bus gives runOutbound *)
(* one buffered channel per topic, and its select takes from any of them.  *)
(***************************************************************************)
EXTENDS Naturals, SequencesExt

CONSTANTS
    Channels, Sessions,
    Msgs,          \* chat messages, each received once
    Texts,         \* what a turn may print, apart from nothing
    NotifyMode,    \* "once", "cooldown" or "every"
    TopicBuffer,   \* capacity of a bus subscription
    OutboundMax,   \* outboundIndexMax
    MaxEvents,     \* bound: events published and operator commands given
    None           \* no session, message or text

VARIABLES
    live,          \* Hub.channels: the channels that run
    queue,         \* queue[t]: the bus subscription of topic t
    published,     \* how many events were published and commands given
    armed,         \* sessions armed by ExpectTurn
    hpc,           \* hpc[m]: where the handler of message m stands
    msg,           \* msg[m]: its channel, and the session it is routed to
    pending,       \* Hub.pending, by channel and session
    typing,        \* messages whose indicator runs
    timer,         \* timer[m]: "off", "armed" or "fired"
    out,           \* the outbound goroutine: its work in hand
    notifyState,   \* Hub.notifyState, by channel
    muted,         \* channels muted in their config
    lastSess, activeSess,
    outboundIndex, \* notifications remembered per channel, oldest first
    lastDelivered, \* Hub.lastDelivered, by session
    newest,        \* history: the last notification sent on a channel
    status,        \* history: "new", "waiting", "superseded", "cancelled", "taken"
    replies,       \* history: replies a message got
    cards          \* history: cards sent for a key since it was last re-armed

inbound == <<hpc, msg, armed>>
waits == <<pending, typing, timer>>
routing == <<lastSess, activeSess, outboundIndex, newest>>
notices == <<notifyState, muted, cards>>
vars == <<live, queue, published, inbound, waits, out, notices, routing, lastDelivered,
          status, replies>>

Topics == {"idle", "ended", "turn", "stopped", "input", "pr", "backup"}

(* What a topic is suppressed by; pull requests have no id of their own.   *)
Keys == {"idle", "ended"} \X Sessions \union {<<"pr", None>>, <<"backup", "id">>}

Idling == [job |-> "wait"]

Init ==
    /\ live = Channels
    /\ queue = [t \in Topics |-> <<>>] /\ published = 0 /\ armed = {}
    /\ hpc = [m \in Msgs |-> "new"] /\ msg = [m \in Msgs |-> <<None, None>>]
    /\ pending = [k \in Channels \X Sessions |-> None]
    /\ typing = {} /\ timer = [m \in Msgs |-> "off"]
    /\ out = Idling
    /\ notifyState = [c \in Channels |-> {}] /\ muted = {}
    /\ cards = [k \in Channels \X Keys |-> 0]
    /\ lastSess = [c \in Channels |-> None] /\ activeSess = [c \in Channels |-> None]
    /\ outboundIndex = [c \in Channels |-> <<>>]
    /\ newest = [c \in Channels |-> [mid |-> 0, sid |-> None]]
    /\ lastDelivered = [s \in Sessions |-> None]
    /\ status = [m \in Msgs |-> "new"] /\ replies = [m \in Msgs |-> 0]

(***************************************************************************)
(* Inbound.                                                                *)
(***************************************************************************)

LookupOutbound(c, mid) ==
    LET hits == {i \in DOMAIN outboundIndex[c] : outboundIndex[c][i].mid = mid}
    IN IF hits = {} THEN None ELSE outboundIndex[c][CHOOSE i \in hits : TRUE].sid

(* Reply-to first, then the pinned session, then the last one heard of.    *)
ResolveTargetSession(c, replyTo) ==
    IF LookupOutbound(c, replyTo) # None THEN LookupOutbound(c, replyTo)
    ELSE IF activeSess[c] # None THEN activeSess[c] ELSE lastSess[c]

(* A message arrives.  It is dropped when the sender is not authorized or  *)
(* the row cannot be written; commands are actions of their own.           *)
Receive(m, c, replyTo) ==
    /\ hpc[m] = "new"
    /\ \/ hpc' = [hpc EXCEPT ![m] = "done"] /\ UNCHANGED msg
       \/ LET s == ResolveTargetSession(c, replyTo) IN
            /\ hpc' = [hpc EXCEPT ![m] = IF s = None THEN "done" ELSE "submit"]
            /\ msg' = [msg EXCEPT ![m] = <<c, s>>]
    /\ UNCHANGED <<live, queue, published, armed, waits, out, notices, routing, lastDelivered,
                   status, replies>>

(* Clears the suppression records of session s on the channels cs.         *)
Forget(cs, s) ==
    /\ notifyState' = [c \in Channels |-> IF c \in cs THEN {k \in notifyState[c] : k[2] # s}
                                          ELSE notifyState[c]]
    /\ cards' = [k \in DOMAIN cards |-> IF k[1] \in cs /\ k[2][2] = s THEN 0 ELSE cards[k]]
    /\ UNCHANGED muted

(* submitToSession types the message; on an error the chat is told.  Then  *)
(* the session is forgotten by the notifier and the channel looked up.     *)
Submit(m) ==
    /\ hpc[m] = "submit"
    /\ \/ hpc' = [hpc EXCEPT ![m] = "done"] /\ UNCHANGED notices
       \/ /\ hpc' = [hpc EXCEPT ![m] = IF msg[m][1] \in live THEN "expect" ELSE "done"]
          /\ Forget({msg[m][1]}, msg[m][2])
    /\ UNCHANGED <<live, queue, published, armed, msg, waits, out, routing, lastDelivered,
                   status, replies>>

(* beginReplyWait, up to the lock: turn detection is armed, then the       *)
(* indicator started (where the channel has none there is none to stop).   *)
BeginReplyWait(m) ==
    /\ hpc[m] = "expect"
    /\ armed' = armed \union {msg[m][2]}
    /\ typing' = typing \union {m}
    /\ hpc' = [hpc EXCEPT ![m] = "register"]
    /\ UNCHANGED <<live, queue, published, msg, pending, timer, out, notices, routing,
                   lastDelivered, status, replies>>

(* pendingReply.stop for the messages ms.                                  *)
Stopped(ms) ==
    /\ typing' = typing \ ms
    /\ timer' = [m \in Msgs |-> IF m \in ms /\ timer[m] = "armed" THEN "off" ELSE timer[m]]

(* Mutant of Register: the entry that is replaced is not stopped.          *)
RegisterWithoutStop(m) ==
    /\ hpc[m] = "register"
    /\ timer' = [timer EXCEPT ![m] = "armed",
                              ![IF pending[msg[m]] = None THEN m ELSE pending[msg[m]]] =
                                  IF pending[msg[m]] = None THEN "armed" ELSE "off"]
    /\ pending' = [pending EXCEPT ![msg[m]] = m]
    /\ status' = [x \in Msgs |-> IF x = m THEN "waiting"
                                 ELSE IF x = pending[msg[m]] THEN "superseded" ELSE status[x]]
    /\ hpc' = [hpc EXCEPT ![m] = "done"]
    /\ UNCHANGED <<live, queue, published, msg, armed, typing, out, notices, routing,
                   lastDelivered, replies>>

(* The critical section of beginReplyWait: a newer message takes the place *)
(* of the one that waited for the same session.                            *)
Register(m) ==
    /\ hpc[m] = "register"
    /\ typing' = typing \ {pending[msg[m]]}
    /\ timer' = [x \in Msgs |-> IF x = m THEN "armed"
                                ELSE IF x = pending[msg[m]] /\ timer[x] = "armed" THEN "off"
                                ELSE timer[x]]
    /\ pending' = [pending EXCEPT ![msg[m]] = m]
    /\ status' = [x \in Msgs |-> IF x = m THEN "waiting"
                                 ELSE IF x = pending[msg[m]] THEN "superseded" ELSE status[x]]
    /\ hpc' = [hpc EXCEPT ![m] = "done"]
    /\ UNCHANGED <<live, queue, published, msg, armed, out, notices, routing, lastDelivered,
                   replies>>

(* /select and the "Talk to" buttons; clearing the pin.                    *)
SetActiveSession(c, s) ==
    /\ activeSess[c] # s
    /\ published < MaxEvents /\ published' = published + 1
    /\ activeSess' = [activeSess EXCEPT ![c] = s]
    /\ UNCHANGED <<live, queue, inbound, waits, out, notices, lastSess, outboundIndex, newest,
                   lastDelivered, status, replies>>

(* /notify on and off.                                                     *)
SetMuted(c) ==
    /\ published < MaxEvents /\ published' = published + 1
    /\ muted' = IF c \in muted THEN muted \ {c} ELSE muted \union {c}
    /\ UNCHANGED <<live, queue, inbound, waits, out, notifyState, cards, routing,
                   lastDelivered, status, replies>>

(***************************************************************************)
(* The cap timer.                                                          *)
(***************************************************************************)

TimerFires(m) ==
    /\ timer[m] = "armed" /\ timer' = [timer EXCEPT ![m] = "fired"]
    /\ UNCHANGED <<live, queue, published, inbound, pending, typing, out, notices, routing,
                   lastDelivered, status, replies>>

(* Mutant of OnReplyTimeout: the entry is dropped with the indicator.      *)
OnReplyTimeoutDrops(m) ==
    /\ timer[m] = "fired" /\ timer' = [timer EXCEPT ![m] = "off"]
    /\ typing' = typing \ {pending[msg[m]]}
    /\ pending' = [pending EXCEPT ![msg[m]] = None]
    /\ UNCHANGED <<live, queue, published, inbound, out, notices, routing,
                   lastDelivered, status, replies>>

(* onReplyTimeout knows the key only: it stops the indicator of whichever  *)
(* message waits there now, keeps the entry, and posts that work goes on.  *)
OnReplyTimeout(m) ==
    /\ timer[m] = "fired" /\ timer' = [timer EXCEPT ![m] = "off"]
    /\ typing' = typing \ {pending[msg[m]]}
    /\ UNCHANGED <<live, queue, published, inbound, pending, out, notices, routing,
                   lastDelivered, status, replies>>

(***************************************************************************)
(* Outbound.                                                               *)
(***************************************************************************)

(* Events carry what their topic has: a session, and what it printed.      *)
Events ==
    {"idle", "turn"} \X Sessions \X (Texts \union {None})
      \union {"ended", "stopped", "input"} \X Sessions \X {None}
      \union {"pr", "backup"} \X {None} \X {None}

(* A session, the backup service or the pull-request watcher publishes; a  *)
(* full subscription drops the event.  A turn completes only when armed.   *)
Publish(t, s, text) ==
    /\ published < MaxEvents /\ published' = published + 1
    /\ t = "turn" => s \in armed
    /\ armed' = IF t = "turn" THEN armed \ {s} ELSE armed
    /\ queue' = IF Len(queue[t]) = TopicBuffer THEN queue
                ELSE [queue EXCEPT ![t] = Append(@, [sid |-> s, text |-> text])]
    /\ UNCHANGED <<live, hpc, msg, waits, out, notices, routing, lastDelivered, status, replies>>

(* dispatch, up to its loop: an idle card that would echo the last reply   *)
(* is dropped.                                                             *)
DispatchJob(t, ev) ==
    IF t = "idle" /\ ev.text # None /\ lastDelivered[ev.sid] = ev.text THEN Idling
    ELSE [job |-> "dispatch", topic |-> t, ev |-> ev, todo |-> live]

PendingFor(s) == {pending[k] : k \in Channels \X {s}} \ {None}

(* Mutant of TakePendingForSession: the entries stay.                      *)
TakePendingKeeps(s, how) ==
    /\ status' = [m \in Msgs |-> IF m \in PendingFor(s) THEN how ELSE status[m]]
    /\ UNCHANGED pending

(* All that wait for session s, on every channel.                          *)
TakePendingForSession(s, how) ==
    /\ pending' = [k \in DOMAIN pending |-> IF k[2] = s THEN None ELSE pending[k]]
    /\ status' = [m \in Msgs |-> IF m \in PendingFor(s) THEN how ELSE status[m]]

CancelReplyWait(s) ==
    /\ TakePendingForSession(s, "cancelled") /\ Stopped(PendingFor(s))

(* One round of runOutbound's select.                                      *)
RunOutbound(t) ==
    /\ out = Idling /\ queue[t] # <<>>
    /\ queue' = [queue EXCEPT ![t] = Tail(@)]
    /\ LET ev == Head(queue[t]) IN
       \/ /\ t \in {"idle", "pr", "backup"}
          /\ out' = DispatchJob(t, ev)
          /\ UNCHANGED <<waits, notices, status>>
       \/ /\ t = "ended"
          /\ CancelReplyWait(ev.sid) /\ out' = DispatchJob(t, ev)
          /\ UNCHANGED notices
       \/ /\ t = "stopped"
          /\ CancelReplyWait(ev.sid)
          /\ UNCHANGED <<notices, out>>
       \/ /\ t = "input"
          /\ Forget(Channels, ev.sid)
          /\ UNCHANGED <<waits, out, status>>
       \/ /\ t = "turn"
          /\ TakePendingForSession(ev.sid, "taken")
          /\ out' = [job |-> "deliver", ev |-> ev, todo |-> PendingFor(ev.sid)]
          /\ UNCHANGED <<typing, timer, notices>>
    /\ UNCHANGED <<live, published, inbound, routing, lastDelivered, replies>>

Remaining(x) == IF out.todo = {x} THEN Idling ELSE [out EXCEPT !.todo = @ \ {x}]

(* Mutant of EvictOldest: the order of the sort is turned.                 *)
EvictNewest(index) == SubSeq(index, 1, Len(index) - Len(index) \div 4)

(* A quarter of the index, the oldest entries.                             *)
EvictOldest(index) == SubSeq(index, 1 + Len(index) \div 4, Len(index))

(* A notification about s went out on c under a new message id.            *)
RecordOutbound(c, s) ==
    LET entry == [mid |-> newest[c].mid + 1, sid |-> s]
        index == Append(outboundIndex[c], entry)
    IN /\ outboundIndex' = [outboundIndex EXCEPT ![c] =
                              IF Len(index) > OutboundMax THEN EvictOldest(index) ELSE index]
       /\ newest' = [newest EXCEPT ![c] = entry]
       /\ lastSess' = [lastSess EXCEPT ![c] = s]
       /\ UNCHANGED activeSess

SuppressKey(t, ev) == IF t = "pr" THEN <<t, None>> ELSE IF t = "backup" THEN <<t, "id">>
                      ELSE <<t, ev.sid>>

(* Mutant of SuppressByPolicy: the record of the first card expires.       *)
SuppressForgets(c, k) == NotifyMode # "every" /\ k \in notifyState[c] /\ k[1] = "ended"

SuppressByPolicy(c, k) == NotifyMode # "every" /\ k \in notifyState[c]

(* One round of dispatch's loop.  The record is made before the send, and  *)
(* stays when the send fails; a channel that was stopped fails too.        *)
DispatchTo(c) ==
    /\ out.job = "dispatch"
    /\ LET k == SuppressKey(out.topic, out.ev) IN
       IF out.todo = {} THEN out' = Idling /\ UNCHANGED <<notices, routing>>
       ELSE /\ c \in out.todo /\ out' = Remaining(c)
            /\ IF c \in muted \/ SuppressByPolicy(c, k) THEN UNCHANGED <<notices, routing>>
               ELSE /\ notifyState' = [notifyState EXCEPT ![c] = @ \union {k}]
                    /\ \/ UNCHANGED <<cards, routing>>
                       \/ /\ c \in live
                          /\ cards' = [cards EXCEPT ![<<c, k>>] = @ + 1]
                          /\ IF out.topic \in {"pr", "backup"} THEN UNCHANGED routing
                             ELSE RecordOutbound(c, out.ev.sid)
                    /\ UNCHANGED muted
    /\ UNCHANGED <<live, queue, published, inbound, waits, lastDelivered, status, replies>>

(* One round of deliverTurnReply's loop.  An empty turn is acknowledged;   *)
(* the send may fail.                                                      *)
DeliverTo(m) ==
    /\ out.job = "deliver"
    /\ IF out.todo = {} THEN out' = Idling /\ UNCHANGED <<waits, routing, lastDelivered, replies>>
       ELSE /\ m \in out.todo /\ out' = Remaining(m)
            /\ Stopped({m}) /\ UNCHANGED pending
            /\ IF msg[m][1] \notin live THEN UNCHANGED <<routing, lastDelivered, replies>>
               ELSE /\ lastDelivered' = IF out.ev.text = None THEN lastDelivered
                                        ELSE [lastDelivered EXCEPT ![out.ev.sid] = out.ev.text]
                    /\ \/ /\ lastSess' = [lastSess EXCEPT ![msg[m][1]] = out.ev.sid]
                          /\ UNCHANGED <<activeSess, outboundIndex, newest, replies>>
                       \/ /\ replies' = [replies EXCEPT ![m] = @ + 1]
                          /\ IF out.ev.text # None THEN RecordOutbound(msg[m][1], out.ev.sid)
                             ELSE /\ lastSess' = [lastSess EXCEPT ![msg[m][1]] = out.ev.sid]
                                  /\ UNCHANGED <<activeSess, outboundIndex, newest>>
    /\ UNCHANGED <<live, queue, published, inbound, notices, status>>

(* A suppression record gets older than its cooldown, or than a day.       *)
RecordExpires(c, k) ==
    /\ k \in notifyState[c]
    /\ published < MaxEvents /\ published' = published + 1
    /\ notifyState' = [notifyState EXCEPT ![c] = @ \ {k}]
    /\ cards' = [cards EXCEPT ![<<c, k>>] = 0]
    /\ UNCHANGED <<live, queue, inbound, waits, out, muted, routing, lastDelivered,
                   status, replies>>

(* An admin updates the channel: it is restarted, or only stopped when it  *)
(* was disabled or would not start, and the notifier forgets it.           *)
UpdateChannel(c) ==
    /\ published < MaxEvents /\ published' = published + 1
    /\ live' \in {live \ {c}, live \union {c}}
    /\ notifyState' = [notifyState EXCEPT ![c] = {}]
    /\ cards' = [k \in DOMAIN cards |-> IF k[1] = c THEN 0 ELSE cards[k]]
    /\ UNCHANGED <<queue, inbound, waits, out, muted, routing, lastDelivered,
                   status, replies>>

HandlerStep(m) == Submit(m) \/ BeginReplyWait(m) \/ Register(m)
TimerStep(m) == TimerFires(m) \/ OnReplyTimeout(m)
OutboundStep ==
    \/ \E t \in Topics : RunOutbound(t)
    \/ \E c \in Channels : DispatchTo(c)
    \/ \E m \in Msgs : DeliverTo(m)

Next ==
    \/ \E m \in Msgs : \/ HandlerStep(m) \/ TimerStep(m)
                       \/ \E c \in Channels, r \in 0..MaxEvents : Receive(m, c, r)
    \/ OutboundStep
    \/ \E e \in Events : Publish(e[1], e[2], e[3])
    \/ \E c \in Channels : \/ UpdateChannel(c) \/ SetMuted(c)
                           \/ \E s \in Sessions \union {None} : SetActiveSession(c, s)
                           \/ \E k \in Keys : RecordExpires(c, k)

Spec == Init /\ [][Next]_vars

(* Goroutines run and timers fire; nothing is assumed of chats, sessions,  *)
(* the bus or the admins.                                                  *)
Fairness ==
    /\ WF_vars(OutboundStep)
    /\ \A m \in Msgs : WF_vars(HandlerStep(m)) /\ WF_vars(TimerStep(m))

(***************************************************************************)
(* Properties.                                                             *)
(***************************************************************************)

TypeOK ==
    /\ live \subseteq Channels /\ muted \subseteq Channels /\ armed \subseteq Sessions
    /\ \A t \in Topics : Len(queue[t]) <= TopicBuffer
    /\ hpc \in [Msgs -> {"new", "submit", "expect", "register", "done"}]
    /\ pending \in [Channels \X Sessions -> Msgs \union {None}]
    /\ typing \subseteq Msgs /\ timer \in [Msgs -> {"off", "armed", "fired"}]
    /\ \A c \in Channels : notifyState[c] \subseteq Keys /\ Len(outboundIndex[c]) <= OutboundMax

(* "typing..." stops, whatever events are dropped, however many messages   *)
(* reach one session, and whether or not the channel is still there.       *)
TypingStops == \A m \in Msgs : m \in typing ~> m \notin typing

(* A message gets at most one reply: no event, timer or newer message      *)
(* hands it out twice.                                                     *)
RepliedOnce == \A m \in Msgs : replies[m] <= 1

(* A message waits until its turn completes, its session is over or a      *)
(* newer message takes its place: the cap never forgets it.                *)
WaitingIsPending == \A m \in Msgs : status[m] = "waiting" => pending[msg[m]] = m

(* A reply to the newest notification of a channel finds the session it    *)
(* was about, however full the index is and whatever is pinned.            *)
ReplyFindsNewest ==
    \A c \in Channels : newest[c].mid > 0 => LookupOutbound(c, newest[c].mid) = newest[c].sid

(* In once mode one card per topic and session, until the operator answers *)
(* it, the channel is updated or a day passes.                             *)
NotifiedOnce == NotifyMode = "once" => \A k \in DOMAIN cards : cards[k] <= 1
=============================================================================
