---------------------------- MODULE ChatAdapters ----------------------------
(***************************************************************************)
(* How chat platforms are connected: Telegram polls (channel/telegram),    *)
(* Slack and Discord keep a websocket open (channel/slack,                 *)
(* channel/discord), the bridge is dialled by adapters of third parties    *)
(* (channel/bridge).  Each part has goroutines of its own that end with    *)
(* Stop; a deployment uses any of them.                                    *)
(***************************************************************************)
EXTENDS Naturals, Sequences, SequencesExt, FiniteSets

CONSTANTS
    Parts,       \* subset of {"telegram", "socket", "bridge"}: what is in use
    MaxUpdates,  \* bound on what the chat sends
    Polls,       \* 1..n: adapter instances, a bound on spawns
    ChunkSize,   \* telegramChunkSize
    MaxLines,    \* bound on the lines of a card
    Frames,      \* what the platform has to say: ids of envelopes
    Ignored,     \* those no session sees: a bot's own, or undecodable
    Presses,     \* those that are presses of a button (an interaction)
    Conns,       \* 1..n: connections, a bound on dials
    MaxSends,    \* how often the platform sends one envelope
    Bridges,     \* 1..n: instances of Bridge
    Adapters,    \* 1..n: connections of outside adapters
    Caps,        \* capabilities an adapter may declare
    Accepted     \* cfg.AcceptCapabilities

VARIABLES
    tgUpdates,    \* the server: the kinds of the updates sent so far
    tgConfirmed,  \* the server: updates up to this one are gone
    tgPoll,       \* tgPoll[i]: instance i of the adapter
    tgSeen,       \* history: tgSeen[i] is what instance i handed to the hub
    tgPanic,      \* history: a goroutine closed a nil channel
    tgCard,       \* the last SendCard: its input and what arrived
    platform,     \* "slack" or "discord"
    skPc,         \* where the loop is
    skCancel,     \* the loop's context is cancelled
    skDone,       \* s.done: "nil", "open" or "closed"
    skHeld,       \* the done channel the loop will close
    skConn,       \* s.conn: 0 or a connection
    skCur,        \* the connection serveWS works on
    skWire,       \* skWire[c]: "unused", "open", "dead" (no FIN) or "closed"
    skStop,       \* "none", "closing", "waiting", "done" or "late" (Stop timed out)
    skTaken,      \* the connection Stop took from s.conn
    skFrame,      \* the frame in hand
    skSends,      \* the platform: how often it sent an envelope
    skAcked,      \* the platform: the envelopes acknowledged
    skHandled,    \* history: the envelopes given to the hub
    skReady,      \* Discord: the connections identified on
    skOwed,       \* Discord: presses whose acknowledgement a goroutine has yet to post
    byToken,      \* Broker.byToken for the shared token: 0 or a bridge
    bridge,       \* bridge[b]: its conn, done, caps and life
    wsPc,         \* wsPc[c]: where the connection's goroutine is
    wsOpen,       \* wsOpen[c]: the connection is not closed
    wsFound,      \* the bridge serve looked up for c
    wsCaps,       \* the capabilities c declares
    wsDone,       \* wsDone[c]: how often the done channel of c was closed
    wsLate        \* history: c was attached to a bridge already stopped

-----------------------------------------------------------------------------
(***************************************************************************)
(* The Telegram adapter (channel/telegram): the long-poll loop that hands  *)
(* updates to the hub, and the pipeline that turns a card into messages    *)
(* Telegram accepts (format.go, splitForTelegram, rebalanceHTMLChunks).    *)
(* Every spawn of the hub makes a fresh adapter, whose offset starts at 0: *)
(* Telegram's own memory of the confirmed offset is all that survives.     *)
(* A text is a sequence of tokens: a word, a line feed, an opening or a    *)
(* closing <pre> tag, each one rune long.                                  *)
(***************************************************************************)

telegramVars == <<tgUpdates, tgConfirmed, tgPoll, tgSeen, tgPanic, tgCard>>

Kinds == {"message", "callback", "orphan"}      \* orphan: a callback with no message
NoCard == [lines |-> <<>>, keyboard |-> FALSE, arrived |-> <<>>, ok |-> FALSE, handle |-> FALSE]

Fresh == [pc |-> "none", offset |-> 0, batch |-> <<>>, cancelled |-> FALSE,
          done |-> "nil", captured |-> "nil", stop |-> "none"]

TelegramInit ==
    /\ tgUpdates = <<>> /\ tgConfirmed = 0 /\ tgPanic = FALSE /\ tgCard = NoCard
    /\ tgPoll = [i \in Polls |-> Fresh] /\ tgSeen = [i \in Polls |-> <<>>]

(* External: a user writes or taps a button; the server queues an update.  *)
ChatSends(k) ==
    /\ Len(tgUpdates) < MaxUpdates
    /\ tgUpdates' = Append(tgUpdates, k)
    /\ UNCHANGED <<tgConfirmed, tgPoll, tgSeen, tgPanic, tgCard>>

(***************************************************************************)
(* Start, Stop and the loop.                                               *)
(***************************************************************************)

(* The hub starts one adapter at a time: the one before has returned from  *)
(* Stop, in time or not.                                                   *)
TelegramStart(i) ==
    /\ tgPoll[i].pc = "none" /\ \A j \in 1 .. i - 1 : tgPoll[j].stop \in {"done", "timeout"}
    /\ tgPoll' = [tgPoll EXCEPT ![i] = [Fresh EXCEPT !.pc = "spawned", !.done = "open"]]
    /\ UNCHANGED <<tgUpdates, tgConfirmed, tgSeen, tgPanic, tgCard>>

(* The goroutine's first statement reads t.done for its deferred close.    *)
PollBegins(i) ==
    /\ tgPoll[i].pc = "spawned"
    /\ tgPoll' = [tgPoll EXCEPT ![i].pc = "top", ![i].captured = tgPoll[i].done]
    /\ UNCHANGED <<tgUpdates, tgConfirmed, tgSeen, tgPanic, tgCard>>

(* The top of the loop: a cancelled loop ends, otherwise getUpdates goes   *)
(* out, and the server forgets what lies before the offset.                *)
Poll(i) ==
    /\ tgPoll[i].pc = "top"
    /\ IF tgPoll[i].cancelled
         THEN /\ tgPoll' = [tgPoll EXCEPT ![i].pc = "ended",
                              ![i].captured = IF @ = "nil" THEN "nil" ELSE "closed"]
              /\ tgPanic' = (tgPanic \/ tgPoll[i].captured = "nil")
              /\ UNCHANGED tgConfirmed
         ELSE /\ tgPoll' = [tgPoll EXCEPT ![i].pc = "polling"]
              /\ tgConfirmed' = IF tgPoll[i].offset > tgConfirmed + 1
                                THEN tgPoll[i].offset - 1 ELSE tgConfirmed
              /\ UNCHANGED tgPanic
    /\ UNCHANGED <<tgUpdates, tgSeen, tgCard>>

(* getUpdates answers with what is unconfirmed, or fails (a timeout, a     *)
(* cancelled context, a server error): back off, and round again.          *)
Polled(i) ==
    /\ tgPoll[i].pc = "polling"
    /\ tgPoll' = [tgPoll EXCEPT ![i].pc = "top"]
    /\ UNCHANGED <<tgUpdates, tgConfirmed, tgSeen, tgPanic, tgCard>>

Received(i) ==
    LET from == IF tgPoll[i].offset > tgConfirmed THEN tgPoll[i].offset ELSE tgConfirmed + 1
    IN /\ tgPoll[i].pc = "polling" /\ ~tgPoll[i].cancelled /\ Len(tgUpdates) >= from
       /\ tgPoll' = [tgPoll EXCEPT ![i].pc = "batch",
                       ![i].batch = [n \in 1 .. Len(tgUpdates) - from + 1 |-> from + n - 1]]
       /\ UNCHANGED <<tgUpdates, tgConfirmed, tgSeen, tgPanic, tgCard>>

(* Mutant of Advance: > for >=.                                            *)
AdvanceStrictly(offset, u) == IF u > offset THEN u + 1 ELSE offset

(* Mutant of Advance: one too far.                                         *)
AdvanceTwice(offset, u) == IF u >= offset THEN u + 2 ELSE offset

Advance(offset, u) == IF u >= offset THEN u + 1 ELSE offset

(* One update of the batch: the offset moves first, then the hub is called *)
(* (a cancelled context does not end the batch).                           *)
Deliver(i) ==
    LET u == Head(tgPoll[i].batch) IN
    /\ tgPoll[i].pc = "batch"
    /\ tgPoll' = [tgPoll EXCEPT ![i].offset = Advance(@, u), ![i].batch = Tail(@),
                                ![i].pc = IF Len(tgPoll[i].batch) = 1 THEN "top" ELSE "batch"]
    /\ tgSeen' = IF tgUpdates[u] = "orphan" THEN tgSeen
                 ELSE [tgSeen EXCEPT ![i] = Append(@, u)]
    /\ UNCHANGED <<tgUpdates, tgConfirmed, tgPanic, tgCard>>

(* Mutant of TelegramStop: the caller does not wait for the loop.           *)
StopAtOnce(i) ==
    /\ tgPoll[i].pc # "none" /\ tgPoll[i].stop = "none"
    /\ tgPoll' = [tgPoll EXCEPT ![i].cancelled = TRUE, ![i].done = "nil", ![i].stop = "done"]
    /\ UNCHANGED <<tgUpdates, tgConfirmed, tgSeen, tgPanic, tgCard>>

TelegramStop(i) ==
    /\ tgPoll[i].pc # "none" /\ tgPoll[i].stop = "none"
    /\ tgPoll' = [tgPoll EXCEPT ![i].cancelled = TRUE, ![i].done = "nil", ![i].stop = "waiting"]
    /\ UNCHANGED <<tgUpdates, tgConfirmed, tgSeen, tgPanic, tgCard>>

(* Stop returns when the loop has closed done, or at its own deadline.     *)
TelegramStopReturns(i) ==
    /\ tgPoll[i].stop = "waiting"
    /\ \E how \in {"done", "timeout"} :
         /\ how = "done" => tgPoll[i].captured = "closed"
         /\ tgPoll' = [tgPoll EXCEPT ![i].stop = how]
    /\ UNCHANGED <<tgUpdates, tgConfirmed, tgSeen, tgPanic, tgCard>>

(***************************************************************************)
(* SendCard.  A Markdown line is a fence, a table row, a word, a blank, or *)
(* a line too long for one chunk.                                          *)
(***************************************************************************)

LineKinds == {"fence", "row", "word", "blank", "long"}
Content(l) == CASE l = "word" -> <<"w">> [] l = "row" -> <<"r">>
                [] l = "long" -> [n \in 1 .. ChunkSize + 1 |-> "w"] [] OTHER -> <<>>

(* One line through formatForTelegram: table rows wait in a buffer until   *)
(* another line flushes them; inside a fence nothing is a row.             *)
Flush(f) == [f EXCEPT !.out = @ \o f.table, !.table = <<>>]
FormatLine(f, l) ==
    CASE l = "fence" -> [Flush(f) EXCEPT !.out = @ \o (IF f.code THEN <<">", "nl">> ELSE <<"<">>),
                                         !.code = ~f.code]
      [] f.code -> [f EXCEPT !.out = @ \o Content(l) \o <<"nl">>]
      [] l = "row" -> [f EXCEPT !.table = @ \o <<"r", "nl">>]
      [] OTHER -> [Flush(f) EXCEPT !.out = @ \o Content(l) \o <<"nl">>]

(* strings.Trim of the line feeds at both ends.                            *)
TrimFeeds(s) ==
    LET kept == {n \in 1 .. Len(s) : s[n] # "nl"}
    IN IF kept = {} THEN <<>> ELSE SubSeq(s, Min(kept), Max(kept))

(* Mutant of formatForTelegram: a table that ends the text is not flushed. *)
FormatDropsLastTable(lines) ==
    LET f == FoldLeft(FormatLine, [out |-> <<>>, table |-> <<>>, code |-> FALSE], lines)
    IN f.out \o (IF f.code THEN <<">">> ELSE <<>>)

formatForTelegram(lines) ==
    LET f == Flush(FoldLeft(FormatLine, [out |-> <<>>, table |-> <<>>, code |-> FALSE], lines))
    IN TrimFeeds(f.out \o (IF f.code THEN <<">">> ELSE <<>>))

(* The pieces of text between line feeds.                                  *)
SplitLines(text) ==
    FoldLeft(LAMBDA ls, t : IF t = "nl" THEN Append(ls, <<>>)
                            ELSE [ls EXCEPT ![Len(ls)] = Append(@, t)], <<<<>>>>, text)

hardSplitRunes(s) ==
    [n \in 1 .. (Len(s) + ChunkSize - 1) \div ChunkSize |->
       SubSeq(s, (n - 1) * ChunkSize + 1, IF n * ChunkSize > Len(s) THEN Len(s) ELSE n * ChunkSize)]

FlushChunk(c) == IF c.b = <<>> THEN c ELSE [chunks |-> Append(c.chunks, c.b), b |-> <<>>]
AddLine(c, line) ==
    LET d == IF c.b # <<>> /\ Len(c.b) + Len(line) + 1 > ChunkSize THEN FlushChunk(c) ELSE c
    IN IF Len(line) > ChunkSize
         THEN [FlushChunk(d) EXCEPT !.chunks = @ \o hardSplitRunes(line)]
       ELSE [d EXCEPT !.b = (IF @ = <<>> THEN <<>> ELSE Append(@, "nl")) \o line]

splitForTelegram(text) ==
    IF Len(text) <= ChunkSize THEN <<text>>
    ELSE FlushChunk(FoldLeft(AddLine, [chunks |-> <<>>, b |-> <<>>], SplitLines(text))).chunks

Count(s, t) == Len(SelectSeq(s, LAMBDA x : x = t))

(* Mutant of Balance: the state the chunk began in is forgotten.           *)
BalanceForgets(open, c) == Count(c, "<") > Count(c, ">")

(* Is <pre> open at the end of the chunk?                                  *)
Balance(open, c) == \/ Count(c, "<") > Count(c, ">")
                    \/ open /\ Count(c, "<") = Count(c, ">")

rebalanceHTMLChunks(chunks) ==
    FoldLeft(LAMBDA r, c :
               LET open == Balance(r.open, c)
               IN [out |-> Append(r.out, (IF r.open THEN <<"<">> ELSE <<>>) \o c
                                           \o (IF open THEN <<">">> ELSE <<>>)),
                   open |-> open], [out |-> <<>>, open |-> FALSE], chunks).out

(* SendCard: chunk by chunk until one fails; buttons ride on the last; the *)
(* handle is kept only when all went out.                                  *)
TelegramSendCard(lines, keyboard) ==
    LET chunks == rebalanceHTMLChunks(splitForTelegram(formatForTelegram(lines)))
    IN /\ tgCard = NoCard
       /\ \E n \in 0 .. Len(chunks) :
            tgCard' = [lines |-> lines, keyboard |-> keyboard /\ n = Len(chunks),
                       arrived |-> SubSeq(chunks, 1, n), ok |-> n = Len(chunks),
                       handle |-> n = Len(chunks)]
       /\ UNCHANGED <<tgUpdates, tgConfirmed, tgPoll, tgSeen, tgPanic>>

PollNext ==
    \/ \E k \in Kinds : ChatSends(k)
    \/ \E i \in Polls : TelegramStart(i) \/ PollBegins(i) \/ Poll(i) \/ Polled(i) \/ Received(i)
                          \/ Deliver(i) \/ TelegramStop(i) \/ TelegramStopReturns(i)

(* The loop and SendCard share no state, so a behaviour polls or sends.    *)
TelegramNext ==
    \/ tgCard = NoCard /\ PollNext
    \/ /\ tgUpdates = <<>> /\ \A i \in Polls : tgPoll[i].pc = "none"
       /\ \E lines \in BoundedSeq(LineKinds, MaxLines), kb \in BOOLEAN : TelegramSendCard(lines, kb)

TelegramTypeOK ==
    /\ \A n \in 1 .. Len(tgUpdates) : tgUpdates[n] \in Kinds
    /\ tgConfirmed \in 0 .. MaxUpdates /\ tgPanic \in BOOLEAN
    /\ \A i \in Polls : tgPoll[i].offset \in 0 .. MaxUpdates + 1

(* The offset never runs ahead of the hub: whatever Telegram has forgotten *)
(* some instance of the adapter handed over, or it was a tap on a button   *)
(* whose message is gone.  Restarts repeat updates, they never skip one.   *)
NothingSkipped ==
    \A u \in 1 .. tgConfirmed :
       u <= Len(tgUpdates) /\ (tgUpdates[u] = "orphan"
                                 \/ \E i \in Polls, n \in 1 .. MaxUpdates :
                                      n <= Len(tgSeen[i]) /\ tgSeen[i][n] = u)

(* One instance hands every update over once, in the order of the chat:    *)
(* whatever fails, the loop does not type a message twice.                 *)
OncePerInstance ==
    \A i \in Polls : \A m, n \in 1 .. Len(tgSeen[i]) : m < n => tgSeen[i][m] < tgSeen[i][n]

StoppedIsSilentStep == \A i \in Polls : tgPoll[i].stop = "done" => tgSeen'[i] = tgSeen[i]

(* After Stop returned without a timeout the adapter is silent: the hub    *)
(* may start its successor with no message handled by both at once.        *)
StoppedIsSilent == [][StoppedIsSilentStep]_telegramVars

Words(s) == SelectSeq(s, LAMBDA t : t \in {"w", "r"})

(* A card that SendCard reports as sent arrived whole and in order, and    *)
(* what arrived of one that failed is a beginning of it.                   *)
CardArrives ==
    LET all == FlattenSeq([n \in 1 .. Len(tgCard.lines) |-> Content(tgCard.lines[n])])
        got == Words(FlattenSeq(tgCard.arrived))
    IN /\ IsPrefix(got, all)
       /\ tgCard.ok => got = all

(* Every message is HTML of its own: tags pair up in it, alternating, and  *)
(* but for the tags the split adds none is longer than the ceiling.        *)
ChunksStandAlone ==
    \A n \in 1 .. Len(tgCard.arrived) :
       LET tags == SelectSeq(tgCard.arrived[n], LAMBDA t : t \in {"<", ">"})
       IN /\ Len(tgCard.arrived[n]) <= ChunkSize + 2
          /\ \A k \in 1 .. Len(tags) : tags[k] = IF k % 2 = 1 THEN "<" ELSE ">"
          /\ Len(tags) % 2 = 0

-----------------------------------------------------------------------------
(***************************************************************************)
(* The adapters that keep a websocket open to the platform: Slack (socket  *)
(* mode: envelopes the adapter acknowledges, a read deadline that pongs    *)
(* push on) and Discord (gateway: hello, identify, heartbeats, dispatches  *)
(* nobody acknowledges, no deadline).  Both run the same loop: look up the *)
(* address, dial, publish the connection, read until an error, dial again. *)
(* Stop races every step of it.                                            *)
(***************************************************************************)

socketVars == <<platform, skPc, skCancel, skDone, skHeld, skConn, skCur, skWire, skStop, skTaken,
          skFrame, skSends, skAcked, skHandled, skReady, skOwed>>
stopVars == <<skCancel, skDone, skStop, skTaken>>
chatVars == <<skFrame, skSends, skAcked, skHandled, skReady, skOwed>>

SocketInit ==
    /\ platform \in {"slack", "discord"}
    /\ skPc = "none" /\ skCancel = FALSE /\ skDone = "nil" /\ skHeld = "nil"
    /\ skConn = 0 /\ skCur = 0 /\ skWire = [c \in Conns |-> "unused"]
    /\ skStop = "none" /\ skTaken = 0 /\ skFrame = 0
    /\ skSends = [f \in Frames |-> 0] /\ skAcked = {} /\ skHandled = {} /\ skReady = {} /\ skOwed = {}

SocketStart ==
    /\ skPc = "none" /\ skPc' = "spawned" /\ skDone' = "open"
    /\ UNCHANGED <<platform, skCancel, skHeld, skConn, skCur, skWire, skStop, skTaken, chatVars>>

(* runLoop's first statement evaluates s.done for the deferred close.      *)
LoopBegins ==
    /\ skPc = "spawned" /\ skPc' = "top" /\ skHeld' = skDone
    /\ UNCHANGED <<platform, skConn, skCur, skWire, stopVars, chatVars>>

(* The head of runLoop, and every sleep of it: a cancelled loop ends.  A   *)
(* nil channel cannot be closed: the process would die.                    *)
LoopEnds ==
    /\ skPc = "top" /\ skCancel
    /\ skPc' = IF skHeld = "nil" THEN "panic" ELSE "ended"
    /\ skHeld' = IF skHeld = "nil" THEN "nil" ELSE "closed"
    /\ UNCHANGED <<platform, skConn, skCur, skWire, stopVars, chatVars>>

(* apps.connections.open, or GET /gateway; a failure backs off.            *)
OpenConnection ==
    /\ skPc = "top" /\ ~skCancel
    /\ skPc' \in {"top", "dial"}
    /\ UNCHANGED <<platform, skHeld, skConn, skCur, skWire, stopVars, chatVars>>

Unused == {c \in Conns : skWire[c] = "unused"}

Dial ==
    /\ skPc = "dial"
    /\ \/ /\ Unused # {} /\ skCur' = CHOOSE c \in Unused : \A d \in Unused : c <= d
          /\ skWire' = [skWire EXCEPT ![skCur'] = "open"] /\ skPc' = "publish"
       \/ skPc' = "top" /\ UNCHANGED <<skCur, skWire>>
    /\ UNCHANGED <<platform, skHeld, skConn, stopVars, chatVars>>

(* Mutant of Publish: no look at the context before the first read.        *)
PublishUnchecked ==
    /\ skPc = "publish" /\ skConn' = skCur /\ skPc' = "read"
    /\ UNCHANGED <<platform, skHeld, skCur, skWire, stopVars, chatVars>>

(* serveWS stores the connection where Stop finds it, then checks the      *)
(* context at the head of the read loop.                                   *)
Publish ==
    /\ skPc = "publish" /\ skConn' = skCur /\ skPc' = "check"
    /\ UNCHANGED <<platform, skHeld, skCur, skWire, stopVars, chatVars>>

Check ==
    /\ skPc = "check" /\ skPc' = IF skCancel THEN "leave" ELSE "read"
    /\ UNCHANGED <<platform, skHeld, skConn, skCur, skWire, stopVars, chatVars>>

(* A frame arrives: an envelope the platform has not seen acknowledged, a  *)
(* hello (Discord answers with identify and starts the heartbeat), or a    *)
(* request to reconnect.                                                   *)
ReadFrame(f) ==
    /\ skPc = "read" /\ skWire[skCur] = "open" /\ skFrame = 0
    /\ f \notin skAcked /\ skSends[f] < MaxSends
    /\ platform = "discord" => skCur \in skReady
    /\ skSends' = [skSends EXCEPT ![f] = @ + 1]
    /\ skFrame' = f /\ skPc' = "handle"
    /\ UNCHANGED <<platform, skHeld, skConn, skCur, skWire, stopVars, skAcked, skHandled, skReady, skOwed>>

Hello ==
    /\ skPc = "read" /\ skWire[skCur] = "open" /\ platform = "discord" /\ skCur \notin skReady
    /\ skReady' = skReady \union {skCur} /\ skPc' = "check"
    /\ UNCHANGED <<platform, skHeld, skConn, skCur, skWire, stopVars, skFrame, skSends, skAcked, skHandled, skOwed>>

AskedToReconnect ==
    /\ skPc = "read" /\ skWire[skCur] = "open" /\ skPc' = "leave"
    /\ UNCHANGED <<platform, skHeld, skConn, skCur, skWire, stopVars, chatVars>>

(* Mutant of HandleOnSlack: acknowledged before the hub has it.            *)
AckFirst ==
    /\ skPc = "handle" /\ platform = "slack" /\ skPc' = "ack"
    /\ skAcked' = skAcked \union {skFrame}
    /\ UNCHANGED <<platform, skHeld, skConn, skCur, skWire, stopVars, skFrame, skSends, skHandled, skReady, skOwed>>

(* handleEvent, handleInteractive, handleSlashCommand: the hub's handler   *)
(* runs in the read loop; what is not for it is dropped.                   *)
HandleOnSlack ==
    /\ skPc = "handle" /\ platform = "slack" /\ skPc' = "ack"
    /\ skHandled' = skHandled \union ({skFrame} \ Ignored)
    /\ UNCHANGED <<platform, skHeld, skConn, skCur, skWire, stopVars, skFrame, skSends, skAcked, skReady, skOwed>>

(* Slack's ack may be written to a connection that is gone; its error is   *)
(* not looked at.                                                          *)
Ack ==
    /\ skPc = "ack" /\ skPc' = "check" /\ skFrame' = 0
    /\ skAcked' = IF skWire[skCur] = "open" THEN skAcked \union {skFrame} ELSE skAcked
    /\ UNCHANGED <<platform, skHeld, skConn, skCur, skWire, stopVars, skSends, skHandled, skReady, skOwed>>

(* handleDispatch: a message of a bot, or a press without an id, is        *)
(* dropped; a press is acknowledged by a goroutine of its own, started     *)
(* before the hub's handler runs in the read loop.                         *)
HandleOnDiscord ==
    /\ skPc = "handle" /\ platform = "discord"
    /\ \/ /\ skFrame \in Ignored /\ skPc' = "check" /\ skFrame' = 0 /\ UNCHANGED skOwed
       \/ /\ skFrame \notin Ignored /\ skPc' = "hub" /\ UNCHANGED skFrame
          /\ skOwed' = skOwed \union ({skFrame} \intersect Presses)
    /\ UNCHANGED <<platform, skHeld, skConn, skCur, skWire, stopVars, skSends, skAcked, skHandled, skReady>>

HubHandles ==
    /\ skPc = "hub" /\ skPc' = "check" /\ skFrame' = 0
    /\ skHandled' = skHandled \union {skFrame}
    /\ UNCHANGED <<platform, skHeld, skConn, skCur, skWire, stopVars, skSends, skAcked, skReady, skOwed>>

(* ackInteraction is a request of its own, over no connection of the loop  *)
(* and past any Stop; a failure is only logged.                            *)
AckInteraction(f) ==
    /\ f \in skOwed /\ skOwed' = skOwed \ {f}
    /\ skAcked' \in {skAcked, skAcked \union {f}}
    /\ UNCHANGED <<platform, skPc, skHeld, skConn, skCur, skWire, stopVars, skFrame, skSends, skHandled, skReady>>

(* Mutant of ReadFails: Slack without the read deadline.                   *)
ReadFailsIfClosed ==
    /\ skPc = "read" /\ skWire[skCur] = "closed" /\ skPc' = "leave"
    /\ UNCHANGED <<platform, skHeld, skConn, skCur, skWire, stopVars, chatVars>>

(* ReadMessage fails: the connection was closed, or, with Slack's pongWait *)
(* deadline, nothing came over it.                                         *)
ReadFails ==
    /\ skPc = "read"
    /\ skWire[skCur] = "closed" \/ (skWire[skCur] = "dead" /\ platform = "slack")
    /\ skPc' = "leave"
    /\ UNCHANGED <<platform, skHeld, skConn, skCur, skWire, stopVars, chatVars>>

(* The deferred function of serveWS.                                       *)
Leave ==
    /\ skPc = "leave" /\ skPc' = "top"
    /\ skConn' = IF skConn = skCur THEN 0 ELSE skConn
    /\ skWire' = [skWire EXCEPT ![skCur] = "closed"] /\ skCur' = 0
    /\ UNCHANGED <<platform, skHeld, stopVars, chatVars>>

(* External: the peer closes the connection, or vanishes.                  *)
Peer(c, how) ==
    /\ skWire[c] = "open" /\ skWire' = [skWire EXCEPT ![c] = how]
    /\ UNCHANGED <<platform, skPc, skHeld, skConn, skCur, stopVars, chatVars>>

(* Stop takes what it needs under the lock, cancels, closes, and waits.    *)
SocketStop ==
    /\ skStop = "none" /\ skPc # "none"
    /\ skStop' = "closing" /\ skTaken' = skConn /\ skConn' = 0 /\ skDone' = "nil" /\ skCancel' = TRUE
    /\ UNCHANGED <<platform, skPc, skHeld, skCur, skWire, chatVars>>

StopCloses ==
    /\ skStop = "closing" /\ skStop' = "waiting"
    /\ skWire' = [c \in Conns |-> IF c = skTaken THEN "closed" ELSE skWire[c]]
    /\ UNCHANGED <<platform, skPc, skCancel, skDone, skHeld, skConn, skCur, skTaken, chatVars>>

(* Mutant of SocketStopReturns: Stop does not wait for the loop.            *)
StopReturnsAtOnce ==
    /\ skStop = "waiting" /\ skStop' = "done"
    /\ UNCHANGED <<platform, skPc, skCancel, skDone, skHeld, skConn, skCur, skWire, skTaken, chatVars>>

(* It returns when the loop closed its channel, or with an error when its  *)
(* caller's context ends first.                                            *)
SocketStopReturns ==
    /\ skStop = "waiting"
    /\ \/ skHeld = "closed" /\ skStop' = "done"
       \/ skStop' = "late"
    /\ UNCHANGED <<platform, skPc, skCancel, skDone, skHeld, skConn, skCur, skWire, skTaken, chatVars>>

Loop ==
    \/ LoopBegins \/ LoopEnds \/ OpenConnection \/ Dial \/ Publish \/ Check \/ Hello
    \/ HandleOnSlack \/ Ack \/ HandleOnDiscord \/ HubHandles \/ ReadFails \/ Leave

SocketNext ==
    \/ SocketStart \/ Loop \/ AskedToReconnect \/ SocketStop \/ StopCloses \/ SocketStopReturns
    \/ \E f \in Frames : ReadFrame(f) \/ AckInteraction(f)
    \/ \E c \in Conns, how \in {"dead", "closed"} : Peer(c, how)

SocketTypeOK ==
    /\ skConn \in Conns \union {0} /\ skCur \in Conns \union {0} /\ skTaken \in Conns \union {0}
    /\ skAcked \subseteq Frames /\ skHandled \subseteq Frames /\ skReady \subseteq Conns /\ skOwed \subseteq Presses
    /\ skWire \in [Conns -> {"unused", "open", "dead", "closed"}]

(* Whatever the race between Stop and a dial, the loop that Stop waits for *)
(* ends, be it after Stop's own timeout: it finds its context cancelled or *)
(* its connection closed.  (A Stop that comes before the loop's first      *)
(* statement ends in the panic of LoopEnds.)                               *)
StopEnds == skStop = "waiting" ~> skPc \in {"ended", "panic"}

(* Slack notices a connection that died without a word, by its deadline.   *)
DeadLinkLeft == (skPc = "read" /\ skWire[skCur] = "dead" /\ platform = "slack") ~> skPc # "read"

(* An envelope Slack will not send again was seen by the hub, whatever     *)
(* became of the connection between reading it and acknowledging it; a     *)
(* press Discord was told of reached the hub too, or is on its way.        *)
AckedIsHandled ==
    skAcked \subseteq skHandled \union
                     IF platform = "slack" THEN Ignored ELSE {skFrame}

StopIsFinalStep ==
    /\ skStop = "done" => skHandled' = skHandled
    /\ skStop \in {"waiting", "late"} => skFrame' \in {skFrame, 0}
    /\ skStop' = "done" => \A c \in Conns : skWire'[c] \notin {"open", "dead"}

(* Once Stop has returned nothing more reaches the hub, and no connection  *)
(* of the adapter is left open; while it waits, and when it timed out, the *)
(* frame in hand is the last one.                                          *)
StopIsFinal == [][StopIsFinalStep]_socketVars

-----------------------------------------------------------------------------
(***************************************************************************)
(* The bridge channel (channel/bridge): outside adapters connect to one    *)
(* websocket endpoint, name a bridge by its token in the register frame    *)
(* and are attached to it, in place of the adapter attached before.  One   *)
(* goroutine per connection reads it.  Bridges may share a token: the last *)
(* one registered owns it.                                                 *)
(***************************************************************************)

bridgeVars == <<byToken, bridge, wsPc, wsOpen, wsFound, wsCaps, wsDone, wsLate>>

BridgeInit ==
    /\ byToken = 0
    /\ bridge = [b \in Bridges |-> [life |-> "new", conn |-> 0, done |-> 0, caps |-> {}, wait |-> 0]]
    /\ wsPc = [c \in Adapters |-> "none"] /\ wsOpen = [c \in Adapters |-> FALSE]
    /\ wsFound = [c \in Adapters |-> 0] /\ wsDone = [c \in Adapters |-> 0]
    /\ wsCaps \in [Adapters -> SUBSET Caps]
    /\ wsLate = [c \in Adapters |-> FALSE]

BridgeStart(b) ==
    /\ bridge[b].life = "new" /\ bridge' = [bridge EXCEPT ![b].life = "registered"]
    /\ byToken' = b
    /\ UNCHANGED <<wsPc, wsOpen, wsFound, wsCaps, wsDone, wsLate>>

(* serve: upgrade, read the register frame (10 s), look the token up and   *)
(* acknowledge.  A bad frame or an unknown token closes the connection.    *)
Serve(c) ==
    /\ wsPc[c] = "none"
    /\ \/ /\ byToken # 0 /\ wsFound' = [wsFound EXCEPT ![c] = byToken]
          /\ wsPc' = [wsPc EXCEPT ![c] = "found"] /\ wsOpen' = [wsOpen EXCEPT ![c] = TRUE]
       \/ wsPc' = [wsPc EXCEPT ![c] = "refused"] /\ UNCHANGED <<wsFound, wsOpen>>
    /\ UNCHANGED <<byToken, bridge, wsCaps, wsDone, wsLate>>

(* Mutant of Attach: the adapter before is replaced but not closed.        *)
AttachBeside(c) ==
    LET b == wsFound[c] IN
    /\ wsPc[c] = "found"
    /\ bridge' = [bridge EXCEPT ![b].conn = c, ![b].done = c, ![b].caps = wsCaps[c] \intersect Accepted]
    /\ wsPc' = [wsPc EXCEPT ![c] = "reading"]
    /\ wsLate' = [wsLate EXCEPT ![c] = bridge[b].life = "stopped"]
    /\ UNCHANGED <<byToken, wsOpen, wsFound, wsCaps, wsDone>>

(* Mutant of Attach: the capabilities of the adapter before stay.          *)
AttachKeepsCaps(c) ==
    LET b == wsFound[c] IN
    /\ wsPc[c] = "found"
    /\ wsOpen' = [d \in Adapters |-> IF d = bridge[b].conn THEN FALSE ELSE wsOpen[d]]
    /\ bridge' = [bridge EXCEPT ![b].conn = c, ![b].done = c,
                                ![b].caps = @ \union (wsCaps[c] \intersect Accepted)]
    /\ wsPc' = [wsPc EXCEPT ![c] = "reading"]
    /\ wsLate' = [wsLate EXCEPT ![c] = bridge[b].life = "stopped"]
    /\ UNCHANGED <<byToken, wsFound, wsCaps, wsDone>>

(* attach closes and cancels the adapter before, under the lock; there is  *)
(* no look at whether the bridge was stopped since the lookup.             *)
Attach(c) ==
    LET b == wsFound[c] IN
    /\ wsPc[c] = "found"
    /\ wsOpen' = [d \in Adapters |-> IF d = bridge[b].conn THEN FALSE ELSE wsOpen[d]]
    /\ bridge' = [bridge EXCEPT ![b].conn = c, ![b].done = c, ![b].caps = wsCaps[c] \intersect Accepted]
    /\ wsPc' = [wsPc EXCEPT ![c] = "reading"]
    /\ wsLate' = [wsLate EXCEPT ![c] = bridge[b].life = "stopped"]
    /\ UNCHANGED <<byToken, wsFound, wsCaps, wsDone>>

(* Mutant of ReadPumpEnds: done is not closed.                             *)
ReadPumpEndsSilently(c) ==
    /\ wsPc[c] = "reading" /\ ~wsOpen[c]
    /\ wsPc' = [wsPc EXCEPT ![c] = "ended"]
    /\ UNCHANGED <<byToken, bridge, wsOpen, wsFound, wsCaps, wsDone, wsLate>>

(* While the connection is open readPump hands its messages and card       *)
(* actions to the hub.  The read fails: done, captured at attach, is       *)
(* closed.  The bridge keeps the dead connection and its capabilities.     *)
ReadPumpEnds(c) ==
    /\ wsPc[c] = "reading" /\ ~wsOpen[c]
    /\ wsPc' = [wsPc EXCEPT ![c] = "ended"]
    /\ wsDone' = [wsDone EXCEPT ![c] = @ + 1]
    /\ UNCHANGED <<byToken, bridge, wsOpen, wsFound, wsCaps, wsLate>>

(* External: the adapter hangs up, or pings fail and the deadline passes.  *)
HangUp(c) ==
    /\ wsOpen[c] /\ wsOpen' = [wsOpen EXCEPT ![c] = FALSE]
    /\ UNCHANGED <<byToken, bridge, wsPc, wsFound, wsCaps, wsDone, wsLate>>

(* Mutant of BridgeStop: Stop closes done itself, beside the reader.        *)
StopClosesDone(b) ==
    /\ bridge[b].life = "registered"
    /\ byToken' = 0
    /\ bridge' = [bridge EXCEPT ![b] = [life |-> "stopping", conn |-> 0, done |-> 0, caps |-> {}, wait |-> @.done]]
    /\ wsOpen' = [c \in Adapters |-> IF c = bridge[b].conn THEN FALSE ELSE wsOpen[c]]
    /\ wsDone' = [c \in Adapters |-> IF c = bridge[b].done THEN wsDone[c] + 1 ELSE wsDone[c]]
    /\ UNCHANGED <<wsPc, wsFound, wsCaps, wsLate>>

(* Stop takes the token out of the broker, whoever owns it by now, clears  *)
(* the bridge, closes the connection and waits for its reader.             *)
BridgeStop(b) ==
    /\ bridge[b].life = "registered"
    /\ byToken' = 0
    /\ bridge' = [bridge EXCEPT ![b] = [life |-> "stopping", conn |-> 0, done |-> 0, caps |-> {}, wait |-> @.done]]
    /\ wsOpen' = [c \in Adapters |-> IF c = bridge[b].conn THEN FALSE ELSE wsOpen[c]]
    /\ UNCHANGED <<wsPc, wsFound, wsCaps, wsDone, wsLate>>

BridgeStopReturns(b) ==
    /\ bridge[b].life = "stopping"
    /\ bridge[b].wait # 0 => wsDone[bridge[b].wait] > 0
    /\ bridge' = [bridge EXCEPT ![b].life = "stopped"]
    /\ UNCHANGED <<byToken, wsPc, wsOpen, wsFound, wsCaps, wsDone, wsLate>>

(* Send, SendCard and the rest: the frame goes to b.conn, gated by the     *)
(* capability the adapter declared; nothing attached is ErrNotSupported.   *)
BridgeSendCard(b, cap) ==
    IF cap \notin bridge[b].caps \/ bridge[b].conn = 0 THEN "ErrNotSupported"
    ELSE IF wsOpen[bridge[b].conn] THEN "sent" ELSE "write error"

BridgeNext ==
    \/ \E b \in Bridges : BridgeStart(b) \/ BridgeStop(b) \/ BridgeStopReturns(b)
    \/ \E c \in Adapters : Serve(c) \/ Attach(c) \/ ReadPumpEnds(c) \/ HangUp(c)

BridgeFairness == /\ \A c \in Adapters : WF_bridgeVars(ReadPumpEnds(c))
            /\ \A b \in Bridges : WF_bridgeVars(BridgeStopReturns(b))

BridgeTypeOK ==
    /\ byToken \in Bridges \union {0} /\ wsFound \in [Adapters -> Bridges \union {0}]
    /\ \A b \in Bridges : bridge[b].caps \subseteq Accepted /\ bridge[b].conn \in Adapters \union {0}

(* Of the adapters attached to a bridge at most one can still be heard:    *)
(* the one the bridge sends to.  A replaced adapter, or one whose bridge   *)
(* was stopped, types nothing into a session any more, unless its attach   *)
(* came after the stop.                                                    *)
OneVoice ==
    \A c \in Adapters : (wsPc[c] = "reading" /\ wsOpen[c] /\ ~wsLate[c])
                          => bridge[wsFound[c]].conn \in {c} \union {d \in Adapters : wsLate[d]}

(* No done channel is closed twice, however replacements, hang-ups and     *)
(* stops interleave: a second close would end the gateway.                 *)
DoneClosedOnce == \A c \in Adapters : wsDone[c] <= 1

(* Stop never waits for ever on the reader of a connection it closed.      *)
BridgeStops == \A b \in Bridges : bridge[b].life = "stopping" ~> bridge[b].life = "stopped"

(* What the hub may send to an adapter, that adapter declared and the      *)
(* configuration accepts: a card never goes to a replaced adapter's taste. *)
SentAsDeclared ==
    \A b \in Bridges, k \in Caps :
       BridgeSendCard(b, k) = "sent" => k \in wsCaps[bridge[b].conn] \intersect Accepted

-----------------------------------------------------------------------------
vars == <<telegramVars, socketVars, bridgeVars>>

Init == TelegramInit /\ SocketInit /\ BridgeInit

(* The parts share no state: a step of one leaves the others alone.        *)
Next ==
    \/ "telegram" \in Parts /\ TelegramNext /\ UNCHANGED <<socketVars, bridgeVars>>
    \/ "socket" \in Parts /\ SocketNext /\ UNCHANGED <<telegramVars, bridgeVars>>
    \/ "bridge" \in Parts /\ BridgeNext /\ UNCHANGED <<telegramVars, socketVars>>

Spec == Init /\ [][Next]_vars

TypeOK == TelegramTypeOK /\ SocketTypeOK /\ BridgeTypeOK
=============================================================================
