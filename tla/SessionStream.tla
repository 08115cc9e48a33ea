---------------------------- MODULE SessionStream ----------------------------
(***************************************************************************)
(* Clients that attach to the output of one run over a WebSocket: the pump *)
(* (pumpStdout, fanout), the subscriptions (Subscribe, unsub, closeSubs),  *)
(* the stream handler of handler.go, and the end of the run.               *)
(*                                                                         *)
(* A chunk of output is modelled by its number.  The ring is used through  *)
(* what RingBuffer proves of it: Buffer(id, 0) returns the last RingSize   *)
(* chunks, in order.                                                       *)
(***************************************************************************)
EXTENDS Naturals, Sequences, FiniteSets, SequencesExt, TLAPS

CONSTANTS
    Clients,
    RingSize,      \* chunks the ring holds
    FanoutBuffer,  \* capacity of a subscriber's channel
    MaxOutput      \* bound: chunks the process writes

VARIABLES
    written,   \* chunks in the ring, evicted ones included
    inHand,    \* has the pump written a chunk that it has not fanned out?
    run,       \* "running", then "terminal", "closed" (closeSubs), "dropped"
    subs,      \* rs.subs
    queue,     \* the channel of each subscriber
    hpc,       \* where each client's stream handler stands
    recv,      \* chunks sent to the client over this connection, in order
    base,      \* history: `written` when the client registered
    missed     \* history: a chunk was dropped because the channel was full

vars == <<written, inHand, run, subs, queue, hpc, recv, base, missed>>

Init ==
    /\ written = 0 /\ inHand = FALSE /\ run = "running" /\ subs = {}
    /\ queue = [c \in Clients |-> <<>>] /\ recv = [c \in Clients |-> <<>>]
    /\ hpc = [c \in Clients |-> "away"]
    /\ base = [c \in Clients |-> 0] /\ missed = [c \in Clients |-> FALSE]

(***************************************************************************)
(* The pump.                                                               *)
(***************************************************************************)

(* A chunk is read from the PTY, which waitExit closes, and stored.        *)
PumpWrite ==
    /\ run \in {"running", "terminal"} /\ ~inHand /\ written < MaxOutput
    /\ written' = written + 1 /\ inHand' = TRUE
    /\ UNCHANGED <<run, subs, queue, hpc, recv, base, missed>>

(* Mutant of HasRoom: one chunk more than the channel holds.               *)
HasRoomOffByOne(c) == Len(queue[c]) <= FanoutBuffer

HasRoom(c) == Len(queue[c]) < FanoutBuffer

(* Mutant of Fanout: the first full channel ends the loop.                 *)
FanoutStopsAtFull ==
    /\ inHand /\ inHand' = FALSE
    /\ LET ok == \A c \in subs : HasRoom(c) IN
         /\ queue' = [c \in Clients |-> IF c \in subs /\ ok THEN Append(queue[c], written - 1)
                                        ELSE queue[c]]
         /\ missed' = [c \in Clients |-> missed[c] \/ (c \in subs /\ ~HasRoom(c))]
    /\ UNCHANGED <<written, run, subs, hpc, recv, base>>

(* fanout: under subsMu, to every subscriber whose channel has room.       *)
Fanout ==
    /\ inHand /\ inHand' = FALSE
    /\ queue' = [c \in Clients |-> IF c \in subs /\ HasRoom(c)
                                   THEN Append(queue[c], written - 1) ELSE queue[c]]
    /\ missed' = [c \in Clients |-> missed[c] \/ (c \in subs /\ ~HasRoom(c))]
    /\ UNCHANGED <<written, run, subs, hpc, recv, base>>

(***************************************************************************)
(* The stream handler.                                                     *)
(***************************************************************************)

(* Subscribe looks at endedCh and the state (a session that has ended gets *)
(* a clean close) ...                                                      *)
SubscribeCheck(c) ==
    /\ hpc[c] = "away" /\ run = "running"
    /\ hpc' = [hpc EXCEPT ![c] = "checked"]
    /\ UNCHANGED <<written, inHand, run, subs, queue, recv, base, missed>>

(* ... and registers the channel in a critical section of its own.         *)
SubscribeAdd(c) ==
    /\ hpc[c] = "checked"
    /\ subs' = subs \union {c}
    /\ base' = [base EXCEPT ![c] = written]
    /\ missed' = [missed EXCEPT ![c] = FALSE]
    /\ hpc' = [hpc EXCEPT ![c] = "subscribed"]
    /\ UNCHANGED <<written, inHand, run, queue, recv>>

Oldest == IF written > RingSize THEN written - RingSize ELSE 0

RingContents == [i \in 1..(written - Oldest) |-> Oldest + i - 1]

(* Buffer(id, 0) is sent first, if the session is still in the live map.   *)
Replay(c) ==
    /\ hpc[c] = "subscribed"
    /\ recv' = [recv EXCEPT ![c] = IF run = "dropped" THEN <<>> ELSE RingContents]
    /\ hpc' = [hpc EXCEPT ![c] = "live"]
    /\ UNCHANGED <<written, inHand, run, subs, queue, base, missed>>

(* Mutant of WriterSend: the writer stops when its channel is closed.      *)
WriterSendWhileOpen(c) ==
    /\ hpc[c] = "live" /\ queue[c] # <<>> /\ c \in subs
    /\ recv' = [recv EXCEPT ![c] = Append(@, Head(queue[c]))]
    /\ queue' = [queue EXCEPT ![c] = Tail(@)]
    /\ UNCHANGED <<written, inHand, run, subs, hpc, base, missed>>

(* The writer goroutine: `for data := range ch`.                           *)
WriterSend(c) ==
    /\ hpc[c] = "live" /\ queue[c] # <<>>
    /\ recv' = [recv EXCEPT ![c] = Append(@, Head(queue[c]))]
    /\ queue' = [queue EXCEPT ![c] = Tail(@)]
    /\ UNCHANGED <<written, inHand, run, subs, hpc, base, missed>>

(* The upgrade fails, the client goes away, or its input is refused: the   *)
(* handler returns through the deferred unsub.                             *)
Leave(c) ==
    /\ hpc[c] \in {"subscribed", "live"}
    /\ subs' = subs \ {c}
    /\ queue' = [queue EXCEPT ![c] = <<>>] /\ recv' = [recv EXCEPT ![c] = <<>>]
    /\ hpc' = [hpc EXCEPT ![c] = "away"]
    /\ UNCHANGED <<written, inHand, run, base, missed>>

(***************************************************************************)
(* waitExit.                                                               *)
(***************************************************************************)

SetTerminal ==
    /\ run = "running" /\ run' = "terminal"
    /\ UNCHANGED <<written, inHand, subs, queue, hpc, recv, base, missed>>

(* pty.Close and closeSubs.  What is in the channels can still be read.    *)
CloseSubs ==
    /\ run = "terminal" /\ run' = "closed"
    /\ subs' = {}
    /\ UNCHANGED <<written, inHand, queue, hpc, recv, base, missed>>

DropFromMap ==
    /\ run = "closed" /\ run' = "dropped"
    /\ UNCHANGED <<written, inHand, subs, queue, hpc, recv, base, missed>>

HandlerStep(c) == SubscribeAdd(c) \/ Replay(c) \/ WriterSend(c)

ExitStep == CloseSubs \/ DropFromMap

Next ==
    \/ PumpWrite \/ Fanout
    \/ \E c \in Clients : SubscribeCheck(c) \/ HandlerStep(c) \/ Leave(c)
    \/ SetTerminal \/ ExitStep

Spec == Init /\ [][Next]_vars

(* The goroutines run; clients attach and leave, and processes write and   *)
(* exit, as they please.                                                   *)
FairSpec ==
    /\ Spec
    /\ WF_vars(Fanout) /\ WF_vars(ExitStep)
    /\ \A c \in Clients : WF_vars(HandlerStep(c))

(***************************************************************************)
(* Properties.                                                             *)
(***************************************************************************)

Chunks == 0..(MaxOutput - 1)

(* Every variable has its type; no channel holds more than its capacity.   *)
TypeOK ==
    /\ written \in 0..MaxOutput /\ inHand \in BOOLEAN
    /\ run \in {"running", "terminal", "closed", "dropped"} /\ subs \subseteq Clients
    /\ queue \in [Clients -> Seq(Chunks)] /\ \A c \in Clients : Len(queue[c]) <= FanoutBuffer
    /\ hpc \in [Clients -> {"away", "checked", "subscribed", "live"}]
    /\ recv \in [Clients -> Seq(Chunks)]
    /\ base \in [Clients -> 0..MaxOutput] /\ missed \in [Clients -> BOOLEAN]

(* Chunks that fanout is done with.                                        *)
FannedOut == IF inHand THEN written - 1 ELSE written

Holds(c) == ToSet(recv[c]) \union ToSet(queue[c])

FirstOf(c) == IF recv[c] = <<>> THEN base[c] ELSE recv[c][1]

(* Subscribing before the replay leaves no hole between the two: unless a  *)
(* chunk was dropped because the client was slow, an attached client of a  *)
(* live run has, or has in its channel, everything since its first chunk.  *)
NoSilentGap ==
    \A c \in subs : hpc[c] = "live" /\ ~missed[c] =>
      \A k \in FirstOf(c)..(FannedOut - 1) : k \in Holds(c)

(* A chunk that fanout has delivered to an attached client's channel is    *)
(* sent to it, also when the run ends meanwhile, unless the client leaves. *)
QueuedIsSent ==
    \A c \in Clients, k \in Chunks :
      k \in ToSet(queue[c]) ~> (k \in ToSet(recv[c]) \/ hpc[c] = "away")

(* A re-attach does not duplicate output.                                  *)
NoDuplicate == \A c \in Clients : IsInjective(recv[c])

(* A subscriber receives every chunk written after its registration.       *)
EveryChunk ==
    \A c \in subs : hpc[c] = "live" =>
      \A k \in base[c]..(FannedOut - 1) : k \in Holds(c)

(* Nobody is subscribed to a run whose subscribers have been closed: its   *)
(* channel would never be closed and its writer never end.                 *)
NoOrphanSub == run \in {"closed", "dropped"} => subs = {}

-----------------------------------------------------------------------------
(***************************************************************************)
(* Proofs: attaching to a run leaves no hole in its output, for every size *)
(* of the ring and of the channels, any number of clients, and any         *)
(* interleaving of the pump, the handlers and the end of the run.          *)
(***************************************************************************)

States == {"away", "checked", "subscribed", "live"}

(* The types the argument needs; whatever is sent was queued or replayed.  *)
StreamTyped ==
    /\ written \in Nat /\ inHand \in BOOLEAN /\ (inHand => written >= 1)
    /\ queue \in [Clients -> Seq(Nat)] /\ recv \in [Clients -> Seq(Nat)]
    /\ hpc \in [Clients -> States]
    /\ base \in [Clients -> Nat] /\ missed \in [Clients -> BOOLEAN]

(* Who is subscribed has come past SubscribeAdd; nothing is sent before    *)
(* the replay.                                                             *)
Attached ==
    /\ subs \subseteq Clients
    /\ \A c \in subs : hpc[c] \in {"subscribed", "live"} /\ base[c] <= written
    /\ \A c \in Clients : hpc[c] # "live" => recv[c] = <<>>
    /\ \A c \in Clients : hpc[c] \in {"away", "checked"} => queue[c] = <<>>

(* A channel holds what was fanned out since it was registered, with the   *)
(* chunk that the pump had in hand at that time.                           *)
OnlyNew == \A c \in subs : \A k \in ToSet(queue[c]) : k + 1 >= base[c]

(* Between its registration and its replay, a client has in its channel    *)
(* all that was fanned out since.                                          *)
Waiting ==
    \A c \in subs : hpc[c] = "subscribed" /\ ~missed[c] =>
      \A k \in base[c]..(FannedOut - 1) : k \in ToSet(queue[c])

StreamInv == StreamTyped /\ Attached /\ OnlyNew /\ Waiting /\ NoSilentGap

-----------------------------------------------------------------------------
(* What the channels and connections hold when a chunk enters or leaves.   *)
LEMMA SetOfAppend ==
    ASSUME NEW q \in Seq(Nat), NEW e \in Nat
    PROVE /\ Append(q, e) \in Seq(Nat)
          /\ ToSet(Append(q, e)) = ToSet(q) \union {e}
          /\ q # <<>> => Append(q, e)[1] = q[1]
          /\ Append(q, e) # <<>> /\ Append(<<>>, e)[1] = e
<1>1. /\ Append(q, e) \in Seq(Nat) /\ Len(q) \in Nat /\ Len(Append(q, e)) = Len(q) + 1
      /\ Append(q, e)[Len(q) + 1] = e /\ \A i \in 1..Len(q) : Append(q, e)[i] = q[i]
      /\ q # <<>> => Len(q) >= 1
  OBVIOUS
<1>2. DOMAIN q = 1..Len(q) /\ DOMAIN Append(q, e) = 1..(Len(q) + 1)
  BY <1>1
<1>3. ToSet(Append(q, e)) = ToSet(q) \union {e}
  BY <1>1, <1>2 DEF ToSet
<1>4. q # <<>> => Append(q, e)[1] = q[1]
  BY <1>1
<1>5. Append(q, e) # <<>> /\ Append(<<>>, e)[1] = e
  BY <1>1
<1> QED
  BY <1>1, <1>3, <1>4, <1>5

(* What is left of a channel when its head is taken.                       *)
LEMMA SetOfTail ==
    ASSUME NEW q \in Seq(Nat), q # <<>>
    PROVE /\ Head(q) \in Nat /\ Tail(q) \in Seq(Nat)
          /\ ToSet(q) = {Head(q)} \union ToSet(Tail(q))
<1>1. Len(Tail(q)) = Len(q) - 1 /\ \A i \in 1..(Len(q) - 1) : Tail(q)[i] = q[i + 1]
  OBVIOUS
<1>2. Head(q) = q[1] /\ Head(q) \in Nat /\ Tail(q) \in Seq(Nat) /\ Len(q) \in Nat /\ Len(q) >= 1
  OBVIOUS
<1>3. ASSUME NEW i \in DOMAIN q PROVE q[i] \in {Head(q)} \union ToSet(Tail(q))
  <2>1. CASE i = 1
    BY <1>2, <2>1
  <2>2. CASE i # 1
    <3>1. i - 1 \in DOMAIN Tail(q) /\ Tail(q)[i - 1] = q[i]
      BY <1>1, <1>2, <2>2
    <3> QED
      BY <3>1 DEF ToSet
  <2> QED
    BY <2>1, <2>2
<1>4. ASSUME NEW i \in DOMAIN Tail(q) PROVE Tail(q)[i] \in ToSet(q)
  <2>1. i + 1 \in DOMAIN q /\ Tail(q)[i] = q[i + 1]
    BY <1>1, <1>2
  <2> QED
    BY <2>1 DEF ToSet
<1>5. Head(q) \in ToSet(q)
  BY <1>2 DEF ToSet
<1> QED
  BY <1>2, <1>3, <1>4, <1>5 DEF ToSet

-----------------------------------------------------------------------------
(* Before anything is written, nobody is attached.                         *)
LEMMA InitStream == Init => StreamInv
<1> SUFFICES ASSUME Init PROVE StreamInv
  OBVIOUS
<1>1. inHand \in BOOLEAN /\ ~inHand /\ missed \in [Clients -> BOOLEAN]
  BY Zenon DEF Init
<1>2. /\ written = 0 /\ subs = {} /\ queue = [c \in Clients |-> <<>>]
      /\ recv = [c \in Clients |-> <<>>] /\ hpc = [c \in Clients |-> "away"]
      /\ base = [c \in Clients |-> 0]
  BY DEF Init
<1>3. StreamTyped
  BY <1>1, <1>2 DEF StreamTyped, States
<1>4. Attached /\ OnlyNew /\ Waiting /\ NoSilentGap
  BY <1>2 DEF Attached, OnlyNew, Waiting, NoSilentGap
<1> QED
  BY <1>3, <1>4 DEF StreamInv

(* The pump stores a chunk: it is fanned out later, so nobody misses it.   *)
LEMMA PumpWriteStep == StreamInv /\ PumpWrite => StreamInv'
<1> SUFFICES ASSUME StreamInv, PumpWrite PROVE StreamInv'
  OBVIOUS
<1>1. /\ written \in Nat /\ ~inHand /\ written' = written + 1 /\ inHand'
      /\ UNCHANGED <<run, subs, queue, hpc, recv, base, missed>>
  BY DEF StreamInv, StreamTyped, PumpWrite
<1>2. FannedOut' = FannedOut
  BY <1>1 DEF FannedOut
<1>3. StreamTyped'
  BY <1>1 DEF StreamInv, StreamTyped
<1>4. Attached' /\ OnlyNew'
  BY <1>1 DEF StreamInv, StreamTyped, Attached, OnlyNew
<1>5. Waiting' /\ NoSilentGap'
  BY <1>1, <1>2 DEF StreamInv, Waiting, NoSilentGap, FirstOf, Holds
<1> QED
  BY <1>3, <1>4, <1>5 DEF StreamInv

(* fanout: the chunk enters every channel that has room, the others have   *)
(* missed it.                                                              *)
LEMMA FanoutStep == StreamInv /\ Fanout => StreamInv'
<1> SUFFICES ASSUME StreamInv, Fanout PROVE StreamInv'
  OBVIOUS
<1> DEFINE e == written - 1
<1>1. /\ e \in Nat /\ inHand /\ ~inHand' /\ written \in Nat
      /\ UNCHANGED <<written, run, subs, hpc, recv, base>>
      /\ subs \subseteq Clients /\ queue \in [Clients -> Seq(Nat)] /\ missed \in [Clients -> BOOLEAN]
  BY DEF StreamInv, StreamTyped, Attached, Fanout
<1>2. FannedOut = e /\ FannedOut' = e + 1
  BY <1>1 DEF FannedOut
<1>3. queue' = [c \in Clients |-> IF c \in subs /\ HasRoom(c) THEN Append(queue[c], e) ELSE queue[c]]
  BY DEF Fanout
<1>4. missed' = [c \in Clients |-> missed[c] \/ (c \in subs /\ ~HasRoom(c))]
  BY DEF Fanout
<1>5. ASSUME NEW c \in Clients
      PROVE /\ queue'[c] \in Seq(Nat)
            /\ queue'[c] = queue[c] \/ c \in subs
            /\ ToSet(queue'[c]) \subseteq ToSet(queue[c]) \union {e}
            /\ c \in subs /\ ~missed'[c] => /\ ~missed[c]
                                           /\ ToSet(queue'[c]) = ToSet(queue[c]) \union {e}
  <2>1. missed'[c] = (missed[c] \/ (c \in subs /\ ~HasRoom(c)))
    BY <1>4
  <2>2. queue'[c] = IF c \in subs /\ HasRoom(c) THEN Append(queue[c], e) ELSE queue[c]
    BY <1>3
  <2>3. Append(queue[c], e) \in Seq(Nat) /\ ToSet(Append(queue[c], e)) = ToSet(queue[c]) \union {e}
    BY <1>1, SetOfAppend
  <2> HIDE DEF e
  <2> QED
    BY <1>1, <2>1, <2>2, <2>3
<1>6. StreamTyped'
  <2>1. missed' \in [Clients -> BOOLEAN]
    BY <1>4
  <2>2. queue' \in [Clients -> Seq(Nat)]
    BY <1>3, <1>5
  <2>3. inHand' \in BOOLEAN
    BY DEF Fanout
  <2> QED
    BY <1>1, <2>1, <2>2, <2>3 DEF StreamInv, StreamTyped
<1>7. Attached' /\ OnlyNew'
  <2>1. Attached'
    BY <1>1, <1>5 DEF StreamInv, Attached
  <2>2. ASSUME NEW c \in subs PROVE base[c] \in Nat /\ e + 1 >= base[c]
    BY <1>1 DEF StreamInv, StreamTyped, Attached
  <2> HIDE DEF e
  <2>3. OnlyNew'
    BY <1>1, <1>5, <2>2 DEF StreamInv, OnlyNew
  <2> QED
    BY <2>1, <2>3
<1>8. Waiting'
  <2> SUFFICES ASSUME NEW c \in subs, hpc[c] = "subscribed", ~missed'[c],
                      NEW k \in base[c]..e
               PROVE k \in ToSet(queue'[c])
    BY <1>1, <1>2 DEF Waiting
  <2>1. k = e \/ k \in base[c]..(e - 1)
    BY <1>1
  <2> HIDE DEF e
  <2> QED
    BY <1>1, <1>2, <1>5, <2>1 DEF StreamInv, Waiting
<1>9. NoSilentGap'
  <2> SUFFICES ASSUME NEW c \in subs, hpc[c] = "live", ~missed'[c],
                      NEW k \in FirstOf(c)..e
               PROVE k \in ToSet(recv[c]) \union ToSet(queue'[c])
    BY <1>1, <1>2 DEF NoSilentGap, FirstOf, Holds
  <2>1. FirstOf(c) \in Nat
    BY <1>1 DEF FirstOf, StreamInv, StreamTyped
  <2>2. k = e \/ k \in FirstOf(c)..(e - 1)
    BY <1>1, <2>1
  <2> HIDE DEF e
  <2> QED
    BY <1>1, <1>2, <1>5, <2>2 DEF StreamInv, NoSilentGap, Holds
<1> QED
  BY <1>6, <1>7, <1>8, <1>9 DEF StreamInv

(* SubscribeAdd: from here on the channel gets every chunk.  The one the   *)
(* pump may have in hand is in the ring already.                           *)
LEMMA SubscribeAddStep == ASSUME NEW c \in Clients PROVE StreamInv /\ SubscribeAdd(c) => StreamInv'
<1> SUFFICES ASSUME StreamInv, SubscribeAdd(c) PROVE StreamInv'
  OBVIOUS
<1>1. /\ hpc[c] = "checked" /\ subs' = subs \union {c} /\ base' = [base EXCEPT ![c] = written]
      /\ hpc' = [hpc EXCEPT ![c] = "subscribed"]
      /\ UNCHANGED <<written, inHand, run, queue, recv>>
  BY DEF SubscribeAdd
<1>2. missed' \in [Clients -> BOOLEAN] /\ \A d \in Clients : d # c => missed'[d] = missed[d]
  BY Zenon DEF SubscribeAdd, StreamInv, StreamTyped
<1>3. \A d \in Clients : d # c => hpc'[d] = hpc[d] /\ base'[d] = base[d]
  BY <1>1 DEF StreamInv, StreamTyped
<1>4. hpc'[c] = "subscribed" /\ base'[c] = written /\ FannedOut' = FannedOut
  BY <1>1 DEF StreamInv, StreamTyped, FannedOut
<1>5. StreamTyped'
  BY <1>1, <1>2 DEF StreamInv, StreamTyped, States
<1>6. Attached' /\ OnlyNew'
  <2>1. ToSet(queue[c]) = {}
    BY <1>1 DEF StreamInv, Attached, ToSet
  <2> QED
    BY <1>1, <1>3, <1>4, <2>1 DEF StreamInv, StreamTyped, Attached, OnlyNew
<1>7. written..(FannedOut - 1) = {}
  BY DEF FannedOut, StreamInv, StreamTyped
<1>8. Waiting'
  BY <1>1, <1>2, <1>3, <1>4, <1>7 DEF StreamInv, Attached, Waiting
<1>9. NoSilentGap'
  BY <1>1, <1>2, <1>3, <1>4 DEF StreamInv, Attached, NoSilentGap, FirstOf, Holds
<1> QED
  BY <1>5, <1>6, <1>8, <1>9 DEF StreamInv

(* Buffer(id, 0), taken after Subscribe: the ring reaches up to the last   *)
(* chunk written, the channel holds what came after its registration.      *)
LEMMA ReplayStep ==
    ASSUME RingSize \in Nat, NEW c \in Clients
    PROVE StreamInv /\ Replay(c) => StreamInv'
<1> SUFFICES ASSUME StreamInv, Replay(c) PROVE StreamInv'
  OBVIOUS
<1> DEFINE sent == IF run = "dropped" THEN <<>> ELSE RingContents
<1>1. /\ hpc[c] = "subscribed" /\ recv' = [recv EXCEPT ![c] = sent]
      /\ hpc' = [hpc EXCEPT ![c] = "live"]
      /\ UNCHANGED <<written, inHand, run, subs, queue, base, missed>>
  BY DEF Replay
<1>2. Oldest \in Nat /\ Oldest <= written /\ written \in Nat
  BY DEF Oldest, StreamInv, StreamTyped
<1>3. RingContents \in Seq(Nat)
  BY <1>2 DEF RingContents
<1>4. /\ ToSet(RingContents) = Oldest..(written - 1)
      /\ RingContents # <<>> => RingContents[1] = Oldest
  <2>1. DOMAIN RingContents = 1..(written - Oldest)
    BY <1>2 DEF RingContents
  <2>2. \A i \in 1..(written - Oldest) : RingContents[i] = Oldest + i - 1
    BY DEF RingContents
  <2>3. ASSUME NEW k \in Oldest..(written - 1) PROVE k \in ToSet(RingContents)
    <3>1. k - Oldest + 1 \in 1..(written - Oldest) /\ Oldest + (k - Oldest + 1) - 1 = k
      BY <1>2
    <3> QED
      BY <2>1, <2>2, <3>1 DEF ToSet
  <2>4. ToSet(RingContents) \subseteq Oldest..(written - 1)
    <3> SUFFICES ASSUME NEW i \in 1..(written - Oldest)
                 PROVE Oldest + i - 1 \in Oldest..(written - 1)
      BY <2>1, <2>2 DEF ToSet
    <3> QED
      BY <1>2
  <2>5. RingContents # <<>> => RingContents[1] = Oldest
    BY <1>2, <1>3, <2>1, <2>2
  <2> QED
    BY <2>3, <2>4, <2>5
<1>5. sent \in Seq(Nat)
  BY <1>3
<1>6. /\ \A d \in Clients : d # c => hpc'[d] = hpc[d] /\ recv'[d] = recv[d]
      /\ hpc'[c] = "live" /\ recv'[c] = sent
  BY <1>1 DEF StreamInv, StreamTyped
<1>7. FannedOut' = FannedOut /\ FannedOut \in Nat /\ FannedOut <= written
  BY <1>1 DEF FannedOut, StreamInv, StreamTyped
<1> HIDE DEF sent
<1>8. StreamTyped'
  <2>1. recv' \in [Clients -> Seq(Nat)]
    BY <1>1, <1>5 DEF StreamInv, StreamTyped
  <2>2. hpc' \in [Clients -> States]
    BY <1>1 DEF StreamInv, StreamTyped, States
  <2> QED
    BY <1>1, <2>1, <2>2 DEF StreamInv, StreamTyped
<1>9. Attached' /\ OnlyNew'
  BY <1>1, <1>6 DEF StreamInv, Attached, OnlyNew
<1>10. Waiting'
  BY <1>1, <1>6, <1>7 DEF StreamInv, Attached, Waiting
<1>11. NoSilentGap'
  <2> SUFFICES ASSUME NEW d \in subs, hpc'[d] = "live", ~missed[d],
                      NEW k \in (FirstOf(d)')..(FannedOut - 1)
               PROVE k \in ToSet(recv'[d]) \union ToSet(queue[d])
    BY <1>1, <1>7 DEF NoSilentGap, FirstOf, Holds
  <2>1. CASE d # c
    BY <1>1, <1>6, <2>1 DEF StreamInv, Attached, NoSilentGap, FirstOf, Holds
  <2>2. CASE d = c /\ sent = <<>>
    BY <1>1, <1>6, <2>2 DEF StreamInv, Waiting, FirstOf
  <2>3. CASE d = c /\ sent # <<>>
    <3>1. sent = RingContents
      BY <2>3 DEF sent
    <3>2. FirstOf(d)' = Oldest
      BY <1>4, <1>6, <2>3, <3>1 DEF FirstOf
    <3>3. k \in Oldest..(written - 1)
      BY <1>2, <1>7, <3>2
    <3> QED
      BY <1>4, <1>6, <2>3, <3>1, <3>3
  <2> QED
    BY <2>1, <2>2, <2>3
<1> QED
  BY <1>8, <1>9, <1>10, <1>11 DEF StreamInv

(* The writer moves a chunk from the channel to the connection.            *)
LEMMA WriterSendStep == ASSUME NEW c \in Clients PROVE StreamInv /\ WriterSend(c) => StreamInv'
<1> SUFFICES ASSUME StreamInv, WriterSend(c) PROVE StreamInv'
  OBVIOUS
<1> DEFINE e == Head(queue[c])
<1>1. /\ hpc[c] = "live" /\ queue[c] # <<>> /\ queue[c] \in Seq(Nat) /\ recv[c] \in Seq(Nat)
      /\ recv' = [recv EXCEPT ![c] = Append(recv[c], e)]
      /\ queue' = [queue EXCEPT ![c] = Tail(queue[c])]
      /\ UNCHANGED <<written, inHand, run, subs, hpc, base, missed>>
  BY DEF WriterSend, StreamInv, StreamTyped
<1>2. e \in Nat /\ Tail(queue[c]) \in Seq(Nat) /\ ToSet(queue[c]) = {e} \union ToSet(Tail(queue[c]))
  BY <1>1, SetOfTail
<1>3. /\ Append(recv[c], e) \in Seq(Nat) /\ ToSet(Append(recv[c], e)) = ToSet(recv[c]) \union {e}
      /\ Append(recv[c], e) # <<>>
      /\ recv[c] # <<>> => Append(recv[c], e)[1] = recv[c][1]
      /\ recv[c] = <<>> => Append(recv[c], e)[1] = e
  BY <1>1, <1>2, SetOfAppend
<1>4. /\ \A d \in Clients : d # c => queue'[d] = queue[d] /\ recv'[d] = recv[d]
      /\ queue'[c] = Tail(queue[c]) /\ recv'[c] = Append(recv[c], e)
  BY <1>1 DEF StreamInv, StreamTyped
<1>5. StreamTyped'
  BY <1>1, <1>2, <1>3 DEF StreamInv, StreamTyped
<1>6. Attached' /\ OnlyNew'
  BY <1>1, <1>2, <1>4 DEF StreamInv, Attached, OnlyNew
<1>7. Waiting'
  BY <1>1, <1>4 DEF StreamInv, Attached, Waiting, FannedOut
<1>8. NoSilentGap'
  <2> HIDE DEF e
  <2> SUFFICES ASSUME NEW d \in subs, hpc[d] = "live", ~missed[d],
                      NEW k \in (FirstOf(d)')..(FannedOut - 1)
               PROVE k \in ToSet(recv'[d]) \union ToSet(queue'[d])
    BY <1>1 DEF NoSilentGap, FirstOf, Holds, FannedOut
  <2>1. d \in Clients /\ ToSet(recv'[d]) \union ToSet(queue'[d]) = Holds(d)
    <3>1. d \in Clients
      BY DEF StreamInv, Attached
    <3> QED
      BY <1>2, <1>3, <1>4, <3>1 DEF Holds
  <2>2. CASE d # c
    BY <1>1, <1>4, <2>1, <2>2 DEF StreamInv, NoSilentGap, FirstOf
  <2>3. CASE d = c /\ recv[c] # <<>>
    <3>1. FirstOf(d)' = FirstOf(d)
      BY <1>3, <1>4, <2>3 DEF FirstOf
    <3> QED
      BY <2>1, <3>1 DEF StreamInv, NoSilentGap
  <2>4. CASE d = c /\ recv[c] = <<>>
    <3>1. FirstOf(d)' = e /\ FirstOf(d) = base[c]
      BY <1>3, <1>4, <2>4 DEF FirstOf
    <3>2. e + 1 >= base[c] /\ base[c] \in Nat /\ FannedOut \in Nat
      <4>1. e \in ToSet(queue[c])
        BY <1>2
      <4>2. FannedOut \in Nat
        BY DEF StreamInv, StreamTyped, FannedOut
      <4> QED
        BY <2>1, <2>4, <4>1, <4>2 DEF StreamInv, StreamTyped, OnlyNew
    <3>3. k = e \/ k \in base[c]..(FannedOut - 1)
      BY <1>2, <3>1, <3>2
    <3>4. e \in Holds(d)
      BY <1>2, <2>4 DEF Holds
    <3> QED
      BY <2>1, <2>4, <3>1, <3>3, <3>4 DEF StreamInv, NoSilentGap
  <2> QED
    BY <2>2, <2>3, <2>4
<1> QED
  BY <1>5, <1>6, <1>7, <1>8 DEF StreamInv

(* The other steps of a handler, and the end of the run, only take clients *)
(* out of the subscriptions.                                               *)
LEMMA HandlerStepAside ==
    ASSUME NEW c \in Clients
    PROVE StreamInv /\ (SubscribeCheck(c) \/ Leave(c)) => StreamInv'
<1> SUFFICES ASSUME StreamInv, SubscribeCheck(c) \/ Leave(c) PROVE StreamInv'
  OBVIOUS
<1>1. UNCHANGED <<written, inHand, base, missed>>
  BY DEF SubscribeCheck, Leave
<1>2. StreamTyped'
  <2>1. queue' \in [Clients -> Seq(Nat)] /\ recv' \in [Clients -> Seq(Nat)]
    <3>1. <<>> \in Seq(Nat)
      OBVIOUS
    <3>2. CASE SubscribeCheck(c)
      BY <3>2 DEF StreamInv, StreamTyped, SubscribeCheck
    <3>3. CASE Leave(c)
      BY <3>1, <3>3 DEF StreamInv, StreamTyped, Leave
    <3> QED
      BY <3>2, <3>3
  <2>2. hpc' \in [Clients -> States]
    BY DEF StreamInv, StreamTyped, States, SubscribeCheck, Leave
  <2> QED
    BY <1>1, <2>1, <2>2 DEF StreamInv, StreamTyped
<1>3. subs' \subseteq subs /\ \A d \in subs' : hpc'[d] = hpc[d] /\ queue'[d] = queue[d] /\ recv'[d] = recv[d]
  BY DEF StreamInv, StreamTyped, Attached, SubscribeCheck, Leave
<1>4. Attached'
  BY <1>1, <1>3 DEF StreamInv, StreamTyped, Attached, SubscribeCheck, Leave
<1>5. OnlyNew' /\ Waiting' /\ NoSilentGap'
  BY <1>1, <1>3 DEF StreamInv, OnlyNew, Waiting, NoSilentGap, FirstOf, Holds, FannedOut
<1> QED
  BY <1>2, <1>4, <1>5 DEF StreamInv

(* The run ends, or nothing changes.                                       *)
LEMMA EndStep == StreamInv /\ (SetTerminal \/ ExitStep \/ UNCHANGED vars) => StreamInv'
<1> SUFFICES ASSUME StreamInv, SetTerminal \/ ExitStep \/ UNCHANGED vars PROVE StreamInv'
  OBVIOUS
<1>1. UNCHANGED <<written, inHand, queue, hpc, recv, base, missed>> /\ subs' \subseteq subs
  BY DEF SetTerminal, ExitStep, CloseSubs, DropFromMap, vars
<1>2. StreamTyped' /\ Attached' /\ OnlyNew' /\ Waiting' /\ NoSilentGap'
  BY <1>1 DEF StreamInv, StreamTyped, Attached, OnlyNew, Waiting, NoSilentGap, FirstOf, Holds, FannedOut
<1> QED
  BY <1>2 DEF StreamInv

-----------------------------------------------------------------------------
(* Stream's subscribe-then-replay: unless a chunk was dropped because the  *)
(* client was slow, an attached client has, or has in its channel,         *)
(* everything since the first chunk it was sent.                           *)
THEOREM AttachLeavesNoGap == ASSUME RingSize \in Nat PROVE Spec => []NoSilentGap
<1>1. StreamInv /\ [Next]_vars => StreamInv'
  BY PumpWriteStep, FanoutStep, SubscribeAddStep, ReplayStep, WriterSendStep, HandlerStepAside,
     EndStep DEF Next, HandlerStep
<1>2. StreamInv => NoSilentGap
  BY DEF StreamInv
<1> QED
  BY <1>1, <1>2, InitStream, PTL DEF Spec
=============================================================================
