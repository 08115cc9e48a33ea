----------------------------- MODULE RingBuffer -----------------------------
(***************************************************************************)
(* The ring buffer of internal/session/ringbuf.go, which keeps the tail of *)
(* a session's output for replay, and a client that polls it through       *)
(* Manager.Buffer with the cursor it was given the last time.              *)
(*                                                                         *)
(* The ring moves bytes and never looks at them, so a byte is modelled by  *)
(* its absolute offset in the output of its run: buf[i] is the offset of   *)
(* the byte in cell i.  Every critical section of r.mu is one step.        *)
(***************************************************************************)
EXTENDS Integers, Sequences, TLAPS

CONSTANTS
    Capacity,     \* the argument of NewRing
    MaxChunk,     \* bound: bytes in one Write
    MaxWritten,   \* bound: bytes written by one run
    MaxRespawns,  \* bound: how often the session is spawned again
    KeepsCursor   \* does the client keep its cursor when that happens?

VARIABLES
    buf, pos, full, written,  \* the fields of RingBuffer
    cursor,                   \* the polling client's cursor
    known,                    \* history: offsets it has received or was told it lost
    respawns

ring == <<buf, pos, full, written>>
vars == <<ring, cursor, known, respawns>>

(* NewRing clamps the capacity; make() zeroes the cells, which hold no byte*)
(* of the output yet.                                                      *)
cap == IF Capacity \in Nat \ {0} THEN Capacity ELSE 1

Cells == 0..(cap - 1)

NoByte == -1

NewBuf == [i \in Cells |-> NoByte]

Init == /\ buf = NewBuf /\ pos = 0 /\ full = FALSE /\ written = 0
        /\ cursor = 0 /\ known = {} /\ respawns = 0

(***************************************************************************)
(* Write: the n bytes of p have the offsets written .. written + n - 1.    *)
(***************************************************************************)

(* n >= cap: only the last cap bytes of p are kept.                        *)
WriteAll(n) ==
    /\ n >= cap
    /\ buf' = [i \in Cells |-> written + (n - cap) + i]
    /\ pos' = 0 /\ full' = TRUE

(* Mutant of WriteFits: pos is not wrapped when it reaches the end.        *)
WriteFitsUnwrapped(n) ==
    /\ n > 0 /\ n < cap /\ pos + n <= cap
    /\ buf' = [i \in Cells |-> IF pos <= i /\ i < pos + n THEN written + (i - pos)
                               ELSE buf[i]]
    /\ pos' = pos + n /\ full' = full

(* The chunk fits between pos and the end of the buffer.                   *)
WriteFits(n) ==
    /\ n > 0 /\ n < cap /\ pos + n <= cap
    /\ buf' = [i \in Cells |-> IF pos <= i /\ i < pos + n THEN written + (i - pos)
                               ELSE buf[i]]
    /\ pos'  = IF pos + n = cap THEN 0 ELSE pos + n
    /\ full' = IF pos + n = cap THEN TRUE ELSE full

(* Mutant of WriteWraps: the buffer is not known to be full.               *)
WriteWrapsNotFull(n) ==
    /\ n < cap /\ pos + n > cap
    /\ LET first == cap - pos IN
         /\ buf' = [i \in Cells |-> IF i >= pos THEN written + (i - pos)
                                    ELSE IF i < n - first THEN written + first + i
                                    ELSE buf[i]]
         /\ pos' = n - first
    /\ full' = full

(* The chunk wraps: `first` bytes up to the end, the rest from cell 0.     *)
WriteWraps(n) ==
    /\ n < cap /\ pos + n > cap
    /\ LET first == cap - pos IN
         /\ buf' = [i \in Cells |-> IF i >= pos THEN written + (i - pos)
                                    ELSE IF i < n - first THEN written + first + i
                                    ELSE buf[i]]
         /\ pos' = n - first
    /\ full' = TRUE

Write(n) ==
    /\ \/ n = 0 /\ UNCHANGED <<buf, pos, full>>
       \/ WriteAll(n) \/ WriteFits(n) \/ WriteWraps(n)
    /\ written' = written + n
    /\ UNCHANGED <<cursor, known, respawns>>

(***************************************************************************)
(* SnapshotSince.                                                          *)
(***************************************************************************)

SizeNow == IF full THEN cap ELSE pos

(* snapshotLocked: the cells in chronological order.                       *)
Snapshot ==
    [ i \in 1..SizeNow |->
        IF ~full THEN buf[i - 1]
        ELSE IF i <= cap - pos THEN buf[pos + i - 1]
        ELSE buf[i - 1 - (cap - pos)] ]

MinAvail == written - SizeNow

StartOf(since) == IF since < MinAvail THEN MinAvail ELSE since

(* Mutant of ReplayBytes: the oldest bytes of the ring instead of the ones *)
(* after the cursor.                                                       *)
ReplayBytesOldest(since) ==
    IF StartOf(since) >= written THEN <<>>
    ELSE [ i \in 1..(Len(Snapshot) - (StartOf(since) - MinAvail)) |-> Snapshot[i] ]

(* Mutant of ReplayBytes: the last byte is left out.                       *)
ReplayBytesShort(since) ==
    IF StartOf(since) >= written THEN <<>>
    ELSE LET skip == StartOf(since) - MinAvail IN
           [ i \in 1..(SizeNow - skip - 1) |-> Snapshot[skip + i] ]

ReplayBytes(since) ==
    IF StartOf(since) >= written THEN <<>>
    ELSE LET skip == StartOf(since) - MinAvail IN
           [ i \in 1..(SizeNow - skip) |-> Snapshot[skip + i] ]

Replay(since) ==
    [bytes |-> ReplayBytes(since), start |-> StartOf(since), written |-> written]

(* Manager.Buffer: the client gets the replay and adopts its cursor.       *)
Poll ==
    LET rep == Replay(cursor) IN
      /\ cursor' = rep.written
      /\ known' = known \union { rep.bytes[i] : i \in DOMAIN rep.bytes }
                        \union { k \in cursor..(rep.start - 1) : k < written }
      /\ UNCHANGED <<ring, respawns>>

(* The session is stopped and started again: spawn makes a new ring, whose *)
(* offsets begin at zero again.  Nothing in a Replay tells the client so.  *)
Respawn ==
    /\ respawns < MaxRespawns /\ respawns' = respawns + 1
    /\ buf' = NewBuf /\ pos' = 0 /\ full' = FALSE /\ written' = 0
    /\ known' = {} /\ cursor' = IF KeepsCursor THEN cursor ELSE 0

Next ==
    \/ \E n \in 0..MaxChunk : written + n <= MaxWritten /\ Write(n)
    \/ Poll
    \/ Respawn

Spec == Init /\ [][Next]_vars

(***************************************************************************)
(* Properties.                                                             *)
(***************************************************************************)

(* Every field has its type, and pos is a cell.                            *)
TypeOK ==
    /\ buf \in [Cells -> Int]
    /\ pos \in Cells /\ full \in BOOLEAN /\ written \in Nat
    /\ cursor \in Nat /\ known \in SUBSET Nat /\ respawns \in Nat

(* What a replay from `since` must be: the bytes written at or after the   *)
(* cursor, as far as the last cap bytes reach, in order, and where they    *)
(* start.                                                                  *)
Oldest == IF written > cap THEN written - cap ELSE 0

ReferenceStart(since) == IF since < Oldest THEN Oldest ELSE since

ReferenceBytes(since) ==
    IF ReferenceStart(since) >= written THEN <<>>
    ELSE [ i \in 1..(written - ReferenceStart(since)) |-> ReferenceStart(since) + i - 1 ]

(* Whatever sizes the chunks had, wherever they wrapped and whatever       *)
(* cursor a client passes, it gets exactly the missing tail: no byte       *)
(* twice, out of order, stale or skipped without Start saying so.          *)
ReplayExact ==
    \A since \in 0..(written + 1) :
      /\ Replay(since).bytes = ReferenceBytes(since)
      /\ Replay(since).start = ReferenceStart(since)

(* A client that polls with the cursor it was given learns of every byte   *)
(* before its cursor: it has received it, or Start told it that it is lost.*)
(* With KeepsCursor it fails: a cursor of the previous run skips bytes.    *)
LossReported == \A k \in 0..(written - 1) : k < cursor => k \in known

(* The plain tail that the circular buffer, its pointer and the full flag  *)
(* of ringbuf.go stand for: what snapshotLocked reads back.                *)
Log == INSTANCE OutputTail WITH Keep <- cap, tail <- Snapshot, total <- written

(* However the chunks fall on the cells, each write appends to the tail    *)
(* and drops its oldest bytes only, a poll changes nothing, and a new run  *)
(* starts empty: the ring buffer implements OutputTail.                    *)
KeepsTail == Log!Spec

(***************************************************************************)
(* The inductive invariant behind ReplayExact: until the ring is full the  *)
(* cells below pos hold the offsets 0 .. pos - 1; from then on the cells   *)
(* hold the last cap offsets, the oldest of them in cell pos.              *)
(***************************************************************************)
RingInv ==
    /\ TypeOK
    /\ ~full => pos = written /\ \A i \in Cells : i < pos => buf[i] = i
    /\ full => /\ written >= cap
               /\ \A i \in Cells :
                    buf[i] = IF i < pos THEN written - pos + i ELSE written - cap - pos + i

(* ... and behind LossReported, for a client that starts again from zero:  *)
(* its cursor is never ahead of the run's output.                          *)
PollInv == cursor <= written /\ LossReported

-----------------------------------------------------------------------------
(***************************************************************************)
(* Proofs: the ring replays exactly the missing tail, for every capacity,  *)
(* every sequence of chunks and every cursor.                              *)
(***************************************************************************)

(* NewRing never makes an empty buffer.                                    *)
LEMMA CapPositive == cap \in Nat /\ cap >= 1
  BY DEF cap

(* A fresh ring satisfies the invariant.                                   *)
LEMMA RingInit == Init => RingInv
<1> SUFFICES ASSUME Init PROVE RingInv
  OBVIOUS
<1>1. buf \in [Cells -> Int] /\ pos \in Cells
  BY CapPositive DEF Init, NewBuf, Cells, NoByte
<1>2. TypeOK
  BY <1>1 DEF Init, TypeOK
<1>3. ~full /\ pos = 0 /\ written = 0
  BY DEF Init
<1>4. QED
  BY <1>2, <1>3, CapPositive DEF RingInv, Cells

(* Each branch of Write keeps the cells in step with pos and written.      *)
LEMMA WritePreserves ==
    ASSUME RingInv, NEW n \in Nat, Write(n)
    PROVE  RingInv'
<1> USE CapPositive
<1>1. /\ buf \in [Cells -> Int] /\ pos \in Cells /\ full \in BOOLEAN /\ written \in Nat
      /\ written' = written + n
  BY DEF RingInv, TypeOK, Write
<1>2. cursor' \in Nat /\ known' \in SUBSET Nat /\ respawns' \in Nat
  BY DEF RingInv, TypeOK, Write
<1>3. CASE n = 0 /\ UNCHANGED <<buf, pos, full>>
  BY <1>1, <1>2, <1>3 DEF RingInv, TypeOK
<1>4. CASE WriteAll(n)
  BY <1>1, <1>2, <1>4 DEF WriteAll, RingInv, TypeOK, Cells
<1>5. CASE WriteFits(n)
  <2>1. TypeOK'
    <3>1. buf' \in [Cells -> Int]
      BY <1>1, <1>5 DEF WriteFits, Cells
    <3>2. full' \in BOOLEAN
      BY <1>1, <1>5 DEF WriteFits
    <3>3. pos' \in Cells
      BY <1>1, <1>5 DEF WriteFits, Cells
    <3>4. QED
      BY <1>1, <1>2, <3>1, <3>2, <3>3 DEF TypeOK
  <2>2. \A i \in Cells : buf'[i] = IF pos <= i /\ i < pos + n THEN written + (i - pos) ELSE buf[i]
    BY <1>1, <1>5 DEF WriteFits
  <2>3. CASE full
    <3>1. full' /\ n > 0 /\ pos + n <= cap /\ pos' = IF pos + n = cap THEN 0 ELSE pos + n
      BY <1>5, <2>3 DEF WriteFits
    <3>2. written >= cap /\ \A i \in Cells :
            buf[i] = IF i < pos THEN written - pos + i ELSE written - cap - pos + i
      BY <2>3 DEF RingInv
    <3>3. ASSUME NEW i \in Cells
          PROVE  buf'[i] = IF i < pos' THEN written' - pos' + i ELSE written' - cap - pos' + i
      <4>1. i \in Nat /\ pos \in Nat /\ i < cap
        BY <1>1 DEF Cells
      <4>2. CASE pos + n = cap
        BY <1>1, <2>2, <3>1, <3>2, <4>1, <4>2
      <4>3. CASE pos + n # cap
        BY <1>1, <2>2, <3>1, <3>2, <4>1, <4>3
      <4>4. QED
        BY <4>2, <4>3
    <3>4. QED
      BY <1>1, <2>1, <3>1, <3>2, <3>3 DEF RingInv
  <2>4. CASE ~full /\ pos + n = cap
    <3>1. full' /\ pos' = 0 /\ pos = written /\ \A i \in Cells : i < pos => buf[i] = i
      BY <1>5, <2>4 DEF WriteFits, RingInv
    <3>2. ASSUME NEW i \in Cells PROVE buf'[i] = written' - cap + i
      BY <1>1, <2>2, <2>4, <3>1, <3>2 DEF Cells
    <3>3. QED
      BY <1>1, <2>1, <2>4, <3>1, <3>2 DEF RingInv, Cells
  <2>5. CASE ~full /\ pos + n # cap
    BY <1>1, <1>5, <2>1, <2>2, <2>5 DEF WriteFits, RingInv, Cells
  <2>6. QED
    BY <2>3, <2>4, <2>5
<1>6. CASE WriteWraps(n)
  <2>1. TypeOK'
    BY <1>1, <1>2, <1>6 DEF WriteWraps, TypeOK, Cells
  <2>2. /\ full' = TRUE /\ pos' = n - (cap - pos) /\ n < cap /\ pos + n > cap
        /\ \A i \in Cells : buf'[i] = IF i >= pos THEN written + (i - pos)
                                      ELSE IF i < n - (cap - pos) THEN written + (cap - pos) + i
                                      ELSE buf[i]
    BY <1>1, <1>6 DEF WriteWraps
  <2>3. CASE full
    BY <1>1, <2>1, <2>2, <2>3 DEF RingInv, Cells
  <2>4. CASE ~full
    BY <1>1, <2>1, <2>2, <2>4 DEF RingInv, Cells
  <2>5. QED
    BY <2>3, <2>4
<1>7. QED
  BY <1>3, <1>4, <1>5, <1>6 DEF Write

(* What the snapshot holds, cell by cell.                                  *)
LEMMA SnapshotCells ==
    ASSUME RingInv, NEW i \in 1..SizeNow
    PROVE  Snapshot[i] = MinAvail + i - 1
<1> USE CapPositive
<1>1. /\ pos \in Cells /\ full \in BOOLEAN /\ written \in Nat
  BY DEF RingInv, TypeOK
<1>2. CASE ~full
  BY <1>1, <1>2 DEF RingInv, Snapshot, SizeNow, MinAvail, Cells
<1>3. CASE full
  BY <1>1, <1>3 DEF RingInv, Snapshot, SizeNow, MinAvail, Cells
<1>4. QED
  BY <1>1, <1>2, <1>3

(* The invariant makes every replay the reference replay.                  *)
LEMMA ReplayIsReference ==
    ASSUME RingInv, NEW since \in Nat
    PROVE  ReplayBytes(since) = ReferenceBytes(since) /\ StartOf(since) = ReferenceStart(since)
<1> USE CapPositive
<1>1. pos \in Cells /\ full \in BOOLEAN /\ written \in Nat /\ since \in Nat
  BY DEF RingInv, TypeOK
<1>2. MinAvail = Oldest /\ SizeNow = written - Oldest /\ SizeNow \in Nat /\ Oldest \in Nat
  <2>1. CASE full
    BY <1>1, <2>1 DEF RingInv, MinAvail, Oldest, SizeNow, Cells
  <2>2. CASE ~full
    BY <1>1, <2>2 DEF RingInv, MinAvail, Oldest, SizeNow, Cells
  <2>3. QED
    BY <2>1, <2>2
<1>3. StartOf(since) = ReferenceStart(since) /\ StartOf(since) >= Oldest
      /\ StartOf(since) \in Nat
  BY <1>1, <1>2 DEF StartOf, ReferenceStart
<1>4. CASE StartOf(since) >= written
  BY <1>3, <1>4 DEF ReplayBytes, ReferenceBytes
<1>5. CASE ~(StartOf(since) >= written)
  <2> DEFINE skip == StartOf(since) - MinAvail
  <2>1. SizeNow - skip = written - StartOf(since) /\ skip \in Nat
    BY <1>1, <1>2, <1>3
  <2>2. ASSUME NEW i \in 1..(SizeNow - skip)
        PROVE  Snapshot[skip + i] = StartOf(since) + i - 1
    <3>1. skip + i \in 1..SizeNow
      BY <1>2, <2>1
    <3>2. Snapshot[skip + i] = MinAvail + (skip + i) - 1
      BY <3>1, SnapshotCells
    <3>3. QED
      BY <1>2, <1>3, <3>2
  <2>3. ReplayBytes(since) = [ i \in 1..(SizeNow - skip) |-> Snapshot[skip + i] ]
    BY <1>5 DEF ReplayBytes
  <2>4. ReferenceBytes(since) = [ i \in 1..(SizeNow - skip) |-> StartOf(since) + i - 1 ]
    BY <1>3, <1>5, <2>1 DEF ReferenceBytes
  <2> HIDE DEF skip
  <2>5. QED
    BY <1>3, <2>2, <2>3, <2>4
<1>6. QED
  BY <1>3, <1>4, <1>5

(* The invariant is inductive.                                             *)
LEMMA RingNext == RingInv /\ [Next]_vars => RingInv'
<1> SUFFICES ASSUME RingInv, [Next]_vars PROVE RingInv'
  OBVIOUS
<1>1. ASSUME NEW n \in 0..MaxChunk, Write(n) PROVE RingInv'
  BY <1>1, WritePreserves
<1>2. CASE Poll
  <2>1. UNCHANGED <<buf, pos, full, written, respawns>> /\ cursor' = written
    BY <1>2 DEF Poll, ring, Replay
  <2>2. known' \in SUBSET Nat
    <3>1. ASSUME NEW i \in DOMAIN Replay(cursor).bytes PROVE Replay(cursor).bytes[i] \in Nat
      <4>1. Replay(cursor).bytes = ReferenceBytes(cursor) /\ cursor \in Nat /\ written \in Nat
        BY ReplayIsReference DEF Replay, RingInv, TypeOK
      <4>2. Oldest \in Nat /\ ReferenceStart(cursor) \in Nat
        BY <4>1, CapPositive DEF Oldest, ReferenceStart
      <4>3. QED
        BY <3>1, <4>1, <4>2 DEF ReferenceBytes
    <3>2. cursor \in Nat /\ known \in SUBSET Nat
      BY DEF RingInv, TypeOK
    <3>3. { k \in cursor..(Replay(cursor).start - 1) : k < written } \subseteq Nat
      BY <3>2
    <3>4. QED
      BY <1>2, <3>1, <3>2, <3>3 DEF Poll
  <2>3. QED
    BY <2>1, <2>2 DEF RingInv, TypeOK
<1>3. CASE Respawn
  <2>1. buf' \in [Cells -> Int] /\ pos' \in Cells
    BY <1>3, CapPositive DEF Respawn, NewBuf, Cells, NoByte
  <2>2. TypeOK'
    <3>1. written' \in Nat /\ cursor' \in Nat /\ known' \in SUBSET Nat /\ respawns' \in Nat
      BY <1>3 DEF Respawn, RingInv, TypeOK
    <3>2. full' \in BOOLEAN
      BY <1>3 DEF Respawn
    <3>3. QED
      BY <2>1, <3>1, <3>2 DEF TypeOK
  <2>3. ~full' /\ pos' = 0 /\ written' = 0
    BY <1>3 DEF Respawn
  <2>4. QED
    BY <2>2, <2>3, CapPositive DEF RingInv, Cells
<1>4. CASE UNCHANGED vars
  BY <1>4 DEF vars, ring, RingInv, TypeOK
<1>5. QED
  BY <1>1, <1>2, <1>3, <1>4 DEF Next

(* So the invariant implies the property.                                  *)
LEMMA InvImpliesReplayExact == RingInv => ReplayExact
  BY ReplayIsReference DEF ReplayExact, Replay, RingInv, TypeOK

(* Every replay of every run of every session is exact.                    *)
THEOREM RingReplaysExactly == Spec => []ReplayExact
  BY RingInit, RingNext, InvImpliesReplayExact, PTL DEF Spec

(* A poll hands out, or reports as lost, everything up to its new cursor.  *)
LEMMA PollPreserves ==
    ASSUME RingInv, PollInv, Poll
    PROVE  PollInv'
<1>1. cursor \in Nat /\ written \in Nat /\ written' = written /\ cursor' = written
  BY DEF RingInv, TypeOK, Poll, ring, Replay
<1>2. ASSUME NEW k \in 0..(written - 1) PROVE k \in known'
  <2>1. Replay(cursor).bytes = ReferenceBytes(cursor) /\ Replay(cursor).start = StartOf(cursor)
        /\ StartOf(cursor) = ReferenceStart(cursor)
    BY <1>1, ReplayIsReference DEF Replay
  <2>2. known' = known \union { Replay(cursor).bytes[i] : i \in DOMAIN Replay(cursor).bytes }
                       \union { j \in cursor..(Replay(cursor).start - 1) : j < written }
    BY DEF Poll
  <2>3. ReferenceStart(cursor) \in Nat
    BY <1>1, CapPositive DEF ReferenceStart, Oldest
  <2>4. CASE k < cursor
    BY <1>1, <2>2, <2>4 DEF PollInv, LossReported
  <2>5. CASE cursor <= k /\ k < ReferenceStart(cursor)
    BY <1>1, <2>1, <2>2, <2>3, <2>5
  <2>6. CASE ReferenceStart(cursor) <= k
    <3> DEFINE i == k - ReferenceStart(cursor) + 1
    <3>1. i \in 1..(written - ReferenceStart(cursor)) /\ ReferenceStart(cursor) + i - 1 = k
      BY <1>1, <2>3, <2>6
    <3>2. ReferenceBytes(cursor) = [ j \in 1..(written - ReferenceStart(cursor)) |->
                                       ReferenceStart(cursor) + j - 1 ]
      BY <1>1, <2>3, <2>6 DEF ReferenceBytes
    <3> HIDE DEF i
    <3>3. i \in DOMAIN Replay(cursor).bytes /\ Replay(cursor).bytes[i] = k
      BY <2>1, <3>1, <3>2
    <3>4. QED
      BY <2>2, <3>3
  <2>7. QED
    BY <1>1, <2>3, <2>4, <2>5, <2>6
<1>3. QED
  BY <1>1, <1>2 DEF PollInv, LossReported

(* The other steps: writes only add offsets at or past the cursor, and a   *)
(* respawn starts the client from zero.                                    *)
LEMMA PollNext ==
    ASSUME ~KeepsCursor
    PROVE  RingInv /\ PollInv /\ [Next]_vars => PollInv'
<1> SUFFICES ASSUME RingInv, PollInv, [Next]_vars PROVE PollInv'
  OBVIOUS
<1>1. cursor \in Nat /\ written \in Nat
  BY DEF RingInv, TypeOK
<1>2. ASSUME NEW n \in 0..MaxChunk, Write(n) PROVE PollInv'
  <2>1. n \in Nat /\ written' = written + n /\ cursor' = cursor /\ known' = known
    BY <1>2 DEF Write
  <2>2. QED
    BY <1>1, <2>1 DEF PollInv, LossReported
<1>3. CASE Poll
  BY <1>3, PollPreserves
<1>4. CASE Respawn
  BY <1>4 DEF Respawn, PollInv, LossReported
<1>5. CASE UNCHANGED vars
  BY <1>5 DEF vars, ring, PollInv, LossReported
<1>6. QED
  BY <1>2, <1>3, <1>4, <1>5 DEF Next

(* A client that drops its cursor when the session is started again, and   *)
(* otherwise passes it back as handler.go's buffer expects, misses no byte *)
(* without being told.                                                     *)
THEOREM PollingLosesNothingSilently ==
    ASSUME ~KeepsCursor
    PROVE  Spec => []LossReported
<1>1. Init => PollInv
  BY DEF Init, PollInv, LossReported
<1>2. PollInv => LossReported
  BY DEF PollInv
<1>3. RingInv /\ PollInv /\ [Next]_vars => PollInv'
  BY PollNext
<1>4. QED
  BY <1>1, <1>2, <1>3, RingInit, RingNext, PTL DEF Spec

(* The tail as one formula: the last offsets, in order.                    *)
Offsets(w, size) == [ i \in 1..size |-> w - size + i - 1 ]

SnapshotIsLast ==
    /\ Snapshot = Offsets(written, SizeNow) /\ Len(Snapshot) = SizeNow
    /\ SizeNow = (IF written > cap THEN cap ELSE written)
    /\ SizeNow \in Nat /\ written \in Nat /\ SizeNow <= written

(* A snapshot is the tail of the output.                                   *)
LEMMA SnapshotIsTail == RingInv => SnapshotIsLast
<1> SUFFICES ASSUME RingInv PROVE SnapshotIsLast
  OBVIOUS
<1> USE CapPositive
<1>1. pos \in Cells /\ full \in BOOLEAN /\ written \in Nat
  BY DEF RingInv, TypeOK
<1>2. SizeNow = (IF written > cap THEN cap ELSE written) /\ SizeNow \in Nat /\ SizeNow <= written
  BY <1>1 DEF RingInv, SizeNow, Cells
<1>3. ASSUME NEW i \in 1..SizeNow PROVE Snapshot[i] = written - SizeNow + i - 1
  BY <1>3, SnapshotCells DEF MinAvail
<1>4. Snapshot = [ i \in 1..SizeNow |-> Snapshot[i] ]
  BY DEF Snapshot
<1> HIDE DEF Snapshot
<1>5. Snapshot = Offsets(written, SizeNow)
  BY <1>3, <1>4 DEF Offsets
<1>6. Len(Snapshot) = SizeNow
  BY <1>2, <1>5 DEF Offsets
<1>7. QED
  BY <1>1, <1>2, <1>5, <1>6 DEF SnapshotIsLast

(* Appending to the plain tail gives the tail of the longer output.        *)
LEMMA AppendedIsTail ==
    ASSUME RingInv, RingInv', NEW n \in Nat, written' = written + n
    PROVE  Log!Appended(n)
<1> USE CapPositive
<1> DEFINE S == SizeNow
           K == Log!Kept(n)
           X == Log!Extended(n)
<1>1. /\ Snapshot = Offsets(written, S) /\ Len(Snapshot) = S
      /\ S = (IF written > cap THEN cap ELSE written) /\ S \in Nat /\ written \in Nat
  BY SnapshotIsTail DEF SnapshotIsLast
<1>2. /\ Snapshot' = Offsets(written', S') /\ S' \in Nat /\ S' <= written'
      /\ S' = (IF written' > cap THEN cap ELSE written') 
  <2>1. SnapshotIsLast'
    BY SnapshotIsTail, PTL
  <2>2. QED
    BY <2>1 DEF SnapshotIsLast, cap
<1>3. K = S' /\ K \in Nat /\ K <= S + n
  BY <1>1, <1>2 DEF Log!Kept
<1>4. ASSUME NEW j \in 1..(S + n) PROVE X[j] = written - S + j - 1
  <2>1. X = [ i \in 1..(S + n) |-> IF i <= S THEN Snapshot[i] ELSE written + i - S - 1 ]
    BY <1>1 DEF Log!Extended
  <2>2. j <= S => Snapshot[j] = written - S + j - 1
    BY <1>1 DEF Offsets
  <2> HIDE DEF S, X
  <2>3. QED
    BY <1>1, <2>1, <2>2
<1>5. ASSUME NEW i \in 1..K PROVE X[S + n - K + i] = written' - S' + i - 1
  <2>1. i \in Nat /\ 1 <= i /\ i <= K
    BY <1>3
  <2> HIDE DEF S, X, K
  <2>2. S + n - K + i \in 1..(S + n) /\ S' \in Nat
    BY <1>1, <1>2, <1>3, <2>1
  <2>3. X[S + n - K + i] = written - S + (S + n - K + i) - 1
    BY <1>4, <2>2
  <2>4. /\ written' = written + n /\ K = S' /\ K \in Nat
        /\ S \in Nat /\ written \in Nat /\ i \in Nat
    BY <1>1, <1>3, <2>1
  <2>5. QED
    BY <2>3, <2>4
<1>6. Snapshot' = [ i \in 1..K |-> X[Len(Snapshot) + n - K + i] ]
  <2> HIDE DEF S, X, K
  <2>1. Snapshot' = [ i \in 1..K |-> written' - S' + i - 1 ]
    BY <1>2, <1>3 DEF Offsets
  <2>2. QED
    BY <1>1, <1>5, <2>1
<1>7. QED
  BY <1>6 DEF Log!Appended

(* Every step of the ring is a step of the plain tail or leaves it alone.  *)
LEMMA TailStep == RingInv /\ [Next]_vars => [Log!Next]_(Log!vars)
<1> SUFFICES ASSUME RingInv, [Next]_vars PROVE [Log!Next]_(Log!vars)
  OBVIOUS
<1>1. RingInv'
  BY RingNext
<1>2. ASSUME NEW n \in 0..MaxChunk, Write(n) PROVE Log!Next
  <2>1. n \in Nat /\ written \in Nat /\ written' = written + n
    BY <1>2 DEF Write, RingInv, TypeOK
  <2>2. Log!Appended(n)
    BY <1>1, <2>1, AppendedIsTail
  <2>3. written' - written = n
    BY <2>1
  <2>4. Log!Write
    BY <2>1, <2>2, <2>3 DEF Log!Write
  <2>5. QED
    BY <2>4 DEF Log!Next
<1>3. CASE Poll
  BY <1>3 DEF Poll, ring, Log!vars, Snapshot, SizeNow, cap
<1>4. CASE Respawn
  <2>1. ~full' /\ pos' = 0 /\ written' = 0
    BY <1>4 DEF Respawn
  <2>2. SizeNow' = 0 /\ Snapshot' = <<>>
    BY <2>1 DEF Snapshot, SizeNow
  <2>3. QED
    BY <2>1, <2>2 DEF Log!Next, Log!NewRun
<1>5. CASE UNCHANGED vars
  BY <1>5 DEF vars, ring, Log!vars, Snapshot, SizeNow, cap
<1>6. QED
  BY <1>2, <1>3, <1>4, <1>5 DEF Next

(* The circular buffer implements the plain tail: whatever chunks are      *)
(* written and wherever they wrap, what a snapshot reads is the last bytes *)
(* of the run's output.                                                    *)
THEOREM RingKeepsTheTail == Spec => KeepsTail
<1>1. Init => Log!Init
  <2>1. Init => SizeNow = 0 /\ written = 0
    BY DEF Init, SizeNow
  <2>2. Init => Snapshot = <<>>
    BY <2>1 DEF Snapshot
  <2>3. QED
    BY <2>1, <2>2 DEF Log!Init
<1>2. QED
  BY <1>1, RingInit, RingNext, TailStep, PTL DEF Spec, KeepsTail, Log!Spec
=============================================================================
