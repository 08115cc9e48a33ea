----------------------------- MODULE SealedBlob -----------------------------
(***************************************************************************)
(* One sealed blob on its way to a backup target and back                  *)
(* (backup/cipher.go and target_*.go).  The plaintext is cut into chunks,  *)
(* each sealed with its index, and an empty frame ends the stream.  How a  *)
(* Put makes the bytes visible differs by target.  A byte is a position of *)
(* the plaintext.                                                          *)
(***************************************************************************)
EXTENDS Naturals, Sequences, SequencesExt

CONSTANTS
    ChunkSize,    \* chunkPlaintextSize
    MaxLen,       \* bound: length of the plaintext
    Kinds         \* target kinds, of "local", "sftp", "smb", "webdav", "s3", "rclone"

VARIABLES
    sbLen,        \* length of the plaintext
    sbKind,       \* kind of the target
    sbPart,       \* frames in the .part file, or NoFile
    sbDest,       \* frames under the final name, or NoFile
    sbPc,         \* Put: "writing", "closed", "ok", "error"; "crashed"
    sbHurt        \* what befell the stored blob: "no" or a damage

vars == <<sbLen, sbKind, sbPart, sbDest, sbPc, sbHurt>>

(* Where Put copies to first, and how it gets under the final name: local, *)
(* SFTP and SMB rename a .part file beside it, WebDAV spools on the        *)
(* gateway's disk and then streams, S3 shows an object once it is whole,   *)
(* rclone rcat streams.                                                    *)
LocalPut == [spool |-> "part", publish |-> "atomic"]
SFTPPut == [spool |-> "part", publish |-> "atomic"]
SMBPut == [spool |-> "part", publish |-> "atomic"]
WebDAVPut == [spool |-> "part", publish |-> "stream"]
S3Put == [spool |-> "object", publish |-> "atomic"]
RclonePut == [spool |-> "none", publish |-> "stream"]
Put == [local |-> LocalPut, sftp |-> SFTPPut, smb |-> SMBPut, webdav |-> WebDAVPut, s3 |-> S3Put, rclone |-> RclonePut]

NoFile == << [idx |-> 0, data |-> <<>>, key |-> "no file"] >>

MinNat(a, b) == IF a < b THEN a ELSE b
Chunk(len, i) == SubSeq([p \in 1..len |-> p], i * ChunkSize + 1, MinNat((i + 1) * ChunkSize, len))
Chunks(len) == (len + ChunkSize - 1) \div ChunkSize

(* Mutant of SealStream: a plaintext that ends on a chunk boundary gets no *)
(* terminator.                                                             *)
SealStreamNoEnd(len) ==
    [i \in 1..Chunks(len) |-> [idx |-> i - 1, data |-> Chunk(len, i - 1), key |-> "k"]]
      \o (IF len % ChunkSize = 0 /\ len > 0 THEN <<>> ELSE << [idx |-> Chunks(len), data |-> <<>>, key |-> "k"] >>)

(* sealStream and writeFrame: full chunks, a last partial one, and the     *)
(* terminator, each bound to its index.                                    *)
SealStream(len) ==
    [i \in 1..Chunks(len) |-> [idx |-> i - 1, data |-> Chunk(len, i - 1), key |-> "k"]]
      \o << [idx |-> Chunks(len), data |-> <<>>, key |-> "k"] >>

Opened(frames) == FoldLeft(LAMBDA acc, f : acc \o f.data, <<>>, frames)

(* Mutant of OpenStream: the stream may end where the bytes end.           *)
OpenStreamLenient(s) ==
    LET good == {n \in 0..Len(s) : \A i \in 1..n : s[i].idx = i - 1 /\ s[i].key = "k"}
        n == CHOOSE m \in good : \A x \in good : x <= m
    IN  IF n < Len(s) THEN [ok |-> FALSE, data |-> <<>>] ELSE [ok |-> TRUE, data |-> Opened(s)]

(* openStream: every frame must authenticate under its index, the empty    *)
(* frame ends the stream, nothing may follow it and it may not be missing. *)
OpenStream(s) ==
    LET good == {n \in 0..Len(s) : \A i \in 1..n : s[i].idx = i - 1 /\ s[i].key = "k"}
        n == CHOOSE m \in good : \A x \in good : x <= m
        ends == {i \in 1..n : s[i].data = <<>>}
    IN  IF ends = {} THEN [ok |-> FALSE, data |-> <<>>]
        ELSE LET e == CHOOSE i \in ends : \A j \in ends : i <= j IN
             IF e < Len(s) THEN [ok |-> FALSE, data |-> <<>>] ELSE [ok |-> TRUE, data |-> Opened(SubSeq(s, 1, e))]

Init ==
    /\ sbLen \in 0..MaxLen /\ sbKind \in Kinds
    /\ sbHurt = "no" /\ sbDest = NoFile
    /\ IF Put[sbKind].spool = "none" THEN sbPc = "closed" /\ sbPart = SealStream(sbLen)
       ELSE sbPc = "writing" /\ sbPart = <<>>

(* io.Copy: the next frame reaches the .part file, the spool or the object *)
(* under construction.                                                     *)
WriteFrame ==
    /\ sbPc = "writing" /\ Len(sbPart) < Len(SealStream(sbLen))
    /\ sbPart' = Append(sbPart, SealStream(sbLen)[Len(sbPart) + 1])
    /\ UNCHANGED <<sbLen, sbKind, sbDest, sbPc, sbHurt>>

CopyEnds ==
    /\ sbPc = "writing" /\ sbPart = SealStream(sbLen) /\ sbPc' = "closed"
    /\ UNCHANGED <<sbLen, sbKind, sbPart, sbDest, sbHurt>>

(* WriteStream and rcat: the next frame lands under the final name.        *)
SendFrame ==
    LET sent == IF sbDest = NoFile THEN <<>> ELSE sbDest IN
    /\ sbPc = "closed" /\ Put[sbKind].publish = "stream" /\ Len(sent) < Len(sbPart)
    /\ sbDest' = Append(sent, sbPart[Len(sent) + 1])
    /\ UNCHANGED <<sbLen, sbKind, sbPart, sbPc, sbHurt>>

(* Mutant of CopyFails: what was written is renamed all the same.          *)
CopyFailsRenames ==
    /\ sbPc \in {"writing", "closed"} /\ sbPc' = "error"
    /\ sbDest' = IF Put[sbKind].publish = "atomic" THEN sbPart ELSE sbDest
    /\ sbPart' = NoFile
    /\ UNCHANGED <<sbLen, sbKind, sbHurt>>

(* The copy, the close, the rename or the request fails, or the context is *)
(* cancelled: the deferred cleanup removes the .part file or the spool.    *)
(* Nothing removes what a stream left under the final name.                *)
CopyFails ==
    /\ sbPc \in {"writing", "closed"} /\ sbPc' = "error"
    /\ sbPart' = NoFile
    /\ UNCHANGED <<sbLen, sbKind, sbDest, sbHurt>>

Commit ==
    /\ sbPc = "closed" /\ sbPc' = "ok"
    /\ (Put[sbKind].publish = "stream") => sbDest = sbPart
    /\ sbDest' = sbPart /\ sbPart' = NoFile
    /\ UNCHANGED <<sbLen, sbKind, sbHurt>>

(* The gateway dies: files stay as they are; an unfinished object is gone. *)
Crash ==
    /\ sbPc \in {"writing", "closed"} /\ sbPc' = "crashed"
    /\ sbPart' = IF Put[sbKind].spool # "part" THEN NoFile ELSE sbPart
    /\ UNCHANGED <<sbLen, sbKind, sbDest, sbHurt>>

(* The stored blob is cut short, loses or repeats a frame, gets two frames *)
(* exchanged, grows, or is read with another key.                          *)
Damage ==
    /\ sbPc = "ok" /\ sbHurt = "no" /\ sbDest # NoFile
    /\ LET n == Len(sbDest) IN
       \/ \E m \in 0..(n - 1) : sbDest' = SubSeq(sbDest, 1, m) /\ sbHurt' = "cut"
       \/ \E i \in 1..n : sbDest' = RemoveAt(sbDest, i) /\ sbHurt' = "dropped"
       \/ \E i \in 1..n : sbDest' = InsertAt(sbDest, i, sbDest[i]) /\ sbHurt' = "repeated"
       \/ \E i, j \in 1..n : i < j /\ sbHurt' = "swapped"
                             /\ sbDest' = [sbDest EXCEPT ![i] = sbDest[j], ![j] = sbDest[i]]
       \/ sbDest' = [i \in 1..n |-> [sbDest[i] EXCEPT !.key = "other"]] /\ sbHurt' = "other key"
    /\ UNCHANGED <<sbLen, sbKind, sbPart, sbPc>>

Next == WriteFrame \/ CopyEnds \/ SendFrame \/ CopyFails \/ Commit \/ Crash \/ Damage

Spec == Init /\ [][Next]_vars

TypeOK == sbPc \in {"writing", "closed", "ok", "error", "crashed"} /\ sbKind \in Kinds /\ sbLen \in 0..MaxLen

(* What a restore reads is the whole plaintext or an error, whatever state *)
(* an interrupted upload or later damage left the blob in, for plaintexts  *)
(* that are empty, fill their last chunk or do not.                        *)
WholeOrError ==
    (sbDest # NoFile) => LET r == OpenStream(sbDest) IN r.ok => r.data = [p \in 1..sbLen |-> p]

(* A blob that Put reported stored, and nothing touched since, opens.      *)
StoredOpens == (sbPc = "ok" /\ sbHurt = "no") => sbDest # NoFile /\ OpenStream(sbDest).ok

(* Where the target renames or shows objects whole, nothing incomplete     *)
(* ever lies under the final name.                                         *)
NothingPartialInPlace ==
    (Put[sbKind].publish = "atomic" /\ sbHurt = "no") => sbDest = NoFile \/ sbDest = SealStream(sbLen)
=============================================================================
