----------------------------- MODULE OutputTail -----------------------------
(***************************************************************************)
(* What a session's replay buffer promises, with no cells and no pointer:  *)
(* it is the last Keep bytes of the run's output, in the order they were   *)
(* written, and the count of all of them.  A byte is its offset in the     *)
(* output.  A new run starts empty.                                        *)
(***************************************************************************)
EXTENDS Naturals, Sequences

CONSTANT Keep

VARIABLES tail, total

vars == <<tail, total>>

Init == tail = <<>> /\ total = 0

(* The output after n more bytes, as far as it was still kept before.      *)
Extended(n) ==
    [i \in 1..(Len(tail) + n) |-> IF i <= Len(tail) THEN tail[i] ELSE total + i - Len(tail) - 1]

Kept(n) == IF Len(tail) + n > Keep THEN Keep ELSE Len(tail) + n

Appended(n) == tail' = [i \in 1..Kept(n) |-> Extended(n)[Len(tail) + n - Kept(n) + i]]

(* Written: the counter grows by the length of the chunk.                  *)
Write == total' \in Nat /\ total' >= total /\ Appended(total' - total)

NewRun == tail' = <<>> /\ total' = 0

Next == Write \/ NewRun

Spec == Init /\ [][Next]_vars
=============================================================================
