-------------------------- MODULE SessionLifecycle --------------------------
(***************************************************************************)
(* What the persisted row of a session promises, whatever goroutines,      *)
(* signals and restarts the session manager has in flight: the row only    *)
(* ever moves along the lifecycle matrix of transitions.go, one legal      *)
(* event at a time, until the session is removed; an id is never reused.   *)
(*                                                                         *)
(* One entry is weaker than the matrix.  The matrix keeps an interrupted   *)
(* session interrupted when it is stopped or seen to exit, but the SQL     *)
(* guard of MarkTerminal (state NOT IN ('stopped','ended')) does not       *)
(* protect 'interrupted', so a late stop or exit may still overwrite it.   *)
(***************************************************************************)
EXTENDS Transitions

CONSTANT Ids

VARIABLE status    \* status[id]: "none" (no row yet), a State, or "removed"

LegalMove(s, t) ==
    \/ \E e \in Event : t \in NextStates(s, e)
    \/ s = "interrupted" /\ t \in {"stopped", "ended"}
    \/ s \in State /\ t = "removed"

Init == status \in [Ids -> {"none"} \union State]

(* MarkRunningAsInterrupted is one UPDATE over every live row, so one step *)
(* may move several rows.                                                  *)
Next == /\ status' \in [Ids -> {"none", "removed"} \union State]
        /\ \A id \in Ids : status'[id] = status[id] \/ LegalMove(status[id], status'[id])

Spec == Init /\ [][Next]_status
=============================================================================
