---------------------------- MODULE Transitions ----------------------------
(***************************************************************************)
(* The session lifecycle matrix of internal/session/transitions.go and the *)
(* exit classification of internal/session/session.go.  Everything here is *)
(* pure, as in the source: operators over states and events, no variables. *)
(* The zero State of the source, a session that has no row yet, is "none". *)
(***************************************************************************)

Live == {"pending", "running", "idle"}

Terminal == {"stopped", "ended", "interrupted"}

State == Live \union Terminal

IsTerminal(s) == s \in Terminal

TerminationEvents == {"user_stop", "exit", "gateway_shutdown"}

Event == TerminationEvents \union {"start", "idle", "resume"}

(* terminationEvents: the state each way of dying leads to.                *)
TerminationState(e) ==
    CASE e = "user_stop"        -> "stopped"
      [] e = "exit"             -> "ended"
      [] e = "gateway_shutdown" -> "interrupted"

(* liveTransitions: the explicit <<from, event, to>> entries of the table. *)
LiveTransitions ==
    { <<"none",    "start",  "running">>,
      <<"running", "idle",   "idle">>,
      <<"running", "resume", "running">>,
      <<"idle",    "idle",   "idle">>,
      <<"idle",    "resume", "running">> }

TerminatableStates == Live

(* The targets Next(from, event) may return without an error: at most one, *)
(* and none at all for an illegal transition.                              *)
NextStates(from, event) ==
    IF IsTerminal(from)
      THEN { s \in State : \/ event = "start" /\ s = "running"
                           \/ event \in TerminationEvents /\ s = from }
      ELSE { s \in State :
               \/ <<from, event, s>> \in LiveTransitions
               \/ /\ event \in TerminationEvents
                  /\ from \in TerminatableStates
                  /\ s = TerminationState(event) }

CanTransition(from, event) == NextStates(from, event) # {}

(* Mutant of TerminationEvent: the shutdown is looked at first.            *)
TerminationEventClosingFirst(stopRequested, closing) ==
    IF closing THEN "gateway_shutdown"
    ELSE IF stopRequested THEN "user_stop" ELSE "exit"

(* A user stop wins over a gateway shutdown, which wins over an exit.      *)
TerminationEvent(stopRequested, closing) ==
    IF stopRequested THEN "user_stop"
    ELSE IF closing THEN "gateway_shutdown" ELSE "exit"

(* classifyExitState delegates to the matrix from "running".               *)
ClassifyExitState(stopRequested, closing) ==
    CHOOSE s \in NextStates("running", TerminationEvent(stopRequested, closing)) : TRUE
=============================================================================
