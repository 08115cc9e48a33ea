------------------------------ MODULE Shutdown -------------------------------
(***************************************************************************)
(* The end of the gateway: App.Run after the signal (app/app.go), with the *)
(* parts it stops in turn: requests in flight, the session manager, the    *)
(* channel hub, the queue of the call log (integration/calllog.go), the    *)
(* background workers, among them the audit sink (audit/sink.go), the bus  *)
(* and the store. Time counts the 15 s of shutdownCtx, which the first     *)
(* three steps share; each later wait has a timer of its own.              *)
(***************************************************************************)
EXTENDS Naturals, Sequences, FiniteSets

CONSTANTS
    Reqs,        \* ordinary requests of integrations
    Sockets,     \* requests that are hijacked for a WebSocket
    Sessions,    \* sessions that run when the signal comes
    Workers,     \* background workers, the audit sink aside
    WaitOrder,   \* the workers Run waits for, one after the other
    Queue,       \* callLogQueueSize
    Budget,      \* the timeout of shutdownCtx
    KillAfter    \* Manager.Shutdown sends SIGKILL after this time

VARIABLES
    sdPc,        \* step of Run
    sdCtx,       \* the context of the background workers is cancelled
    sdTime, sdDrained,  \* time since the signal; when the HTTP server was done
    sdReq,       \* sdReq[r]: "none", "open", "done", "lost" or "panic"
    sdCalls,     \* CallLogger.ch
    sdClosed,    \* the channel is closed
    sdQueued,    \* history: calls that were accepted into the queue
    sdLogged,    \* rows of integration_call_log
    sdFailed,    \* history: calls whose INSERT failed before the gateway stopped
    sdSess,      \* sdSess[s]: "live", "term", "kill" or "ended"
    sdTermAt,    \* when Manager.Shutdown began
    sdOut,       \* Hub.runOutbound runs
    sdEvents,    \* session.ended events waiting for the audit sink
    sdAudited,   \* sessions with a session.ended row in audit_log
    sdBg,        \* sdBg[w]: "run" or "done"
    sdNext,      \* index of the worker Run waits for
    sdGaveUp,    \* history: workers whose wait timed out
    sdLate       \* workers that used the store after its close

vars == <<sdPc, sdCtx, sdTime, sdDrained, sdReq, sdCalls, sdClosed, sdQueued, sdLogged, sdFailed, sdSess, sdTermAt, sdOut,
          sdEvents, sdAudited, sdBg, sdNext, sdGaveUp, sdLate>>
clock == <<sdCtx, sdTime, sdDrained>>
calls == <<sdCalls, sdQueued, sdLogged, sdFailed>>
http == <<sdReq, sdClosed, calls>>
sess == <<sdSess, sdTermAt, sdOut>>
audit == <<sdEvents, sdAudited>>
work == <<sdBg, sdNext, sdGaveUp, sdLate>>

Calls == Reqs \union Sockets
All == Workers \union {"audit"}
StoreOpen == sdPc # "stopped"

Init ==
    /\ sdPc = "serve" /\ sdCtx = FALSE /\ sdTime = 0 /\ sdDrained = 0
    /\ sdReq = [r \in Calls |-> "none"] /\ sdCalls = <<>> /\ sdClosed = FALSE
    /\ sdQueued = {} /\ sdLogged = {} /\ sdFailed = {}
    /\ sdSess = [s \in Sessions |-> "live"] /\ sdTermAt = 0 /\ sdOut = TRUE
    /\ sdEvents = {} /\ sdAudited = {}
    /\ sdBg = [w \in All |-> "run"] /\ sdNext = 1 /\ sdGaveUp = {} /\ sdLate = {}

(* A request arrives while the server accepts.                             *)
Accept(r) ==
    /\ sdPc = "serve" /\ sdReq[r] = "none" /\ sdReq' = [sdReq EXCEPT ![r] = "open"]
    /\ UNCHANGED <<sdPc, clock, calls, sdClosed, sess, audit, work>>

(* Its handler returns and CallLogger.Middleware records the call: a full  *)
(* queue drops it, a closed one panics.                                    *)
Record(r) ==
    /\ sdReq[r] = "open"
    /\ sdReq' = [sdReq EXCEPT ![r] = CASE sdClosed -> "panic" [] Len(sdCalls) = Queue -> "lost" [] OTHER -> "done"]
    /\ IF ~sdClosed /\ Len(sdCalls) < Queue
       THEN sdCalls' = Append(sdCalls, r) /\ sdQueued' = sdQueued \union {r}
       ELSE UNCHANGED <<sdCalls, sdQueued>>
    /\ UNCHANGED <<sdPc, clock, sdClosed, sdLogged, sdFailed, sess, audit, work>>

(* CallLogger.consume takes the head; its INSERT may fail, and is only     *)
(* logged then.                                                            *)
Consume ==
    /\ sdCalls # <<>> /\ sdCalls' = Tail(sdCalls)
    /\ \/ StoreOpen /\ sdLogged' = sdLogged \union {Head(sdCalls)} /\ UNCHANGED sdFailed
       \/ StoreOpen /\ sdFailed' = sdFailed \union {Head(sdCalls)} /\ UNCHANGED sdLogged
       \/ ~StoreOpen /\ UNCHANGED <<sdLogged, sdFailed>>
    /\ UNCHANGED <<sdPc, clock, sdReq, sdClosed, sdQueued, sess, audit, work>>

(* The signal cancels the context every background worker runs with.       *)
Signal ==
    /\ sdPc = "serve" /\ sdPc' = "http" /\ sdCtx' = TRUE
    /\ UNCHANGED <<sdTime, sdDrained, http, sess, audit, work>>

(* ListenAndServe fails: Run returns the error, without any of the rest.   *)
ServeFails ==
    /\ sdPc = "serve" /\ sdPc' = "failed"
    /\ UNCHANGED <<clock, http, sess, audit, work>>

(* Mutant of KillDue: the survivors are never killed.                      *)
KillDueNever == FALSE

(* Manager.Shutdown: after five seconds the survivors are to be killed.    *)
KillDue == sdPc = "sessions" /\ sdTime >= sdTermAt + KillAfter /\ \E s \in Sessions : sdSess[s] = "term"

(* Time passes; a timer that is due fires first.                           *)
Tick ==
    /\ sdPc \notin {"serve", "failed"} /\ ~KillDue /\ sdTime < Budget /\ sdTime' = sdTime + 1
    /\ UNCHANGED <<sdPc, sdCtx, sdDrained, http, sess, audit, work>>

(* http.Server.Shutdown is done, and Manager.Shutdown begins by sending    *)
(* SIGTERM to its snapshot.                                                *)
SessionsTerminated ==
    /\ sdPc = "http" /\ sdPc' = "sessions" /\ sdDrained' = sdTime
    /\ sdTermAt' = sdTime /\ sdSess' = [s \in Sessions |-> IF sdSess[s] = "live" THEN "term" ELSE sdSess[s]]
    /\ UNCHANGED <<sdCtx, sdTime, http, sdOut, audit, work>>

(* Mutant of HttpShutdown: it waits without a deadline.                    *)
HttpShutdownWaits == SessionsTerminated /\ \A r \in Reqs : sdReq[r] # "open"

(* Mutant of HttpShutdown: it stops the listener and does not wait.        *)
HttpShutdownHasty == SessionsTerminated

(* http.Server.Shutdown returns when no request is in flight, hijacked     *)
(* connections aside, or when the context expires.                         *)
HttpShutdown == SessionsTerminated /\ (sdTime = Budget \/ \A r \in Reqs : sdReq[r] # "open")

Kill ==
    /\ KillDue
    /\ sdSess' = [s \in Sessions |-> IF sdSess[s] = "term" THEN "kill" ELSE sdSess[s]]
    /\ UNCHANGED <<sdPc, clock, http, sdTermAt, sdOut, audit, work>>

(* A CLI exits, by itself or by a signal: waitExit stores the row and      *)
(* publishes session.ended to whoever still listens.                       *)
SessionEnds(s) ==
    /\ sdSess[s] # "ended"
    /\ sdSess' = [sdSess EXCEPT ![s] = "ended"]
    /\ sdEvents' = IF sdBg["audit"] = "run" /\ StoreOpen THEN sdEvents \union {s} ELSE sdEvents
    /\ UNCHANGED <<sdPc, clock, http, sdTermAt, sdOut, sdAudited, work>>

(* Sink.consume chooses between the cancelled context and the next event;  *)
(* a write may fail, and does under the cancelled context.                 *)
AuditWrite(s) ==
    /\ sdBg["audit"] = "run" /\ s \in sdEvents /\ sdEvents' = sdEvents \ {s}
    /\ \/ ~sdCtx /\ StoreOpen /\ sdAudited' = sdAudited \union {s}
       \/ UNCHANGED sdAudited
    /\ UNCHANGED <<sdPc, clock, http, sess, work>>

(* Manager.Shutdown returns when every run ended, or with the context,     *)
(* which the kill branch waits for too.                                    *)
SessionsShutdown ==
    /\ sdPc = "sessions" /\ sdPc' = "channels"
    /\ sdTime = Budget \/ \A s \in Sessions : sdSess[s] = "ended"
    /\ UNCHANGED <<clock, http, sess, audit, work>>

(* Hub.Shutdown cancels the dispatcher and stops the channels ...          *)
HubShutdown ==
    /\ sdPc = "channels" /\ sdPc' = "outbound"
    /\ UNCHANGED <<clock, http, sess, audit, work>>
OutboundEnds ==
    /\ sdPc \in {"outbound", "drain", "wait", "close", "stopped"} /\ sdOut /\ sdOut' = FALSE
    /\ UNCHANGED <<sdPc, clock, http, sdSess, sdTermAt, audit, work>>

(* Mutant of CallLogCloses: Close does not wait for the queue.             *)
CallLogClosesHasty ==
    /\ sdPc = "outbound" /\ sdPc' = "wait" /\ sdClosed' = TRUE
    /\ UNCHANGED <<clock, sdReq, calls, sess, audit, work>>

(* ... and waits for the dispatcher or the context. CallLogger.Close then  *)
(* closes the queue ...                                                    *)
CallLogCloses ==
    /\ sdPc = "outbound" /\ (sdTime = Budget \/ ~sdOut) /\ sdPc' = "drain" /\ sdClosed' = TRUE
    /\ UNCHANGED <<clock, sdReq, calls, sess, audit, work>>

(* ... and waits until consume has emptied it.                             *)
CallLogDrained ==
    /\ sdPc = "drain" /\ sdCalls = <<>> /\ sdPc' = "wait"
    /\ UNCHANGED <<clock, http, sess, audit, work>>

(* A worker reads or writes the store after its close.                     *)
WorkerStep(w) ==
    /\ sdBg[w] = "run" /\ ~StoreOpen /\ sdLate' = sdLate \union {w}
    /\ UNCHANGED <<sdPc, clock, http, sess, audit, sdBg, sdNext, sdGaveUp>>
WorkerStops(w) ==
    /\ sdCtx /\ sdBg[w] = "run" /\ sdBg' = [sdBg EXCEPT ![w] = "done"]
    /\ UNCHANGED <<sdPc, clock, http, sess, audit, sdNext, sdGaveUp, sdLate>>

(* Run waits for one worker after the other, each with a timeout.          *)
WaitNext ==
    /\ sdPc = "wait" /\ sdNext <= Len(WaitOrder) /\ sdNext' = sdNext + 1
    /\ \/ sdBg[WaitOrder[sdNext]] = "done" /\ UNCHANGED sdGaveUp
       \/ sdGaveUp' = sdGaveUp \union {WaitOrder[sdNext]}
    /\ UNCHANGED <<sdPc, clock, http, sess, audit, sdBg, sdLate>>

(* Mutant of WaitOver: the workers are not waited for.                     *)
WaitOverAtOnce ==
    /\ sdPc = "wait" /\ sdPc' = "close"
    /\ UNCHANGED <<clock, http, sess, audit, work>>

WaitOver ==
    /\ sdPc = "wait" /\ sdPc' = "close" /\ sdNext > Len(WaitOrder)
    /\ UNCHANGED <<clock, http, sess, audit, work>>

(* bus.Close, then store.Close.                                            *)
Close ==
    /\ sdPc = "close" /\ sdPc' = "stopped"
    /\ UNCHANGED <<clock, http, sess, audit, work>>

RunStep ==
    HttpShutdown \/ SessionsShutdown \/ HubShutdown \/ CallLogCloses \/ CallLogDrained \/ WaitNext \/ WaitOver \/ Close

Next ==
    \/ \E r \in Calls : Accept(r) \/ Record(r)
    \/ Consume \/ Signal \/ ServeFails \/ Tick \/ RunStep \/ Kill \/ OutboundEnds
    \/ \E s \in Sessions : SessionEnds(s) \/ AuditWrite(s)
    \/ \E w \in All : WorkerStep(w) \/ WorkerStops(w)

Spec == Init /\ [][Next]_vars

(* The steps of Run, its timeouts among them, the clock and the consumer   *)
(* of the queue are fair; requests, CLIs, the dispatcher and the workers   *)
(* need not end.                                                           *)
FairSpec == Spec /\ WF_vars(RunStep) /\ WF_vars(Tick) /\ WF_vars(Kill) /\ WF_vars(Consume)

TypeOK ==
    /\ sdPc \in {"serve", "failed", "http", "sessions", "channels", "outbound", "drain", "wait", "close", "stopped"}
    /\ sdReq \in [Calls -> {"none", "open", "done", "lost", "panic"}] /\ Len(sdCalls) <= Queue
    /\ sdSess \in [Sessions -> {"live", "term", "kill", "ended"}]

(* A call that was accepted into the queue is in integration_call_log when *)
(* the gateway has stopped, unless the database refused it while it ran.   *)
CallsOnRecord == sdPc = "stopped" => sdQueued \subseteq sdLogged \union sdFailed

(* Only a hijacked connection, or a request that used up the whole drain   *)
(* time, can meet the closed channel of the call log.                      *)
OnlyStragglersPanic == \A r \in Reqs : sdReq[r] = "panic" => sdDrained = Budget

(* When the HTTP drain left time for the kill, no CLI outlives the gateway *)
(* without having been sent SIGKILL.                                       *)
NoneLeftUnkilled ==
    sdPc = "stopped" /\ sdDrained + KillAfter < Budget => \A s \in Sessions : sdSess[s] \notin {"live", "term"}

(* A worker of the wait list uses the store after its close only when Run  *)
(* gave up waiting for it.                                                 *)
StoreOutlivesWorkers == \A i \in 1..Len(WaitOrder) : WaitOrder[i] \in sdLate => WaitOrder[i] \in sdGaveUp

(* The gateway stops after the signal although a request, a CLI and a      *)
(* worker may hang.                                                        *)
RunReturns == (sdPc = "http") ~> (sdPc = "stopped")

(* The comment of Run: the audit sink stops after the session manager, so  *)
(* the sessions the shutdown ends in time are in the audit log.            *)
ShutdownIsAudited ==
    sdPc = "stopped" => \A s \in Sessions : sdSess[s] = "ended" => s \in sdAudited
=============================================================================
