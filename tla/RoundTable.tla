----------------------------- MODULE RoundTable -----------------------------
(***************************************************************************)
(* The round table: a group chat of agents.  A message of the operator     *)
(* that @mentions members starts a debate in the background; members who   *)
(* are mentioned in replies speak in the next round, up to maxAutoRounds,  *)
(* where the debate pauses until the operator lets it go on.  What was     *)
(* agreed is drafted as a plan whose steps run in sessions, or is handed   *)
(* off to one session.  Mentions keep the order of the seats, so a queue   *)
(* of mentions made by one reply is a set in that order.                   *)
(***************************************************************************)
EXTENDS Naturals, Sequences, FiniteSets, SequencesExt

CONSTANTS
    Members,       \* the providers that can be seated, in the order of the seats
    Debates,       \* goroutines of runReplies
    maxAutoRounds, \* extra rounds the members may trigger
    Limit,         \* messages of a thread that are loaded (200)
    MaxPosts,      \* bound: messages, continuations and edits of the operator
    MaxWork        \* bound: handoffs, plans and steps

Seated == {Members[i] : i \in 1..Len(Members)}

VARIABLES
    rtSeats,     \* the members seated
    rtOpen,      \* status of the table
    rtLog,       \* the messages: a turn of somebody or a note of the system, with who is pending
    rtRun,       \* rtRun[d]: the debate: seats it knows, this round's and the next round's queue,
                 \* the round, the call in flight, its time being up; history: calls made,
                 \* members it owes a turn
    rtPosts,
    rtPlan,      \* the steps: task, state, session
    rtJob,       \* the plan calls in flight: a step being launched, a plan being drafted
    rtResult,    \* resulting_session_id
    rtLive,      \* sessions launched and alive, and their task (0: a handoff)
    rtWork, rtTasks

vars == <<rtSeats, rtOpen, rtLog, rtRun, rtPosts, rtPlan, rtJob, rtResult, rtLive, rtWork, rtTasks>>
chat == <<rtSeats, rtOpen, rtLog, rtRun, rtPosts>>
work == <<rtPlan, rtJob, rtResult, rtLive, rtWork, rtTasks>>

Idle == [on |-> FALSE, seats |-> {}, now |-> <<>>, next |-> <<>>, round |-> 0, call |-> FALSE, late |-> FALSE, saw |-> 0, calls |-> 0, owes |-> {}]
NoJob == [on |-> FALSE, plan |-> <<>>, index |-> 0, session |-> 0]

Init ==
    /\ rtSeats = Seated /\ rtOpen = TRUE /\ rtLog = <<>> /\ rtRun = [d \in Debates |-> Idle] /\ rtPosts = 0
    /\ rtPlan = <<>> /\ rtJob = [j \in {"step", "draft"} |-> NoJob] /\ rtResult = 0 /\ rtLive = {} /\ rtWork = 0 /\ rtTasks = 0

Post == rtPosts < MaxPosts /\ rtPosts' = rtPosts + 1
InOrder(S) == SelectSeq(Members, LAMBDA m : m \in S)
Message(role, pending) == [role |-> role, mentions |-> pending]

(* Messages: the oldest ones, up to the limit.                             *)
Loaded == SubSeq(rtLog, 1, IF Len(rtLog) < Limit THEN Len(rtLog) ELSE Limit)

(***************************************************************************)
(* Debates.                                                                *)
(***************************************************************************)
(* go runReplies(id, providers).                                           *)
Begin(d, queue) ==
    rtRun' = [rtRun EXCEPT ![d] = [Idle EXCEPT !.on = TRUE, !.seats = rtSeats, !.now = queue]]

(* PostMessage: S are the members it mentions.                             *)
PostMessage(d, S) ==
    /\ Post /\ rtOpen /\ S \subseteq rtSeats /\ ~rtRun[d].on /\ rtLog' = Append(rtLog, Message("turn", <<>>))
    /\ IF S = {} THEN UNCHANGED rtRun ELSE Begin(d, InOrder(S))
    /\ UNCHANGED <<rtSeats, rtOpen, work>>

(* Mutant of pendingSpeakers: any note ends the search.                    *)
PendingOfLastNote(log) ==
    IF log # <<>> /\ log[Len(log)].role = "system" THEN SelectSeq(log[Len(log)].mentions, LAMBDA m : m \in rtSeats) ELSE <<>>

(* pendingSpeakers: of the newest paused note, with only notes after it.   *)
pendingSpeakers(log) ==
    LET notes == {i \in 1..Len(log) : log[i].mentions # <<>> /\ \A k \in i..Len(log) : log[k].role = "system"}
    IN  IF notes = {} THEN <<>>
        ELSE SelectSeq(log[CHOOSE i \in notes : \A k \in notes : k <= i].mentions, LAMBDA m : m \in rtSeats)

(* Continue: who is pending, or everyone.                                  *)
Continue(d) ==
    /\ Post /\ rtOpen /\ rtSeats # {} /\ ~rtRun[d].on
    /\ Begin(d, IF pendingSpeakers(Loaded) = <<>> THEN InOrder(rtSeats) ELSE pendingSpeakers(Loaded))
    /\ UNCHANGED <<rtSeats, rtOpen, rtLog, work>>

(* Mutant of nextRoundMentions: a member already queued is queued again.   *)
NextRoundRepeats(queue, mentions, self) == queue \o SelectSeq(mentions, LAMBDA m : m # self)

(* nextRoundMentions: neither the speaker nor who is queued already.       *)
nextRoundMentions(queue, mentions, self) ==
    queue \o SelectSeq(mentions, LAMBDA m : m # self /\ m \notin Range(queue))

(* The next speaker's turn: the thread is read and the member called.      *)
Call(d) ==
    LET r == rtRun[d] IN
    /\ r.on /\ ~r.call /\ ~r.late /\ r.now # <<>>
    /\ rtRun' = [rtRun EXCEPT ![d] = IF Head(r.now) \in r.seats
                    THEN [r EXCEPT !.call = TRUE, !.saw = Len(Loaded), !.calls = @ + 1]
                    ELSE [r EXCEPT !.now = Tail(@)]]
    /\ UNCHANGED <<rtSeats, rtOpen, rtLog, rtPosts, work>>

(* The member's reply mentions S (parseMentions: of the seats read last).  *)
Reply(d, S) ==
    LET r == rtRun[d]  m == Head(r.now) IN
    /\ r.on /\ r.call /\ ~r.late /\ S \subseteq rtSeats /\ rtLog' = Append(rtLog, Message("turn", <<>>))
    /\ rtRun' = [rtRun EXCEPT ![d] = [r EXCEPT !.call = FALSE, !.now = Tail(@), !.next = nextRoundMentions(@, InOrder(S), m),
                                               !.owes = (@ \ {m}) \union ((S \ {m}) \intersect r.seats)]]
    /\ UNCHANGED <<rtSeats, rtOpen, rtPosts, work>>

(* memberFailed: a note, and the round goes on.                            *)
Fail(d) ==
    LET r == rtRun[d] IN
    /\ r.on /\ r.call /\ ~r.late /\ rtLog' = Append(rtLog, Message("system", <<>>))
    /\ rtRun' = [rtRun EXCEPT ![d] = [r EXCEPT !.call = FALSE, !.now = Tail(@), !.owes = @ \ {Head(r.now)}]]
    /\ UNCHANGED <<rtSeats, rtOpen, rtPosts, work>>

(* Mutant of RoundEnds: at the limit the debate just ends.                 *)
RoundEndsQuietly(d) ==
    LET r == rtRun[d] IN
    /\ r.on /\ ~r.call /\ ~r.late /\ r.now = <<>>
    /\ IF r.next # <<>> /\ r.round < maxAutoRounds
         THEN rtRun' = [rtRun EXCEPT ![d] = [r EXCEPT !.now = r.next, !.next = <<>>, !.round = @ + 1]]
         ELSE rtRun' = [rtRun EXCEPT ![d] = [Idle EXCEPT !.owes = r.owes]]
    /\ UNCHANGED <<rtSeats, rtOpen, rtLog, rtPosts, work>>

(* The round is over: the next one, the end, or, at the limit, a note that *)
(* names who is still to speak.                                            *)
RoundEnds(d) ==
    LET r == rtRun[d] IN
    /\ r.on /\ ~r.call /\ ~r.late /\ r.now = <<>>
    /\ \/ /\ r.next # <<>> /\ r.round < maxAutoRounds /\ UNCHANGED rtLog
          /\ rtRun' = [rtRun EXCEPT ![d] = [r EXCEPT !.now = r.next, !.next = <<>>, !.round = @ + 1]]
       \/ /\ r.next # <<>> /\ r.round >= maxAutoRounds /\ rtLog' = Append(rtLog, Message("system", r.next))
          /\ rtRun' = [rtRun EXCEPT ![d] = [Idle EXCEPT !.owes = r.owes \ Range(r.next)]]
       \/ /\ r.next = <<>> /\ rtRun' = [rtRun EXCEPT ![d] = [Idle EXCEPT !.owes = r.owes]] /\ UNCHANGED rtLog
    /\ UNCHANGED <<rtSeats, rtOpen, rtPosts, work>>

(* roundTimeout: the call in flight fails, nothing more can be read or     *)
(* written under the context, and the debate ends without a note.          *)
Expire(d) ==
    /\ rtRun[d].on /\ ~rtRun[d].late /\ Post /\ rtRun' = [rtRun EXCEPT ![d].late = TRUE]
    /\ UNCHANGED <<rtSeats, rtOpen, rtLog, work>>

(* Mutant of Expired: the table is loaded again until that works.          *)
ExpiredRetries(d) ==
    /\ rtRun[d].on /\ rtRun[d].late /\ rtRun' = [rtRun EXCEPT ![d].call = ~@]
    /\ UNCHANGED <<rtSeats, rtOpen, rtLog, rtPosts, work>>

Expired(d) ==
    /\ rtRun[d].on /\ rtRun[d].late /\ rtRun' = [rtRun EXCEPT ![d] = Idle]
    /\ UNCHANGED <<rtSeats, rtOpen, rtLog, rtPosts, work>>

(* Summarize: a member's summary, a message like any other, or its failure.*)
Summarize ==
    /\ Post /\ rtSeats # {}
    /\ \E role \in {"turn", "system"} : rtLog' = Append(rtLog, Message(role, <<>>))
    /\ UNCHANGED <<rtSeats, rtOpen, rtRun, work>>

(* UpdateSeats, close and reopen; a debate under way is not told.          *)
UpdateSeats(S) ==
    /\ Post /\ S # {} /\ S # rtSeats /\ rtSeats' = S /\ UNCHANGED <<rtOpen, rtLog, rtRun, work>>

SetStatus == Post /\ rtOpen' = ~rtOpen /\ UNCHANGED <<rtSeats, rtLog, rtRun, work>>

(***************************************************************************)
(* Plans and sessions.                                                     *)
(***************************************************************************)
Work == rtWork < MaxWork /\ rtWork' = rtWork + 1
Noted == rtLog' = Append(rtLog, Message("system", <<>>))
talk == <<rtSeats, rtOpen, rtRun, rtPosts>>

(* DraftPlan asks a member ...                                             *)
DraftPlan ==
    /\ Work /\ rtSeats # {} /\ ~rtJob["draft"].on /\ rtJob' = [rtJob EXCEPT !["draft"].on = TRUE]
    /\ UNCHANGED <<chat, rtPlan, rtResult, rtLive, rtTasks>>

(* ... who, minutes later, has a new plan or failed.                       *)
runDraftPlan ==
    /\ rtJob["draft"].on /\ rtJob' = [rtJob EXCEPT !["draft"] = NoJob] /\ Noted
    /\ \/ rtPlan' = [i \in 1..2 |-> [task |-> rtTasks + i, state |-> "pending", session |-> 0]] /\ rtTasks' = rtTasks + 2
       \/ UNCHANGED <<rtPlan, rtTasks>>
    /\ UNCHANGED <<talk, rtResult, rtLive, rtWork>>

(* setPlan of the handler: the operator drops a step.                      *)
SetPlan(i) ==
    /\ Work /\ i \in 1..Len(rtPlan) /\ rtPlan' = RemoveAt(rtPlan, i)
    /\ UNCHANGED <<chat, rtJob, rtResult, rtLive, rtTasks>>

(* RunStep reads the table and launches a session for the step ...         *)
RunStep(i) ==
    /\ Work /\ ~rtJob["step"].on /\ i \in 1..Len(rtPlan)
    /\ rtJob' = [rtJob EXCEPT !["step"] = [on |-> TRUE, plan |-> rtPlan, index |-> i, session |-> rtWork + 1]]
    /\ rtLive' = rtLive \union {[id |-> rtWork + 1, task |-> rtPlan[i].task]}
    /\ UNCHANGED <<chat, rtPlan, rtResult, rtTasks>>

(* Mutant of Marked: the plan as it is when the session has been launched. *)
MarkedNow(plan, i, s) ==
    [k \in 1..Len(rtPlan) |-> IF k = i THEN [rtPlan[k] EXCEPT !.state = "running", !.session = s]
                              ELSE IF k < i /\ rtPlan[k].state = "running" THEN [rtPlan[k] EXCEPT !.state = "done"] ELSE rtPlan[k]]

(* The step runs in session s, earlier running ones are done.              *)
Marked(plan, i, s) ==
    [k \in 1..Len(plan) |-> IF k = i THEN [plan[k] EXCEPT !.state = "running", !.session = s]
                            ELSE IF k < i /\ plan[k].state = "running" THEN [plan[k] EXCEPT !.state = "done"] ELSE plan[k]]

(* ... and, once it is up, writes the plan it had read.                  *)
StepLaunched ==
    LET j == rtJob["step"]  s == j.session IN
    /\ j.on /\ rtJob' = [rtJob EXCEPT !["step"] = NoJob] /\ Noted
    /\ rtPlan' = Marked(j.plan, j.index, s) /\ rtResult' = s /\ UNCHANGED <<talk, rtLive, rtWork, rtTasks>>

(* Handoff: the session of the last handoff or step is told, if it lives   *)
(* (Deliver); otherwise, or when forced, a session is launched.            *)
Handoff(force) ==
    /\ Work /\ Noted
    /\ IF ~force /\ \E s \in rtLive : s.id = rtResult THEN UNCHANGED <<rtLive, rtResult>>
       ELSE rtLive' = rtLive \union {[id |-> rtWork + 1, task |-> 0]} /\ rtResult' = rtWork + 1
    /\ UNCHANGED <<talk, rtPlan, rtJob, rtTasks>>

(* A session ends.                                                         *)
SessionEnds(s) ==
    /\ s \in rtLive /\ rtLive' = rtLive \ {s} /\ UNCHANGED <<chat, rtPlan, rtJob, rtResult, rtWork, rtTasks>>

Debate(d) == Call(d) \/ Fail(d) \/ Expired(d) \/ RoundEnds(d) \/ \E S \in SUBSET rtSeats : Reply(d, S)

Next ==
    \/ \E d \in Debates : Debate(d) \/ Expire(d) \/ Continue(d) \/ \E S \in SUBSET rtSeats : PostMessage(d, S)
    \/ (\E S \in SUBSET Seated : UpdateSeats(S)) \/ SetStatus \/ Summarize
    \/ DraftPlan \/ runDraftPlan \/ StepLaunched \/ (\E i \in 1..2 : RunStep(i) \/ SetPlan(i)) \/ (\E s \in rtLive : SessionEnds(s))
    \/ \E force \in BOOLEAN : Handoff(force)

(* Calls of members time out, so a debate goes on.                         *)
Fairness == \A d \in Debates : WF_vars(Debate(d))

Spec == Init /\ [][Next]_vars /\ Fairness

TypeOK ==
    /\ rtSeats \subseteq Seated /\ rtResult \in 0..MaxWork /\ rtWork \in 0..MaxWork /\ rtPosts \in 0..MaxPosts
    /\ \A d \in Debates : rtRun[d].round \in 0..maxAutoRounds /\ Range(rtRun[d].now) \subseteq Seated

(* The cost of a debate is bounded: one call a member and round.           *)
BoundedCost == \A d \in Debates : rtRun[d].calls <= (maxAutoRounds + 1) * Cardinality(rtRun[d].seats)

(* When a debate is over everyone a reply addressed has spoken, has failed *)
(* or is named by the pause note, unless the time of the debate was up     *)
(* (members seated since are not known to the debate).                     *)
NobodyDropped == \A d \in Debates : ~rtRun[d].on => rtRun[d].owes = {}

(* What one step may do, for PausedSpeakFirst.                             *)
PausedSpeakFirstStep ==
    \A d \in Debates, i \in 1..Len(rtLog) :
        (~rtRun[d].on /\ rtRun'[d].on /\ rtLog' = rtLog /\ Len(rtLog) <= Limit
         /\ \A k \in i..Len(rtLog) : rtLog[k].role = "system" /\ (k > i => rtLog[k].mentions = <<>>))
            => LET left == Range(rtLog[i].mentions) \intersect rtSeats IN left # {} => Range(rtRun'[d].now) = left

(* When the operator lets a paused debate go on, exactly those speak who   *)
(* were to speak and are still seated, whatever notes came in between.     *)
PausedSpeakFirst == [][PausedSpeakFirstStep]_vars

(* A step that runs points to the session that was launched for its task,  *)
(* also when the plan was replaced while the session was launched.         *)
StepOwnsSession ==
    \A i \in 1..Len(rtPlan), s \in rtLive : rtPlan[i].session = s.id => rtPlan[i].task = s.task

(* A step that is run again while the session of its first run lives goes  *)
(* on in that session.                                                     *)
StepContinues == \A s, t \in rtLive : (s.task = t.task /\ s.task # 0) => s = t

(* A debate comes to its end.                                              *)
DebateEnds == \A d \in Debates : rtRun[d].on ~> ~rtRun[d].on

(* A member answers a thread that holds the message that called it.        *)
SeesTheThread == \A d \in Debates : rtRun[d].call => rtRun[d].saw = Len(rtLog)
=============================================================================
