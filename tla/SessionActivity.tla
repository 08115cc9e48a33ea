--------------------------- MODULE SessionActivity ---------------------------
(***************************************************************************)
(* Idle and turn detection for one run: the pump and Input record activity *)
(* (markActive, flipBackToRunning), idleWatcher and turnWatcher poll it on *)
(* tickers, a chat arms turn detection (ExpectTurn), and waitExit ends the *)
(* run.  activityMu guards lastActivity, isIdle and expectTurn; sessMu     *)
(* guards the state; nothing guards both, and every critical section of    *)
(* either is a step.                                                       *)
(*                                                                         *)
(* Time is counted in ticks of about a second.  Recording activity and     *)
(* flipping the state back takes less than a tick; a watcher may be slow,  *)
(* since it reads transcripts while it publishes.                          *)
(***************************************************************************)
EXTENDS Naturals, TLAPS

CONSTANTS
    Actors,         \* who records activity: a subset of "pump", "web", "chat"
    IdleThreshold, TurnThreshold,
    MaxActivity,    \* bound: nobody acts after this tick
    MaxTime,        \* bound: the clock stops here, after every threshold has passed
    MaxArms         \* bound: messages the chat submits

ASSUME TimesAssumption == IdleThreshold \in Nat /\ TurnThreshold \in Nat /\ MaxTime \in Nat

VARIABLES
    clock,
    state,          \* rs.sess.State; "ended" stands for the terminal states
    endedCh,        \* is endedCh closed?
    lastActivity, isIdle, expectTurn, expectAt,
    apc,            \* where each actor stands
    ipc, inow,      \* idleWatcher: where it stands, the tick it received
    tpc, tnow,      \* turnWatcher
    arms, turns,    \* history: ExpectTurn calls that armed; turns published
    wakes, idles,   \* history: idle windows ended by activity; idles published
    outputSince,    \* history: output since the last arming
    falseTurn,      \* history: a turn settled without output since its arming
    waiting,        \* history: an armed message whose turn was not published
    answered        \* history: output since the chat submitted its message

watched == <<lastActivity, isIdle, expectTurn, expectAt>>
history == <<arms, turns, wakes, idles, outputSince, falseTurn, waiting, answered>>
vars == <<clock, state, endedCh, watched, apc, ipc, inow, tpc, tnow, history>>

Init ==
    /\ clock = 0 /\ state = "running" /\ endedCh = FALSE
    /\ lastActivity = 0 /\ isIdle = FALSE /\ expectTurn = FALSE /\ expectAt = 0
    /\ apc = [a \in Actors |-> "ready"]
    /\ ipc = "wait" /\ inow = 0 /\ tpc = "wait" /\ tnow = 0
    /\ arms = 0 /\ turns = 0 /\ wakes = 0 /\ idles = 0
    /\ outputSince = FALSE /\ falseTurn = FALSE /\ waiting = FALSE /\ answered = FALSE

(***************************************************************************)
(* Activity.                                                               *)
(***************************************************************************)

AGoto(a, p) == apc' = [apc EXCEPT ![a] = p]

(* The hub calls ExpectTurn once Input has returned.                       *)
AfterActivity(a) == IF a = "chat" THEN "expect" ELSE "ready"

(* The pump has read a chunk, until the PTY is closed; Input has found the *)
(* session live and written to the PTY.                                    *)
BeginActivity(a) ==
    /\ apc[a] = "ready" /\ clock <= MaxActivity
    /\ IF a = "pump" THEN ~endedCh ELSE state # "ended"
    /\ a = "chat" => arms < MaxArms
    /\ AGoto(a, "mark")
    /\ UNCHANGED <<clock, state, endedCh, watched, ipc, inow, tpc, tnow, history>>

MarkActive(a) ==
    /\ apc[a] = "mark"
    /\ lastActivity' = clock /\ isIdle' = FALSE
    /\ AGoto(a, IF isIdle THEN "flip" ELSE AfterActivity(a))
    /\ wakes' = IF isIdle THEN wakes + 1 ELSE wakes
    /\ outputSince' = (outputSince \/ a = "pump")
    /\ answered' = IF a = "chat" THEN FALSE ELSE answered \/ a = "pump"
    /\ waiting' = (waiting /\ a # "chat")
    /\ UNCHANGED <<clock, state, endedCh, expectTurn, expectAt, ipc, inow, tpc, tnow,
                   arms, turns, idles, falseTurn>>

FlipBackToRunning(a) ==
    /\ apc[a] = "flip"
    /\ state' = IF state = "idle" THEN "running" ELSE state
    /\ AGoto(a, AfterActivity(a))
    /\ UNCHANGED <<clock, endedCh, watched, ipc, inow, tpc, tnow, history>>

(* ExpectTurn: the state is checked, then the session is armed.            *)
ExpectTurn(a) ==
    /\ apc[a] = "expect"
    /\ AGoto(a, IF state = "ended" THEN "ready" ELSE "arm")
    /\ UNCHANGED <<clock, state, endedCh, watched, ipc, inow, tpc, tnow, history>>

Arm(a) ==
    /\ apc[a] = "arm"
    /\ expectTurn' = TRUE /\ expectAt' = clock
    /\ arms' = arms + 1 /\ waiting' = TRUE /\ outputSince' = FALSE
    /\ AGoto(a, "ready")
    /\ UNCHANGED <<clock, state, endedCh, lastActivity, isIdle, ipc, inow, tpc, tnow,
                   turns, wakes, idles, falseTurn, answered>>

(***************************************************************************)
(* idleWatcher.                                                            *)
(***************************************************************************)

(* A tick is received; it may be old by the time it is looked at.          *)
IdleTick ==
    /\ ipc = "wait" /\ ipc' = "check" /\ inow' = clock
    /\ UNCHANGED <<clock, state, endedCh, watched, apc, tpc, tnow, history>>

Silent(now, threshold) == now >= lastActivity + threshold

(* Mutant of JustIdle: idle is reported again while the window lasts.      *)
JustIdleAgain == Silent(inow, IdleThreshold)

(* Mutant of JustIdle: never, at the default threshold.                    *)
JustIdleNever == ~isIdle /\ Silent(inow, MaxTime)

JustIdle == ~isIdle /\ Silent(inow, IdleThreshold)

(* Mutant of CheckIdle: the watcher returns where it should wait on.       *)
CheckIdleReturns ==
    /\ ipc = "check"
    /\ isIdle' = (isIdle \/ JustIdle)
    /\ ipc' = IF JustIdle THEN "set" ELSE "done"
    /\ UNCHANGED <<clock, state, endedCh, lastActivity, expectTurn, expectAt, apc, inow,
                   tpc, tnow, history>>

(* checkIdle: the flag is set when the silence is first seen to be long.   *)
CheckIdle ==
    /\ ipc = "check"
    /\ isIdle' = (isIdle \/ JustIdle)
    /\ ipc' = IF JustIdle THEN "set" ELSE "wait"
    /\ UNCHANGED <<clock, state, endedCh, lastActivity, expectTurn, expectAt, apc, inow,
                   tpc, tnow, history>>

(* Mutant of SetIdle: the state is not looked at.                          *)
SetIdleBlindly ==
    /\ ipc = "set" /\ state' = "idle" /\ ipc' = "publish"
    /\ UNCHANGED <<clock, endedCh, watched, apc, inow, tpc, tnow, history>>

SetIdle ==
    /\ ipc = "set"
    /\ IF state = "ended" THEN ipc' = "done" /\ UNCHANGED state
                          ELSE ipc' = "publish" /\ state' = "idle"
    /\ UNCHANGED <<clock, endedCh, watched, apc, inow, tpc, tnow, history>>

PublishIdle ==
    /\ ipc = "publish" /\ ipc' = "wait"
    /\ idles' = idles + 1
    /\ UNCHANGED <<clock, state, endedCh, watched, apc, inow, tpc, tnow, arms, turns, wakes,
                   outputSince, falseTurn, waiting, answered>>

IdleWatcherStops ==
    /\ endedCh /\ ipc = "wait" /\ ipc' = "done"
    /\ UNCHANGED <<clock, state, endedCh, watched, apc, inow, tpc, tnow, history>>

(***************************************************************************)
(* turnWatcher.                                                            *)
(***************************************************************************)

TurnTick ==
    /\ tpc = "wait" /\ tpc' = "check" /\ tnow' = clock
    /\ UNCHANGED <<clock, state, endedCh, watched, apc, ipc, inow, history>>

(* Mutant of TurnComplete: activity in the tick of the arming is ignored.  *)
TurnCompleteStrict == expectTurn /\ lastActivity > expectAt /\ Silent(tnow, TurnThreshold)

TurnComplete == expectTurn /\ lastActivity >= expectAt /\ Silent(tnow, TurnThreshold)

(* Mutant of CheckTurn: firing does not disarm.                            *)
CheckTurnStaysArmed ==
    /\ tpc = "check" /\ tpc' = IF TurnComplete THEN "settled" ELSE "wait"
    /\ falseTurn' = (falseTurn \/ (TurnComplete /\ ~outputSince))
    /\ UNCHANGED <<clock, state, endedCh, watched, apc, ipc, inow, tnow,
                   arms, turns, wakes, idles, outputSince, waiting, answered>>

(* checkTurnComplete disarms when it fires.                                *)
CheckTurn ==
    /\ tpc = "check" /\ tpc' = IF TurnComplete THEN "settled" ELSE "wait"
    /\ expectTurn' = (expectTurn /\ ~TurnComplete)
    /\ falseTurn' = (falseTurn \/ (TurnComplete /\ ~outputSince))
    /\ UNCHANGED <<clock, state, endedCh, lastActivity, isIdle, expectAt, apc, ipc, inow, tnow,
                   arms, turns, wakes, idles, outputSince, waiting, answered>>

(* Nothing is published for a run that has ended.                          *)
TurnSettled ==
    /\ tpc = "settled" /\ tpc' = IF state = "ended" THEN "done" ELSE "publish"
    /\ UNCHANGED <<clock, state, endedCh, watched, apc, ipc, inow, tnow, history>>

PublishTurn ==
    /\ tpc = "publish" /\ tpc' = "wait"
    /\ turns' = turns + 1 /\ waiting' = FALSE
    /\ UNCHANGED <<clock, state, endedCh, watched, apc, ipc, inow, tnow, arms, wakes, idles,
                   outputSince, falseTurn, answered>>

TurnWatcherStops ==
    /\ endedCh /\ tpc = "wait" /\ tpc' = "done"
    /\ UNCHANGED <<clock, state, endedCh, watched, apc, ipc, inow, tnow, history>>

(***************************************************************************)
(* waitExit, and time.                                                     *)
(***************************************************************************)

SetTerminal ==
    /\ state # "ended" /\ state' = "ended"
    /\ UNCHANGED <<clock, endedCh, watched, apc, ipc, inow, tpc, tnow, history>>

CloseEndedCh ==
    /\ state = "ended" /\ ~endedCh /\ endedCh' = TRUE
    /\ UNCHANGED <<clock, state, watched, apc, ipc, inow, tpc, tnow, history>>

Tick ==
    /\ clock < MaxTime /\ clock' = clock + 1
    /\ \A a \in Actors : apc[a] \notin {"mark", "flip"}
    /\ UNCHANGED <<state, endedCh, watched, apc, ipc, inow, tpc, tnow, history>>

ActorStep(a) ==
    MarkActive(a) \/ FlipBackToRunning(a) \/ ExpectTurn(a) \/ Arm(a)

IdleWatcher == IdleTick \/ CheckIdle \/ SetIdle \/ PublishIdle \/ IdleWatcherStops

TurnWatcher == TurnTick \/ CheckTurn \/ TurnSettled \/ PublishTurn \/ TurnWatcherStops

Next ==
    \/ \E a \in Actors : BeginActivity(a) \/ ActorStep(a)
    \/ IdleWatcher \/ TurnWatcher
    \/ SetTerminal \/ CloseEndedCh \/ Tick

Spec == Init /\ [][Next]_vars

(* Time passes however busy the actors are (strong fairness: they hold     *)
(* Tick up now and then), tickers tick and goroutines run; nothing is      *)
(* assumed of the CLI, of the clients, or of the run ending.               *)
FairSpec ==
    /\ Spec /\ SF_vars(Tick) /\ WF_vars(IdleWatcher) /\ WF_vars(TurnWatcher)
    /\ WF_vars(CloseEndedCh) /\ \A a \in Actors : WF_vars(ActorStep(a))

(***************************************************************************)
(* Properties.                                                             *)
(***************************************************************************)

(* Every variable has its type; no time recorded is ahead of the clock,    *)
(* and a watcher has returned only from a run that is over.                *)
TypeOK ==
    /\ clock \in 0..MaxTime /\ state \in {"running", "idle", "ended"} /\ endedCh \in BOOLEAN
    /\ lastActivity \in 0..MaxTime /\ isIdle \in BOOLEAN
    /\ expectTurn \in BOOLEAN /\ expectAt \in 0..MaxTime
    /\ apc \in [Actors -> {"ready", "mark", "flip", "expect", "arm"}]
    /\ ipc \in {"wait", "check", "set", "publish", "done"} /\ inow \in 0..MaxTime
    /\ tpc \in {"wait", "check", "settled", "publish", "done"} /\ tnow \in 0..MaxTime
    /\ arms \in Nat /\ turns \in Nat /\ wakes \in Nat /\ idles \in Nat
    /\ outputSince \in BOOLEAN /\ falseTurn \in BOOLEAN
    /\ waiting \in BOOLEAN /\ answered \in BOOLEAN
    /\ lastActivity <= clock /\ expectAt <= clock /\ inow <= clock /\ tnow <= clock
    /\ ipc = "done" \/ tpc = "done" => state = "ended"

(* session.idle is published at most once per active-to-idle window.       *)
IdleOncePerWindow == idles <= wakes + 1

(* Each arming publishes at most one session.turn_completed.               *)
TurnOncePerArming == turns <= arms

(* A watcher that decided before the run ended never revives it.           *)
EndedStays == [][state = "ended" => state' = "ended"]_vars

(* A session that falls silent is shown idle, however activity, the tick   *)
(* and the state change interleaved before.                                *)
SilenceNoticed == state = "running" ~> state \in {"idle", "ended"}

(* An armed turn with activity settles, so that the chat's indicator       *)
(* stops, unless a newer message moves the marker past that activity.      *)
TurnSettles ==
    (expectTurn /\ lastActivity >= expectAt)
      ~> (~expectTurn \/ lastActivity < expectAt \/ state = "ended")

(* While nobody is in the middle of a change, a session in which activity  *)
(* was seen after the idle window opened is not shown as idle: AnyMidTurn  *)
(* keeps the host awake for it.                                            *)
ActiveIsShown ==
    (\A a \in Actors : apc[a] \notin {"mark", "flip"}) /\ ipc \in {"wait", "done"}
      => (state = "idle" => isIdle)

(* A turn completes only after output at or after its arming.              *)
TurnNeedsOutput == ~falseTurn

(* The reply to a message the chat submitted is announced.                 *)
ReplyNoticed == (waiting /\ answered) ~> (~waiting \/ state = "ended")

-----------------------------------------------------------------------------
(***************************************************************************)
(* What idle and turn detection never does, for any actors, thresholds and *)
(* bounds: announce a window or an arming twice, or revive a run that has  *)
(* ended.                                                                  *)
(*                                                                         *)
(* Each announcement is a decision (checkIdle, checkTurnComplete) followed *)
(* some steps later by its publication; in between the watcher holds it.   *)
(* The two counting invariants add what is held to what was published, and *)
(* what is open (isIdle, expectTurn) to what ended a window or armed.      *)
(***************************************************************************)

(* A decision taken and not yet published.                                 *)
IdleHeld == IF ipc \in {"set", "publish"} THEN 1 ELSE 0
TurnHeld == IF tpc \in {"settled", "publish"} THEN 1 ELSE 0

(* Every idle window announced or about to be was ended by activity or is  *)
(* the one still open.                                                     *)
WindowsCounted == idles + IdleHeld <= wakes + (IF isIdle THEN 1 ELSE 0)

(* Every arming is announced, about to be, still open, or was given up.    *)
ArmingsCounted == turns + TurnHeld + (IF expectTurn THEN 1 ELSE 0) <= arms

(* endedCh is closed after the terminal state is set.                      *)
ClosedAfterEnd == endedCh => state = "ended"

IInv == TypeOK /\ ClosedAfterEnd /\ WindowsCounted /\ ArmingsCounted

-----------------------------------------------------------------------------
(* At first no window and no arming is counted.                            *)
LEMMA InitIInv == Init => IInv
<1> SUFFICES ASSUME Init PROVE IInv
  OBVIOUS
<1> USE TimesAssumption DEF Init
<1>1. TypeOK
  <2>1. /\ endedCh \in BOOLEAN /\ isIdle \in BOOLEAN /\ expectTurn \in BOOLEAN /\ outputSince \in BOOLEAN
        /\ falseTurn \in BOOLEAN /\ waiting \in BOOLEAN /\ answered \in BOOLEAN
    BY Zenon
  <2>2. /\ clock = 0 /\ state = "running" /\ lastActivity = 0 /\ expectAt = 0
        /\ apc = [a \in Actors |-> "ready"] /\ ipc = "wait" /\ inow = 0 /\ tpc = "wait" /\ tnow = 0
        /\ arms = 0 /\ turns = 0 /\ wakes = 0 /\ idles = 0
    OBVIOUS
  <2> HIDE DEF Init
  <2> QED
    BY <2>1, <2>2 DEF TypeOK
<1>2. isIdle = FALSE /\ expectTurn = FALSE /\ ClosedAfterEnd
  BY DEF ClosedAfterEnd
<1>3. IdleHeld = 0 /\ TurnHeld = 0
  BY DEF IdleHeld, TurnHeld
<1>4. WindowsCounted /\ ArmingsCounted
  BY <1>2, <1>3 DEF WindowsCounted, ArmingsCounted
<1> QED
  BY <1>1, <1>2, <1>4 DEF IInv

(* The types, and the order of the terminal state and endedCh.             *)
LEMMA StepTyped == IInv /\ [Next]_vars => TypeOK' /\ ClosedAfterEnd'
<1> SUFFICES ASSUME TypeOK, ClosedAfterEnd, [Next]_vars PROVE TypeOK' /\ ClosedAfterEnd'
  BY DEF IInv
<1> USE TimesAssumption DEF TypeOK, ClosedAfterEnd, watched, history
<1>1. ASSUME NEW a \in Actors, BeginActivity(a) PROVE TypeOK' /\ ClosedAfterEnd'
  BY <1>1 DEF BeginActivity, AGoto
<1>2. ASSUME NEW a \in Actors, MarkActive(a) PROVE TypeOK' /\ ClosedAfterEnd'
  <2>1. isIdle' \in BOOLEAN /\ outputSince' \in BOOLEAN /\ answered' \in BOOLEAN /\ waiting' \in BOOLEAN
    BY <1>2, Zenon DEF MarkActive
  <2>2. apc' \in [Actors -> {"ready", "mark", "flip", "expect", "arm"}]
    BY <1>2 DEF MarkActive, AGoto, AfterActivity
  <2>3. wakes' \in Nat
    BY <1>2 DEF MarkActive
  <2>4. /\ lastActivity' = clock
        /\ UNCHANGED <<clock, state, endedCh, expectTurn, expectAt, ipc, inow, tpc, tnow,
                       arms, turns, idles, falseTurn>>
    BY <1>2 DEF MarkActive
  <2> QED
    BY <2>1, <2>2, <2>3, <2>4
<1>3. ASSUME NEW a \in Actors, FlipBackToRunning(a) PROVE TypeOK' /\ ClosedAfterEnd'
  BY <1>3 DEF FlipBackToRunning, AGoto, AfterActivity
<1>4. ASSUME NEW a \in Actors, ExpectTurn(a) PROVE TypeOK' /\ ClosedAfterEnd'
  BY <1>4 DEF ExpectTurn, AGoto
<1>5. ASSUME NEW a \in Actors, Arm(a) PROVE TypeOK' /\ ClosedAfterEnd'
  <2>1. apc' \in [Actors -> {"ready", "mark", "flip", "expect", "arm"}]
    BY <1>5 DEF Arm, AGoto
  <2>2. expectTurn' \in BOOLEAN /\ waiting' \in BOOLEAN /\ outputSince' \in BOOLEAN
    BY <1>5, Zenon DEF Arm
  <2>3. /\ expectAt' = clock /\ arms' = arms + 1
        /\ UNCHANGED <<clock, state, endedCh, lastActivity, isIdle, ipc, inow, tpc, tnow,
                       turns, wakes, idles, falseTurn, answered>>
    BY <1>5 DEF Arm
  <2> QED
    BY <2>1, <2>2, <2>3
<1>6. CASE IdleTick \/ SetIdle \/ PublishIdle \/ IdleWatcherStops
  BY <1>6 DEF IdleTick, SetIdle, PublishIdle, IdleWatcherStops
<1>7. CASE CheckIdle
  BY <1>7 DEF CheckIdle
<1>8. CASE TurnTick \/ TurnSettled \/ TurnWatcherStops
  BY <1>8 DEF TurnTick, TurnSettled, TurnWatcherStops
<1>9. CASE CheckTurn
  BY <1>9 DEF CheckTurn
<1>10. CASE PublishTurn
  <2>1. waiting' \in BOOLEAN
    BY <1>10, Zenon DEF PublishTurn
  <2>2. /\ tpc' = "wait" /\ turns' = turns + 1
        /\ UNCHANGED <<clock, state, endedCh, watched, apc, ipc, inow, tnow, arms, wakes, idles,
                       outputSince, falseTurn, answered>>
    BY <1>10 DEF PublishTurn
  <2> QED
    BY <2>1, <2>2
<1>11. CASE SetTerminal
  BY <1>11 DEF SetTerminal
<1>12. CASE CloseEndedCh
  <2>1. endedCh' \in BOOLEAN
    BY <1>12, Zenon DEF CloseEndedCh
  <2>2. state = "ended" /\ UNCHANGED <<clock, state, watched, apc, ipc, inow, tpc, tnow, history>>
    BY <1>12 DEF CloseEndedCh
  <2> QED
    BY <2>1, <2>2
<1>13. CASE Tick
  BY <1>13 DEF Tick
<1>14. CASE UNCHANGED vars
  BY <1>14 DEF vars
<1> QED
  BY <1>1, <1>2, <1>3, <1>4, <1>5, <1>6, <1>7, <1>8, <1>9, <1>10, <1>11, <1>12, <1>13, <1>14
  DEF Next, ActorStep, IdleWatcher, TurnWatcher

(* Idle windows: only a first sight of silence opens one, and only         *)
(* activity ends one.                                                      *)
LEMMA StepWindows == IInv /\ [Next]_vars => WindowsCounted'
<1> SUFFICES ASSUME TypeOK, WindowsCounted, [Next]_vars PROVE WindowsCounted'
  BY DEF IInv
<1> USE DEF TypeOK, WindowsCounted, IdleHeld, watched, history
<1>1. ASSUME NEW a \in Actors, MarkActive(a) PROVE WindowsCounted'
  BY <1>1 DEF MarkActive
<1>2. ASSUME NEW a \in Actors, BeginActivity(a) \/ FlipBackToRunning(a) \/ ExpectTurn(a) \/ Arm(a)
      PROVE  WindowsCounted'
  BY <1>2 DEF BeginActivity, FlipBackToRunning, ExpectTurn, Arm
<1>3. CASE CheckIdle
  <2>1. CASE JustIdle
    <3>1. ~isIdle /\ isIdle' /\ ipc = "check" /\ ipc' = "set" /\ UNCHANGED <<idles, wakes>>
      BY <1>3, <2>1 DEF CheckIdle, JustIdle
    <3> QED
      BY <3>1
  <2>2. CASE ~JustIdle
    <3>1. isIdle' = isIdle /\ ipc = "check" /\ ipc' = "wait" /\ UNCHANGED <<idles, wakes>>
      BY <1>3, <2>2, Zenon DEF CheckIdle
    <3> QED
      BY <3>1
  <2> QED
    BY <2>1, <2>2
<1>4. CASE IdleTick \/ SetIdle \/ PublishIdle \/ IdleWatcherStops
  BY <1>4 DEF IdleTick, SetIdle, PublishIdle, IdleWatcherStops
<1>5. CASE TurnWatcher
  BY <1>5 DEF TurnWatcher, TurnTick, CheckTurn, TurnSettled, PublishTurn, TurnWatcherStops
<1>6. CASE SetTerminal \/ CloseEndedCh \/ Tick
  BY <1>6 DEF SetTerminal, CloseEndedCh, Tick
<1>7. CASE UNCHANGED vars
  BY <1>7 DEF vars
<1> QED
  BY <1>1, <1>2, <1>3, <1>4, <1>5, <1>6, <1>7 DEF Next, ActorStep, IdleWatcher

(* Armings: firing disarms, and each ExpectTurn arms once.                 *)
LEMMA StepArmings == IInv /\ [Next]_vars => ArmingsCounted'
<1> SUFFICES ASSUME TypeOK, ArmingsCounted, [Next]_vars PROVE ArmingsCounted'
  BY DEF IInv
<1> USE DEF TypeOK, ArmingsCounted, TurnHeld, watched, history
<1>1. ASSUME NEW a \in Actors, Arm(a) PROVE ArmingsCounted'
  BY <1>1 DEF Arm
<1>2. ASSUME NEW a \in Actors, BeginActivity(a) \/ MarkActive(a) \/ FlipBackToRunning(a) \/ ExpectTurn(a)
      PROVE  ArmingsCounted'
  <2>1. UNCHANGED <<turns, tpc, expectTurn, arms>>
    BY <1>2 DEF BeginActivity, MarkActive, FlipBackToRunning, ExpectTurn
  <2> QED
    BY <2>1
<1>3. CASE CheckTurn
  <2>1. CASE TurnComplete
    <3>1. expectTurn /\ ~expectTurn' /\ tpc = "check" /\ tpc' = "settled" /\ UNCHANGED <<turns, arms>>
      BY <1>3, <2>1 DEF CheckTurn, TurnComplete
    <3> QED
      BY <3>1
  <2>2. CASE ~TurnComplete
    <3>1. expectTurn' = expectTurn /\ tpc = "check" /\ tpc' = "wait" /\ UNCHANGED <<turns, arms>>
      BY <1>3, <2>2, Zenon DEF CheckTurn
    <3> QED
      BY <3>1
  <2> QED
    BY <2>1, <2>2
<1>4. CASE TurnTick \/ TurnSettled \/ PublishTurn \/ TurnWatcherStops
  BY <1>4 DEF TurnTick, TurnSettled, PublishTurn, TurnWatcherStops
<1>5. CASE IdleWatcher
  BY <1>5 DEF IdleWatcher, IdleTick, CheckIdle, SetIdle, PublishIdle, IdleWatcherStops
<1>6. CASE SetTerminal \/ CloseEndedCh \/ Tick
  BY <1>6 DEF SetTerminal, CloseEndedCh, Tick
<1>7. CASE UNCHANGED vars
  BY <1>7 DEF vars
<1> QED
  BY <1>1, <1>2, <1>3, <1>4, <1>5, <1>6, <1>7 DEF Next, ActorStep, TurnWatcher

(* The invariant holds throughout.                                         *)
LEMMA Invariance == Spec => []IInv
<1>1. IInv /\ [Next]_vars => IInv'
  BY StepTyped, StepWindows, StepArmings DEF IInv
<1> QED
  BY <1>1, InitIInv, PTL DEF Spec

-----------------------------------------------------------------------------
(* Every variable keeps its type, no time recorded is ahead of the clock,  *)
(* and a watcher returns only from a run that is over.                     *)
THEOREM TypesKept == Spec => []TypeOK
<1>1. IInv => TypeOK
  BY DEF IInv
<1> QED
  BY <1>1, Invariance, PTL

(* checkIdle and markActive: session.idle is published at most once per    *)
(* window, whatever activity comes between its decision and its event.     *)
THEOREM IdleAnnouncedOnce == Spec => []IdleOncePerWindow
<1>1. IInv => IdleOncePerWindow
  BY DEF IInv, TypeOK, WindowsCounted, IdleHeld, IdleOncePerWindow
<1> QED
  BY <1>1, Invariance, PTL

(* checkTurnComplete: a message of a chat is answered at most once.        *)
THEOREM TurnAnnouncedOnce == Spec => []TurnOncePerArming
<1>1. IInv => TurnOncePerArming
  BY DEF IInv, TypeOK, ArmingsCounted, TurnHeld, TurnOncePerArming
<1> QED
  BY <1>1, Invariance, PTL

(* idleWatcher and flipBackToRunning look at the state before they write   *)
(* it: neither revives a run that has ended.                               *)
THEOREM EndedForGood == Spec => EndedStays
<1>1. [Next]_vars => [state = "ended" => state' = "ended"]_vars
  BY DEF vars, watched, history, Next, ActorStep, IdleWatcher, TurnWatcher, BeginActivity, MarkActive,
     FlipBackToRunning, ExpectTurn, Arm, IdleTick, CheckIdle, SetIdle, PublishIdle, IdleWatcherStops,
     TurnTick, CheckTurn, TurnSettled, PublishTurn, TurnWatcherStops, SetTerminal, CloseEndedCh, Tick
<1> QED
  BY <1>1, PTL DEF Spec, EndedStays
=============================================================================
