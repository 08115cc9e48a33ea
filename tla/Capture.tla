------------------------------ MODULE Capture -------------------------------
(***************************************************************************)
(* Ambient memory capture (memory/capture: engine.go, service.go, state.go,*)
(* trigger.go, rule.go, handler.go).  A ticker looks at every session, and *)
(* when the trigger of its rule is met has a provider summarise the        *)
(* prompts behind the rule's cursor and stores the facts; an operator's    *)
(* "run now" does the same at any time.  The cursors live in memory only.  *)
(***************************************************************************)
EXTENDS Naturals, Integers, Sequences, FiniteSets, SequencesExt

CONSTANTS
    Sessions,     \* sessions of one project directory: "op", "int" (an integration's)
    Rules,        \* "all" (session_id NULL) and "own" (bound to session "op")
    Trigger,      \* trigger_kind: "after_messages", "on_idle", "k_chars", "manual"
    N,            \* its threshold
    HistoryLimit, \* DefaultHistoryLimit
    MaxPrompts,   \* bound: prompts typed
    MaxFails,     \* bound: failures of the provider, the search or the store
    MaxRestarts,  \* bound: restarts
    MaxPolicies   \* bound: changes of the integration's memory_policy

VARIABLES
    cpPrompts,    \* prompts in the project's transcripts, numbered in time
    cpEnabled,    \* enabled rules
    cpPolicy,     \* memory_policy of the integration
    cpState,      \* stateMap: rule and session to cursor, streak and pause
    cpRun,        \* cpRun[r]: the pass "tick" or "now" is in
    cpFacts,      \* stored facts, <<prompt, zone, tier>>
    cpFails, cpRestarts, cpChanges,
    cpTwice,      \* history: durable facts that were stored again
    cpSeen,       \* history: prompts a provider was given, by rule and session
    cpMissed,     \* history: a pass fired past a prompt no provider was given
    cpExcuse      \* history: passes overlapped or a search failed

vars == <<cpPrompts, cpEnabled, cpPolicy, cpState, cpRun, cpFacts, cpFails, cpRestarts, cpChanges,
          cpTwice, cpSeen, cpMissed, cpExcuse>>

Passes == {"tick", "now"}
Keys == Rules \X Sessions
Idle == [pc |-> "none", key |-> <<"", "">>, tier |-> "", batch |-> <<>>, last |-> -1, upon |-> {}, all |-> {}]
Fresh == [last |-> -1, streak |-> 0, paused |-> FALSE]

Init ==
    /\ cpPrompts = 0 /\ cpEnabled = {"all"} /\ cpPolicy = "quarantine"
    /\ cpState = [k \in Keys |-> Fresh] /\ cpRun = [r \in Passes |-> Idle] /\ cpFacts = {}
    /\ cpFails = 0 /\ cpRestarts = 0 /\ cpChanges = 0
    /\ cpTwice = {} /\ cpSeen = {} /\ cpMissed = FALSE /\ cpExcuse = FALSE

(* History: ProjectInputHistory and CodexInputHistory return the prompts   *)
(* of the whole directory, newest first, cut at the limit.                 *)
History == [i \in 1..(IF cpPrompts < HistoryLimit THEN cpPrompts ELSE HistoryLimit) |-> cpPrompts + 1 - i]

(* Resolve: the session's own rule before the global one.                  *)
Resolve(s) == IF s = "op" /\ "own" \in cpEnabled THEN {"own"} ELSE cpEnabled \intersect {"all"}

(* Mutant of Routes: a failed lookup of the policy stores as durable.      *)
RoutesFullOnError(s) ==
    IF s = "op" THEN {"durable"}
    ELSE {CASE cpPolicy = "none" -> "skip" [] cpPolicy = "full" -> "durable" [] OTHER -> "quarantine"}
         \union (IF cpFails < MaxFails THEN {"durable"} ELSE {})

(* routeForSession: the tiers it may return; a failed lookup quarantines.  *)
Routes(s) ==
    IF s = "op" THEN {"durable"}
    ELSE {CASE cpPolicy = "none" -> "skip" [] cpPolicy = "full" -> "durable" [] OTHER -> "quarantine"}
         \union (IF cpFails < MaxFails THEN {"quarantine"} ELSE {})

Zone(s) == IF s = "int" THEN "integration" ELSE "project"

(* The index into the transcript a pass starts from.                       *)
StartIdx(last, len) == IF last + 1 >= len THEN 0 ELSE last + 1

(* Evaluate of the four triggers; whether the session idles is not kept.   *)
Evaluate(last, len) ==
    CASE Trigger = "after_messages" -> len - last - 1 >= N
      [] Trigger = "on_idle"        -> len - last - 1 > 0
      [] Trigger = "k_chars"        -> len - StartIdx(last, len) >= N
      [] OTHER                      -> FALSE

(* Mutant of Gate: the pause of a failing rule is not looked at.           *)
GateUnpaused(r, k, len) == r = "now" \/ Evaluate(cpState[k].last, len)

(* What lets a pass go on: run-now skips the pause and the trigger.        *)
Gate(r, k, len) == r = "now" \/ (~cpState[k].paused /\ Evaluate(cpState[k].last, len))

(* runForSessionWithForce up to the provider call, for a session of tick   *)
(* or of RunRuleNow (whose rule the operator names).                       *)
Begin(r, s) ==
    /\ cpRun[r].pc = "none" /\ cpPrompts > 0
    /\ \E rule \in (IF r = "tick" THEN Resolve(s) ELSE {u \in cpEnabled : u = "own" => s = "op"}) :
       \E tier \in Routes(s) \ {"skip"} :
          LET k == <<rule, s>>  len == Len(History)  st == cpState[k] IN
          /\ Gate(r, k, len)
          /\ cpRun' = [cpRun EXCEPT ![r] =
                [pc |-> "call", key |-> k, tier |-> tier, last |-> len - 1, upon |-> {cpPolicy},
                 batch |-> SubSeq(History, StartIdx(st.last, len) + 1, len), all |-> ToSet(History)]]
    /\ cpExcuse' = (cpExcuse \/ \E q \in Passes \ {r} : cpRun[q].pc # "none")
    /\ UNCHANGED <<cpPrompts, cpEnabled, cpPolicy, cpState, cpFacts, cpFails, cpRestarts, cpChanges, cpTwice, cpSeen, cpMissed>>

(* The provider answers with the facts of the batch ...                    *)
Summarize(r) ==
    /\ cpRun[r].pc = "call" /\ cpRun' = [cpRun EXCEPT ![r].pc = "store"]
    /\ cpSeen' = cpSeen \union {<<cpRun[r].key, p>> : p \in ToSet(cpRun[r].batch)}
    /\ UNCHANGED <<cpPrompts, cpEnabled, cpPolicy, cpState, cpFacts, cpFails, cpRestarts, cpChanges, cpTwice, cpMissed, cpExcuse>>

(* ... or is missing or fails: the cursor stays, and the third failure in  *)
(* a row pauses the rule for an hour.                                      *)
MarkFailure(k) ==
    cpState' = [cpState EXCEPT ![k].streak = @ + 1, ![k].paused = @ \/ cpState[k].streak + 1 >= 3]
SummarizeFails(r) ==
    /\ cpRun[r].pc = "call" /\ cpFails < MaxFails /\ cpFails' = cpFails + 1
    /\ MarkFailure(cpRun[r].key) /\ cpRun' = [cpRun EXCEPT ![r] = Idle]
    /\ UNCHANGED <<cpPrompts, cpEnabled, cpPolicy, cpFacts, cpRestarts, cpChanges, cpTwice, cpSeen, cpMissed, cpExcuse>>

(* Mutant of Known: stored facts are not searched.                         *)
KnownNever(zone, p) == FALSE

(* isDuplicate: Search sees the durable tier only.                         *)
Known(zone, p) == \E f \in cpFacts : f[1] = p /\ f[2] = zone /\ f[3] = "durable"

(* One fact: searched for, then stored; either may fail, which loses the   *)
(* guard or the fact.                                                      *)
Store(f) ==
    /\ cpFacts' = cpFacts \union {f}
    /\ cpTwice' = IF f \in cpFacts /\ f[3] = "durable" THEN cpTwice \union {f} ELSE cpTwice
StoreFact(r) ==
    LET b == cpRun[r]  f == <<Head(b.batch), Zone(b.key[2]), b.tier>> IN
    /\ b.pc = "store" /\ b.batch # <<>>
    /\ cpRun' = [cpRun EXCEPT ![r].batch = Tail(@)]
    /\ \/ /\ IF Known(f[2], f[1]) THEN UNCHANGED <<cpFacts, cpTwice>> ELSE Store(f)
          /\ UNCHANGED <<cpFails, cpExcuse>>
       \/ /\ cpFails < MaxFails /\ cpFails' = cpFails + 1
          /\ \/ Store(f) /\ cpExcuse' = TRUE
             \/ UNCHANGED <<cpFacts, cpTwice, cpExcuse>>
    /\ UNCHANGED <<cpPrompts, cpEnabled, cpPolicy, cpState, cpRestarts, cpChanges, cpSeen, cpMissed>>

(* Mutant of MarkFired: the cursor counts prompts instead of an index.     *)
MarkFiredPastEnd(r) ==
    LET b == cpRun[r] IN
    /\ b.pc = "store" /\ b.batch = <<>>
    /\ cpState' = [cpState EXCEPT ![b.key] = [Fresh EXCEPT !.last = b.last + 1]]
    /\ cpRun' = [cpRun EXCEPT ![r] = Idle] /\ UNCHANGED cpMissed
    /\ UNCHANGED <<cpPrompts, cpEnabled, cpPolicy, cpFacts, cpFails, cpRestarts, cpChanges, cpTwice, cpSeen, cpExcuse>>

(* MarkFired: the cursor goes to the end of the transcript read before.    *)
MarkFired(r) ==
    LET b == cpRun[r] IN
    /\ b.pc = "store" /\ b.batch = <<>>
    /\ cpState' = [cpState EXCEPT ![b.key] = [Fresh EXCEPT !.last = b.last]]
    /\ cpRun' = [cpRun EXCEPT ![r] = Idle] /\ cpMissed' = (cpMissed \/ \E p \in b.all : <<b.key, p>> \notin cpSeen)
    /\ UNCHANGED <<cpPrompts, cpEnabled, cpPolicy, cpFacts, cpFails, cpRestarts, cpChanges, cpTwice, cpSeen, cpExcuse>>

(* Mutant of PauseOver: the pause of a rule has no end.                    *)
PauseWithoutEnd(k) == FALSE /\ UNCHANGED vars

(* PauseUntil passes.                                                      *)
PauseOver(k) ==
    /\ cpState[k].paused /\ cpState' = [cpState EXCEPT ![k].paused = FALSE]
    /\ UNCHANGED <<cpPrompts, cpEnabled, cpPolicy, cpRun, cpFacts, cpFails, cpRestarts, cpChanges, cpTwice, cpSeen, cpMissed, cpExcuse>>

Prompt ==
    /\ cpPrompts < MaxPrompts /\ cpPrompts' = cpPrompts + 1
    /\ UNCHANGED <<cpEnabled, cpPolicy, cpState, cpRun, cpFacts, cpFails, cpRestarts, cpChanges, cpTwice, cpSeen, cpMissed, cpExcuse>>

(* The rule handlers: a rule is created or switched on, switched off or    *)
(* deleted; a session's own rule has cursors of its own.                   *)
EnableRule(u) ==
    /\ cpChanges < MaxPolicies /\ cpChanges' = cpChanges + 1 /\ u \notin cpEnabled /\ cpEnabled' = cpEnabled \union {u}
    /\ UNCHANGED <<cpPrompts, cpPolicy, cpState, cpRun, cpFacts, cpFails, cpRestarts, cpTwice, cpSeen, cpMissed, cpExcuse>>

DisableRule(u) ==
    /\ cpChanges < MaxPolicies /\ cpChanges' = cpChanges + 1 /\ u \in cpEnabled /\ cpEnabled' = cpEnabled \ {u}
    /\ UNCHANGED <<cpPrompts, cpPolicy, cpState, cpRun, cpFacts, cpFails, cpRestarts, cpTwice, cpSeen, cpMissed, cpExcuse>>

ChangePolicy(p) ==
    /\ cpChanges < MaxPolicies /\ cpChanges' = cpChanges + 1 /\ p # cpPolicy /\ cpPolicy' = p
    /\ cpRun' = [r \in Passes |-> [cpRun[r] EXCEPT !.upon = IF cpRun[r].pc = "none" THEN {} ELSE @ \union {p}]]
    /\ UNCHANGED <<cpPrompts, cpEnabled, cpState, cpFacts, cpFails, cpRestarts, cpTwice, cpSeen, cpMissed, cpExcuse>>

Restart ==
    /\ cpRestarts < MaxRestarts /\ cpRestarts' = cpRestarts + 1
    /\ cpState' = [k \in Keys |-> Fresh] /\ cpRun' = [r \in Passes |-> Idle]
    /\ UNCHANGED <<cpPrompts, cpEnabled, cpPolicy, cpFacts, cpFails, cpChanges, cpTwice, cpSeen, cpMissed, cpExcuse>>

Pass(r) == Summarize(r) \/ StoreFact(r) \/ MarkFired(r)

Next ==
    \/ \E r \in Passes : Pass(r) \/ SummarizeFails(r) \/ \E s \in Sessions : Begin(r, s)
    \/ \E k \in Keys : PauseOver(k)
    \/ Prompt \/ Restart
    \/ \E u \in Rules : EnableRule(u) \/ DisableRule(u)
    \/ \E p \in {"none", "quarantine", "full"} : ChangePolicy(p)

(* The engine's goroutine ticks on; the hour passes.                       *)
Fairness ==
    /\ \A r \in Passes : WF_vars(Pass(r) \/ SummarizeFails(r))
    /\ \A s \in Sessions : SF_vars(Begin("tick", s))
    /\ \A k \in Keys : WF_vars(PauseOver(k))

Spec == Init /\ [][Next]_vars /\ Fairness

TypeOK ==
    /\ cpPrompts \in 0..MaxPrompts /\ cpEnabled \subseteq Rules /\ cpPolicy \in {"none", "quarantine", "full"}
    /\ \A k \in Keys : cpState[k].last \in -1..(HistoryLimit - 1) /\ cpState[k].streak \in 0..MaxFails
    /\ cpFacts \subseteq ((1..MaxPrompts) \X {"project", "integration"} \X {"durable", "quarantine"})

(* A fact is in the durable tier of a zone once, whatever was restarted or *)
(* summarised again through another rule, unless two passes overlapped or  *)
(* the search failed.                                                      *)
StoredOnce == cpExcuse \/ cpTwice = {}

(* What one step may do, for PolicyKept.                                   *)
PolicyKeptStep ==
    \A r \in Passes, f \in cpFacts' \ cpFacts :
        (cpRun'[r] # cpRun[r] /\ cpRun[r].key[2] = "int" /\ f[3] = "durable") => "full" \in cpRun[r].upon

(* What an integration's session says becomes durable only under a policy  *)
(* of "full" that was in force at some time of the pass, although the      *)
(* lookup may fail and the policy may change under way.                    *)
PolicyKept == [][PolicyKeptStep]_vars

(* What one step may do, for TickBacksOff.                                 *)
TickBacksOffStep ==
    (cpRun["tick"].pc = "none" /\ cpRun'["tick"].pc = "call") =>
        LET st == cpState[cpRun'["tick"].key] IN st.streak < 3 \/ ~st.paused

(* The ticker does not call the provider of a rule that failed three times *)
(* in a row before the hour is over.                                       *)
TickBacksOff == [][TickBacksOffStep]_vars

(* A rule whose provider failed is tried again until it succeeds: neither  *)
(* the streak nor the pause lets go of the prompts (unless a restart or    *)
(* the operator takes the rule out of use).                                *)
FailureRetried ==
    \A k \in Keys :
       (cpState[k].streak > 0 /\ Evaluate(cpState[k].last, Len(History)))
          ~> (cpState[k].streak = 0 \/ Resolve(k[2]) # {k[1]} \/ (k[2] = "int" /\ cpPolicy = "none"))

(* What the comments promise: a pass that fires has given the provider     *)
(* every prompt of the transcript it read, then or before.                 *)
NoneSkipped == ~cpMissed
=============================================================================
