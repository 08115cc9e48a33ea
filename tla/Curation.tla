------------------------------ MODULE Curation ------------------------------
(***************************************************************************)
(* The conversations in which the operator and an AI maintain one page     *)
(* (cortex/conversation.go, conversation_worker.go, conversation_rules.go, *)
(* conversation_handler.go).  Every message starts a turn of its own in    *)
(* the background; a turn reads the page and the thread, asks a model, and *)
(* writes the page or files a proposal.  The page is the sequence of its   *)
(* parts, a part being named by the turn or the save that wrote it; the    *)
(* model returns the whole page, as far as it was shown to it, with a part *)
(* added.  The rules of the page are a set of excluded subjects, each      *)
(* named by the message that suggests it.                                  *)
(***************************************************************************)
EXTENDS Naturals, Sequences, FiniteSets, SequencesExt

CONSTANTS
    Kinds,        \* targets: "kb_page", "doc_section", "blueprint"
    Turns,        \* 1..n: operator messages
    Saves,        \* numbers of the operator's own saves, none a turn's
    Appliers,     \* concurrent "apply" clicks
    Escalators,   \* concurrent "escalate" clicks
    MessageLimit, \* messages a prompt holds (40)
    DocCap,       \* parts of the page a prompt holds (24000 bytes)
    MaxPins,      \* bound: provider pins
    MaxAdmin,     \* bound: mode switches, dialog saves and closes
    MaxFails      \* bound: database and model failures

VARIABLES
    cuKind,
    cuDoc,        \* the page: [parts, human]: human when updated_by locks it
    cuMode,       \* maintainer_mode: "ai" or "human"
    cuProposals,  \* pages proposed
    cuStatus,     \* "open", "closed" or "escalated"
    cuSession,    \* escalated_session_id, 0 when none
    cuLaunched,   \* sessions launched
    cuMsgs,       \* the thread: [role, turn, rule]
    cuTurn,       \* turn -> [pc, pin, least, own, sees, base, wrote, newer, late]
    cuPin,        \* the pinned provider
    cuRules,      \* subjects excluded from the page, 0 the operator's own
    cuApply,      \* applier -> [pc, msg, rules]
    cuEsc,        \* escalator -> "idle", "launch" or "mark"
    cuAdmin, cuFails,
    cuLost,       \* history: suggestions dropped by a dialog save or an overlapping apply
    cuTwice       \* history: escalations that overlapped, or a close between them

vars == <<cuKind, cuDoc, cuMode, cuProposals, cuStatus, cuSession, cuLaunched, cuMsgs, cuTurn, cuPin, cuRules, cuApply, cuEsc,
          cuAdmin, cuFails, cuLost, cuTwice>>
talk == <<cuStatus, cuSession, cuLaunched, cuEsc, cuTwice>>
rules == <<cuRules, cuApply, cuLost>>

Fresh == [pc |-> "idle", pin |-> 0, least |-> 0, own |-> 0, sees |-> 0, base |-> <<>>, wrote |-> "", newer |-> {}, late |-> FALSE]
Message(role, t, rule) == [role |-> role, turn |-> t, rule |-> rule]
Writable == cuKind \in {"kb_page", "doc_section"}

Init ==
    /\ cuKind \in Kinds /\ cuDoc = [parts |-> <<>>, human |-> FALSE] /\ cuMode = "ai" /\ cuProposals = 0
    /\ cuStatus = "open" /\ cuSession = 0 /\ cuLaunched = 0 /\ cuMsgs = <<>> /\ cuTurn = [t \in Turns |-> Fresh]
    /\ cuPin = 0 /\ cuRules = {0} /\ cuApply = [a \in Appliers |-> [pc |-> "idle", msg |-> 0, rules |-> {}]]
    /\ cuEsc = [e \in Escalators |-> "idle"] /\ cuAdmin = 0 /\ cuFails = 0 /\ cuLost = {} /\ cuTwice = FALSE

(* Send: reads the conversation, ...                                       *)
SendReads(t) ==
    /\ cuTurn[t].pc = "idle" /\ cuStatus # "closed" /\ \A u \in Turns : u < t => cuTurn[u].pc # "idle"
    /\ cuTurn' = [cuTurn EXCEPT ![t].pc = "send", ![t].pin = cuPin]
    /\ UNCHANGED <<cuKind, cuDoc, cuMode, cuProposals, talk, cuMsgs, cuPin, rules, cuAdmin, cuFails>>

(* Mutant of SendAppends: the turn starts before the message is stored.    *)
SendAppendsLate(t) ==
    /\ cuTurn[t].pc \in {"send", "msgs"} /\ cuTurn[t].own = 0
    /\ cuTurn' = [cuTurn EXCEPT ![t].pc = IF @ = "send" THEN "load" ELSE @, ![t].least = cuPin, ![t].own = Len(cuMsgs) + 1]
    /\ cuMsgs' = IF cuTurn[t].pc = "send" THEN cuMsgs ELSE Append(cuMsgs, Message("operator", t, "none"))
    /\ UNCHANGED <<cuKind, cuDoc, cuMode, cuProposals, talk, cuPin, rules, cuAdmin, cuFails>>

(* ... and stores the message; the turn runs on in the background.         *)
SendAppends(t) ==
    /\ cuTurn[t].pc = "send" /\ cuMsgs' = Append(cuMsgs, Message("operator", t, "none"))
    /\ cuTurn' = [cuTurn EXCEPT ![t].pc = "load", ![t].least = cuPin, ![t].own = Len(cuMsgs) + 1]
    /\ UNCHANGED <<cuKind, cuDoc, cuMode, cuProposals, talk, cuPin, rules, cuAdmin, cuFails>>

(* fail: a system message says so, unless that cannot be stored either.    *)
Fails(t) ==
    /\ cuFails < MaxFails
    /\ \/ cuFails' = cuFails + 1 /\ cuMsgs' = Append(cuMsgs, Message("system", t, "none"))
       \/ cuFails + 1 < MaxFails /\ cuFails' = cuFails + 2 /\ UNCHANGED cuMsgs
    /\ cuTurn' = [cuTurn EXCEPT ![t].pc = "done"]
    /\ UNCHANGED <<cuKind, cuDoc, cuMode, cuProposals, talk, cuPin, rules, cuAdmin>>

(* Mutant of PinFor: the turn runs on what Send had read.                  *)
PinForSnapshot(t) == cuTurn[t].pin
(* runAITurn reads the conversation again.                                 *)
PinFor(t) == cuPin
Load(t) ==
    /\ cuTurn[t].pc = "load" /\ cuTurn' = [cuTurn EXCEPT ![t].pc = "doc", ![t].pin = PinFor(t)]
    /\ UNCHANGED <<cuKind, cuDoc, cuMode, cuProposals, talk, cuMsgs, cuPin, rules, cuAdmin, cuFails>>

Shown(parts) == SubSeq(parts, 1, IF Len(parts) < DocCap THEN Len(parts) ELSE DocCap)

(* Mutant of AssembleDoc: a page that cannot be read counts as empty.      *)
AssembleDocBlank(t) ==
    /\ cuTurn[t].pc = "doc"
    /\ \/ /\ cuTurn' = [cuTurn EXCEPT ![t].pc = "msgs", ![t].base = Shown(cuDoc.parts)] /\ UNCHANGED cuFails
       \/ /\ cuFails < MaxFails /\ cuFails' = cuFails + 1 /\ cuTurn' = [cuTurn EXCEPT ![t].pc = "msgs", ![t].base = <<>>]
    /\ UNCHANGED <<cuKind, cuDoc, cuMode, cuProposals, talk, cuMsgs, cuPin, rules, cuAdmin>>

(* assemblePrompt: the page up to the cap, ...                             *)
AssembleDoc(t) ==
    /\ cuTurn[t].pc = "doc"
    /\ \/ /\ cuTurn' = [cuTurn EXCEPT ![t].pc = "msgs", ![t].base = Shown(cuDoc.parts)]
          /\ UNCHANGED <<cuKind, cuDoc, cuMode, cuProposals, talk, cuMsgs, cuPin, rules, cuAdmin, cuFails>>
       \/ Fails(t)
(* ... and the first messages of the thread.                               *)
AssembleMessages(t) ==
    /\ cuTurn[t].pc = "msgs"
    /\ cuTurn' = [cuTurn EXCEPT ![t].pc = "llm", ![t].sees = IF Len(cuMsgs) < MessageLimit THEN Len(cuMsgs) ELSE MessageLimit]
    /\ UNCHANGED <<cuKind, cuDoc, cuMode, cuProposals, talk, cuMsgs, cuPin, rules, cuAdmin, cuFails>>

(* Mutant of Answer: a failed answer ends the goroutine without a word.    *)
AnswerHangs(t) ==
    /\ cuTurn[t].pc = "llm"
    /\ \E pc \in {"check", "lost"} : cuTurn' = [cuTurn EXCEPT ![t].pc = pc]
    /\ UNCHANGED <<cuKind, cuDoc, cuMode, cuProposals, talk, cuMsgs, cuPin, rules, cuAdmin, cuFails>>

(* The worker answers: with a new page or without, or fails.               *)
Answer(t) ==
    /\ cuTurn[t].pc = "llm"
    /\ \/ /\ \E pc \in {"check", "append"} : cuTurn' = [cuTurn EXCEPT ![t].pc = IF Writable THEN pc ELSE "append"]
          /\ UNCHANGED <<cuKind, cuDoc, cuMode, cuProposals, talk, cuMsgs, cuPin, rules, cuAdmin, cuFails>>
       \/ Fails(t)

(* Mutant of Claimed: only the lock is looked at.                          *)
ClaimedLockOnly == cuDoc.human
(* applyRevision: the page is the operator's when an operator or an        *)
(* approval wrote it last, a section also when its mode says so.           *)
Claimed == cuDoc.human \/ (cuKind = "doc_section" /\ cuMode = "human")

RevisionChecks(t) ==
    /\ cuTurn[t].pc = "check"
    /\ cuTurn' = [cuTurn EXCEPT ![t].pc = IF Claimed THEN "propose" ELSE "put"]
    /\ UNCHANGED <<cuKind, cuDoc, cuMode, cuProposals, talk, cuMsgs, cuPin, rules, cuAdmin, cuFails>>
RevisionProposes(t) ==
    /\ cuTurn[t].pc = "propose"
    /\ \/ /\ cuProposals' = cuProposals + 1 /\ cuTurn' = [cuTurn EXCEPT ![t].pc = "append", ![t].wrote = "proposed"]
          /\ UNCHANGED <<cuKind, cuDoc, cuMode, talk, cuMsgs, cuPin, rules, cuAdmin, cuFails>>
       \/ Fails(t)
(* PutDoc.  (newer and late are history: what the turns under way have not *)
(* seen.)                                                                  *)
Written(x) == [u \in Turns |-> [cuTurn[u] EXCEPT !.newer = IF cuTurn[u].pc \in {"msgs", "llm", "check", "put"} THEN @ \union {x} ELSE @]]
RevisionPuts(t) ==
    /\ cuTurn[t].pc = "put"
    /\ \/ /\ cuDoc' = [parts |-> Append(cuTurn[t].base, t), human |-> FALSE]
          /\ cuTurn' = [Written(t) EXCEPT ![t].pc = "append", ![t].wrote = "applied"]
          /\ UNCHANGED <<cuKind, cuMode, cuProposals, talk, cuMsgs, cuPin, rules, cuAdmin, cuFails>>
       \/ Fails(t)

(* The AI's message, with a rule suggestion where the target has rules;    *)
(* when it cannot be stored the turn ends without a word.                  *)
Reply(t) ==
    /\ cuTurn[t].pc = "append" /\ cuTurn' = [cuTurn EXCEPT ![t].pc = "done"]
    /\ \/ /\ \E r \in {"none"} \union (IF Writable THEN {"pending"} ELSE {}) : cuMsgs' = Append(cuMsgs, Message("ai", t, r))
          /\ UNCHANGED cuFails
       \/ cuFails < MaxFails /\ cuFails' = cuFails + 1 /\ UNCHANGED cuMsgs
    /\ UNCHANGED <<cuKind, cuDoc, cuMode, cuProposals, talk, cuPin, rules, cuAdmin>>

(* ApplyRuleSuggestion: reads the message and the section, ...             *)
ApplyReads(a, m) ==
    /\ cuApply[a].pc = "idle" /\ m \in 1..Len(cuMsgs) /\ cuMsgs[m].rule = "pending"
    /\ cuApply' = [cuApply EXCEPT ![a] = [pc |-> "put", msg |-> m, rules |-> cuRules]]
    /\ UNCHANGED <<cuKind, cuDoc, cuMode, cuProposals, talk, cuMsgs, cuTurn, cuPin, cuRules, cuLost, cuAdmin, cuFails>>
(* Mutant of mergeRuleSuggestion: the additions replace the list.          *)
mergeRuleSuggestionReplaces(sec, m) == {m}
mergeRuleSuggestion(sec, m) == sec \union {m}
(* ... writes the section back whole, ...                                  *)
ApplyPuts(a) ==
    /\ cuApply[a].pc = "put" /\ cuApply' = [cuApply EXCEPT ![a].pc = "mark"]
    /\ cuRules' = mergeRuleSuggestion(cuApply[a].rules, cuApply[a].msg)
    /\ cuLost' = cuLost \union (cuRules \ cuApply[a].rules)
    /\ UNCHANGED <<cuKind, cuDoc, cuMode, cuProposals, talk, cuMsgs, cuTurn, cuPin, cuAdmin, cuFails>>
(* Mutant of Pending: the stamp is not conditional.                        *)
PendingAlways(m) == TRUE
Pending(m) == cuMsgs[m].rule = "pending"
(* ... and stamps the suggestion, which only a pending one takes; the      *)
(* thread then says so.                                                    *)
ApplyMarks(a) ==
    LET m == cuApply[a].msg IN
    /\ cuApply[a].pc = "mark" /\ cuApply' = [cuApply EXCEPT ![a].pc = "idle"]
    /\ cuMsgs' = IF Pending(m) THEN Append([cuMsgs EXCEPT ![m].rule = "applied"], Message("applied", m, "none")) ELSE cuMsgs
    /\ UNCHANGED <<cuKind, cuDoc, cuMode, cuProposals, talk, cuTurn, cuPin, cuRules, cuLost, cuAdmin, cuFails>>

(* The operator: saves the page, pins a provider, switches the mode, drops *)
(* a rule in the dialog, closes the conversation.                          *)
Save(s) ==
    /\ s \notin UNION {{cuDoc.parts[i] : i \in 1..Len(cuDoc.parts)}, UNION {cuTurn[t].newer : t \in Turns}}
    /\ cuDoc' = [parts |-> Append(cuDoc.parts, s), human |-> TRUE]
    /\ cuTurn' = [t \in Turns |-> [Written(s)[t] EXCEPT !.late = @ \/ cuTurn[t].pc = "put"]]
    /\ UNCHANGED <<cuKind, cuMode, cuProposals, talk, cuMsgs, cuPin, rules, cuAdmin, cuFails>>
SetProvider ==
    /\ cuPin < MaxPins /\ cuPin' = cuPin + 1
    /\ UNCHANGED <<cuKind, cuDoc, cuMode, cuProposals, talk, cuMsgs, cuTurn, rules, cuAdmin, cuFails>>
SetMode ==
    /\ cuAdmin < MaxAdmin /\ cuAdmin' = cuAdmin + 1 /\ cuMode' = IF cuMode = "ai" THEN "human" ELSE "ai"
    /\ cuTurn' = [t \in Turns |-> [cuTurn[t] EXCEPT !.late = @ \/ cuTurn[t].pc = "put"]]
    /\ UNCHANGED <<cuKind, cuDoc, cuProposals, talk, cuMsgs, cuPin, rules, cuFails>>
DropRule(m) ==
    /\ cuAdmin < MaxAdmin /\ cuAdmin' = cuAdmin + 1 /\ m \in cuRules /\ cuRules' = cuRules \ {m} /\ cuLost' = cuLost \union {m}
    /\ UNCHANGED <<cuKind, cuDoc, cuMode, cuProposals, talk, cuMsgs, cuTurn, cuPin, cuApply, cuFails>>
CloseConversation ==
    /\ cuAdmin < MaxAdmin /\ cuAdmin' = cuAdmin + 1 /\ cuStatus # "closed" /\ cuStatus' = "closed"
    /\ cuTwice' = (cuTwice \/ cuLaunched > 0 \/ \E e \in Escalators : cuEsc[e] # "idle")
    /\ UNCHANGED <<cuKind, cuDoc, cuMode, cuProposals, cuSession, cuLaunched, cuMsgs, cuTurn, cuPin, rules, cuEsc, cuFails>>

(* Mutant of Escalated: the earlier escalation is not looked up.           *)
EscalatedNot == FALSE
Escalated == cuStatus = "escalated" /\ cuSession # 0
(* Escalate: unless it is escalated already, a session is launched, ...    *)
EscalateReads(e) ==
    /\ cuEsc[e] = "idle" /\ ~Escalated /\ cuLaunched < 2 /\ cuEsc' = [cuEsc EXCEPT ![e] = "launch"]
    /\ cuTwice' = (cuTwice \/ \E f \in Escalators : cuEsc[f] # "idle")
    /\ UNCHANGED <<cuKind, cuDoc, cuMode, cuProposals, cuStatus, cuSession, cuLaunched, cuMsgs, cuTurn, cuPin, rules, cuAdmin, cuFails>>
EscalateLaunches(e) ==
    /\ cuEsc[e] = "launch"
    /\ \/ cuLaunched' = cuLaunched + 1 /\ cuEsc' = [cuEsc EXCEPT ![e] = "mark"] /\ UNCHANGED cuFails
       \/ cuFails < MaxFails /\ cuFails' = cuFails + 1 /\ cuEsc' = [cuEsc EXCEPT ![e] = "idle"] /\ UNCHANGED cuLaunched
    /\ UNCHANGED <<cuKind, cuDoc, cuMode, cuProposals, cuStatus, cuSession, cuMsgs, cuTurn, cuPin, rules, cuAdmin, cuTwice>>
(* ... recorded, and the thread says so.                                   *)
EscalateMarks(e) ==
    /\ cuEsc[e] = "mark" /\ cuEsc' = [cuEsc EXCEPT ![e] = "idle"]
    /\ \/ /\ cuStatus' = "escalated" /\ cuSession' = cuLaunched /\ cuMsgs' = Append(cuMsgs, Message("system", 0, "none"))
          /\ UNCHANGED <<cuFails, cuTwice>>
       \/ cuFails < MaxFails /\ cuFails' = cuFails + 1 /\ cuTwice' = TRUE /\ UNCHANGED <<cuStatus, cuSession, cuMsgs>>
    /\ UNCHANGED <<cuKind, cuDoc, cuMode, cuProposals, cuLaunched, cuTurn, cuPin, rules, cuAdmin>>

TurnStep(t) ==
    SendAppends(t) \/ Load(t) \/ AssembleDoc(t) \/ AssembleMessages(t) \/ Answer(t) \/ RevisionChecks(t) \/ RevisionProposes(t)
    \/ RevisionPuts(t) \/ Reply(t)

Next ==
    \/ \E t \in Turns : SendReads(t) \/ TurnStep(t)
    \/ \E a \in Appliers : (\E m \in 1..Len(cuMsgs) : ApplyReads(a, m)) \/ ApplyPuts(a) \/ ApplyMarks(a)
    \/ \E s \in Saves : Save(s)
    \/ SetProvider \/ SetMode \/ (\E m \in cuRules : DropRule(m)) \/ CloseConversation
    \/ \E e \in Escalators : EscalateReads(e) \/ EscalateLaunches(e) \/ EscalateMarks(e)

Spec == Init /\ [][Next]_vars
FairSpec == Spec /\ \A t \in Turns : WF_vars(TurnStep(t))

TypeOK ==
    /\ cuStatus \in {"open", "closed", "escalated"} /\ cuMode \in {"ai", "human"}
    /\ \A t \in Turns : cuTurn[t].pc \in {"idle", "send", "load", "doc", "msgs", "llm", "check", "propose", "put", "append", "done"}
    /\ \A i \in 1..Len(cuMsgs) : cuMsgs[i].role \in {"operator", "ai", "system", "applied"}

(* A turn runs on a provider pinned no earlier than its message was        *)
(* stored ("a provider/model override the operator pinned just before      *)
(* sending is always honoured").                                           *)
PinHonoured == \A t \in Turns : cuTurn[t].pc = "llm" => cuTurn[t].pin >= cuTurn[t].least

(* The model is shown the message it answers, while the thread fits the    *)
(* prompt.                                                                 *)
AskedIsHeard == \A t \in Turns : cuTurn[t].pc = "llm" /\ cuTurn[t].own <= MessageLimit => cuTurn[t].own <= cuTurn[t].sees

(* What one step may do, for ClaimRespected.                               *)
ClaimRespectedStep ==
    \A t \in Turns : cuTurn[t].wrote = "" /\ cuTurn'[t].wrote = "applied" /\ ~cuTurn[t].late
       => ~cuDoc.human /\ (cuKind = "doc_section" => cuMode = "ai")

(* A turn never replaces a page the operator had claimed, by writing it or *)
(* by its mode, before the turn looked.                                    *)
ClaimRespected == [][ClaimRespectedStep]_vars

(* What one step may do, for ShownIsKept.                                  *)
ShownIsKeptStep ==
    \A t \in Turns : cuTurn[t].wrote = "" /\ cuTurn'[t].wrote = "applied"
       => \A i \in 1..Len(cuDoc.parts) : cuDoc.parts[i] \in ToSet(cuDoc'.parts) \/ i > DocCap \/ cuDoc.parts[i] \in cuTurn[t].newer

(* A turn drops no part of the page it was shown: what it drops lay beyond *)
(* the cap or was written after it read.                                   *)
ShownIsKept == [][ShownIsKeptStep]_vars

(* A suggestion is recorded as applied once, however often and from        *)
(* wherever the operator clicks.                                           *)
AppliedOnce == \A m \in 1..Len(cuMsgs) : Cardinality({i \in 1..Len(cuMsgs) : cuMsgs[i].role = "applied" /\ cuMsgs[i].turn = m}) <= 1

(* The operator's own rule and every suggestion recorded as applied are in *)
(* force, unless the operator dropped one or wrote the rules while another *)
(* was applied.                                                            *)
AppliedInForce == {0} \union {m \in 1..Len(cuMsgs) : cuMsgs[m].rule = "applied"} \subseteq cuRules \union cuLost

(* A conversation is escalated to one session, unless two escalations      *)
(* overlapped, the record failed or the conversation was closed between.   *)
OneEscalation == cuLaunched > 1 => cuTwice

(* A message the operator sends is answered, by the AI or by a line that   *)
(* says what failed.                                                       *)
TurnEnds == \A t \in Turns : cuTurn[t].pc = "send" ~> cuTurn[t].pc = "done"

(* conversation_worker.go:387: "the new operator message is already        *)
(* stored": the model sees it.                                             *)
QuestionIsSeen == \A t \in Turns : cuTurn[t].pc = "llm" => cuTurn[t].own <= cuTurn[t].sees

(* conversation_worker.go:179: "Every failure path appends a system        *)
(* message so the operator is never staring at a silently dead             *)
(* conversation" (one failure).                                            *)
NeverSilent == \A t \in Turns : cuTurn[t].pc = "done" => \E i \in 1..Len(cuMsgs) : cuMsgs[i].turn = t /\ cuMsgs[i].role \in {"ai", "system"}
=============================================================================
