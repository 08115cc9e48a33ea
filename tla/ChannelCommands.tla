--------------------------- MODULE ChannelCommands ---------------------------
(***************************************************************************)
(* What a chat can make the gateway do: the gate on senders, slash         *)
(* commands, buttons on cards and the docked control keyboard              *)
(* (channel/command.go, controls.go, chatconfig.go, the command half of    *)
(* hub.go and app/channel_commands.go).  Sessions come and go meanwhile, a *)
(* card stays on the screen and its buttons may be tapped at any time.     *)
(***************************************************************************)
EXTENDS Naturals, Sequences, SequencesExt

CONSTANTS Sessions, ListMax, None

VARIABLES
    ccSess,       \* ccSess[s]: "live", "ended" or "gone" (no row)
    ccRecent,     \* the sessions, most recently started or ended first
    ccPin,        \* Hub.activeSess of the chat
    ccLast,       \* Hub.lastSess of the chat
    ccCard,       \* the buttons of the card on the screen
    ccOwner,      \* owner_user_ids names somebody
    ccDid         \* history: the last inbound message and its effect

vars == <<ccSess, ccRecent, ccPin, ccLast, ccCard, ccOwner, ccDid>>

Live(s) == ccSess[s] = "live"
Nothing == [by |-> "nobody", via |-> "none", shown |-> None, effect |-> "none", on |-> None]

Init ==
    /\ ccSess = [s \in Sessions |-> "live"] /\ ccRecent \in SetToSeqs(Sessions)
    /\ ccPin = None /\ ccLast = None /\ ccCard = {} /\ ccOwner \in BOOLEAN /\ ccDid = Nothing

(* A button carries its command; shown is the session its label names.     *)
Button(cmd, s, shown) == [cmd |-> cmd, arg |-> s, shown |-> shown]

(* The keyboard docked under the chat: labels mapped to commands; the      *)
(* destructive ones go through /confirm.  Mutant: they act at once.        *)
LayoutActsAtOnce(label) ==
    CASE label = "stop" -> "end" [] label = "restart" -> "resume" [] label = "remove" -> "remove"
      [] OTHER -> label

ControlKeyboardLayout(label) ==
    CASE label = "stop" -> "confirm stop" [] label = "restart" -> "confirm restart"
      [] label = "remove" -> "confirm remove" [] label = "switch" -> "list" [] OTHER -> label
Labels == {"stop", "restart", "remove", "switch", "peek", "panel"}
NeedsSession(label) == label \in {"stop", "restart", "remove"}

(* resolveTargetSession, for a message that is no reply: the pin, else the *)
(* session last announced.                                                 *)
Target == IF ccPin # None THEN ccPin ELSE ccLast

(* Mutant of confirmCardHandler: Yes resolves its session when tapped.     *)
ConfirmUnbound(verb, s) ==
    {Button(CASE verb = "confirm stop" -> "end" [] verb = "confirm restart" -> "resume"
              [] OTHER -> "remove", None, s), Button("list", None, None)}

confirmCardHandler(verb, s) ==
    {Button(CASE verb = "confirm stop" -> "end" [] verb = "confirm restart" -> "resume"
              [] OTHER -> "remove", s, s), Button("list", None, None)}

(* Mutant of Listed: newest first, alive or not.                           *)
ListedByTime == SubSeq(SelectSeq(ccRecent, LAMBDA s : ccSess[s] # "gone"), 1, ListMax)

(* /list shows live sessions first, newest first in each half, and cuts.   *)
Listed ==
    LET order == SelectSeq(ccRecent, Live) \o SelectSeq(ccRecent, LAMBDA s : ccSess[s] = "ended")
    IN SubSeq(order, 1, IF Len(order) < ListMax THEN Len(order) ELSE ListMax)

listSessionsCardHandler ==
    UNION {IF Live(s) THEN {Button("select", s, s), Button("end", s, s)}
                      ELSE {Button("resume", s, s)} : s \in ToSet(Listed)}

MoveToFront(s) == <<s>> \o SelectSeq(ccRecent, LAMBDA t : t # s)

(* The session commands.  An unknown or a wrong session is answered with a *)
(* text; Manager.Stop, Start and Remove are in SessionManager.             *)
Run(cmd, s, did) ==
    LET target == IF s = None /\ cmd \in {"end", "resume", "remove"} THEN Target ELSE s
        changes == \/ cmd = "end" /\ Live(target)
                   \/ cmd = "resume" /\ ccSess[target] = "ended"
                   \/ cmd = "remove" /\ ccSess[target] # "gone"
        becomes == CASE cmd = "end" -> "ended" [] cmd = "resume" -> "live" [] OTHER -> "gone"
    IN IF cmd \in {"end", "resume", "remove"}
         THEN IF target # None /\ changes
                THEN /\ ccSess' = [ccSess EXCEPT ![target] = becomes]
                     /\ ccRecent' = MoveToFront(target)
                     /\ ccDid' = [did EXCEPT !.effect = cmd, !.on = target]
                     /\ UNCHANGED <<ccPin, ccCard>>
                ELSE ccDid' = [did EXCEPT !.shown = None] /\ UNCHANGED <<ccSess, ccRecent, ccPin, ccCard>>
       ELSE /\ ccDid' = [did EXCEPT !.shown = None] /\ UNCHANGED <<ccSess, ccRecent>>
            /\ ccPin' = IF cmd = "select" /\ s # None THEN IF Live(s) THEN s ELSE ccPin
                        ELSE IF cmd = "select off" THEN None ELSE ccPin
            /\ ccCard' = IF cmd \in {"list", "panel"} THEN listSessionsCardHandler
                         ELSE IF cmd \in {"confirm stop", "confirm restart", "confirm remove"}
                              THEN confirmCardHandler(cmd, s) ELSE ccCard

(* authorizeSender: with an owner configured only the owner is heard.  A   *)
(* failed read of the config leaves no owner in it.  Mutant: everybody is. *)
AuthorizeAnyone(sender, readOk) == TRUE

authorizeSender(sender, readOk) == sender = "owner" \/ ~(ccOwner /\ readOk)

(* The ways a message can come in: a typed command, a tap on a button of   *)
(* the card, a key of the keyboard.  (Plain text is ChannelHub's.)         *)
TypeCommand(sender, readOk, cmd, s) ==
    /\ authorizeSender(sender, readOk)
    /\ Run(cmd, s, [Nothing EXCEPT !.by = sender, !.via = IF readOk THEN "typed" ELSE "unread", !.shown = s])
    /\ UNCHANGED <<ccLast, ccOwner>>

TapButton(sender, readOk, b) ==
    /\ b \in ccCard /\ authorizeSender(sender, readOk)
    /\ Run(b.cmd, b.arg, [Nothing EXCEPT !.by = sender, !.via = IF readOk THEN "card" ELSE "unread", !.shown = b.shown])
    /\ UNCHANGED <<ccLast, ccOwner>>

(* controlButtonAction fills the command with the session of the moment;   *)
(* with none the chat gets a hint.                                         *)
TapKey(sender, readOk, label) ==
    /\ authorizeSender(sender, readOk)
    /\ NeedsSession(label) => Target # None
    /\ Run(ControlKeyboardLayout(label), IF NeedsSession(label) THEN Target ELSE None,
           [Nothing EXCEPT !.by = sender, !.via = IF readOk THEN "key" ELSE "unread", !.shown = Target])
    /\ UNCHANGED <<ccLast, ccOwner>>

(* Outside the chat: a session ends or is announced.                       *)
SessionEnds(s) ==
    /\ Live(s) /\ ccSess' = [ccSess EXCEPT ![s] = "ended"] /\ ccRecent' = MoveToFront(s)
    /\ ccDid' = Nothing /\ UNCHANGED <<ccPin, ccLast, ccCard, ccOwner>>

Announced(s) ==
    /\ Live(s) /\ ccLast' = s /\ ccDid' = Nothing
    /\ UNCHANGED <<ccSess, ccRecent, ccPin, ccCard, ccOwner>>

Next ==
    \/ \E s \in Sessions : SessionEnds(s) \/ Announced(s)
    \/ \E sender \in {"owner", "stranger"}, readOk \in BOOLEAN :
       /\ sender = "owner" => readOk        \* the owner is heard either way
       /\ \/ \E cmd \in {"list", "select", "select off", "end", "resume", "remove", "peek"} :
               \E s \in Sessions \union {None} :
                 /\ s = None <=> cmd \in {"list", "select off", "peek"}
                 /\ TypeCommand(sender, readOk, cmd, s)
          \/ \E b \in ccCard : TapButton(sender, readOk, b)
          \/ \E label \in Labels : TapKey(sender, readOk, label)

Spec == Init /\ [][Next]_vars

TypeOK ==
    /\ ccSess \in [Sessions -> {"live", "ended", "gone"}] /\ ToSet(ccRecent) = Sessions
    /\ ccPin \in Sessions \union {None} /\ ccLast \in Sessions \union {None}

(* With an owner configured, nobody else's message changes a session, the  *)
(* pin or the screen, as long as the channel's config could be read.       *)
OwnersOnly == ccOwner => ~(ccDid.by = "stranger" /\ ccDid.via # "unread")

(* A stray tap on the docked keyboard never touches a session: every way   *)
(* from it to a stop, a restart or a removal passes a card that asks.      *)
KeyboardOnlyAsks == ccDid.via = "key" => ccDid.effect = "none"

(* What a button does it does to the session its label shows, though the   *)
(* pin, the last announced session and the sessions themselves may all     *)
(* have changed since the card was drawn.                                  *)
ActsOnWhatIsShown == ccDid.via = "card" /\ ccDid.effect # "none" => ccDid.on = ccDid.shown

(* A live session is left off a full list only for other live ones: an     *)
(* operator can always reach what runs.                                    *)
ListReachesLive ==
    \A s \in Sessions : (Live(s) /\ s \notin ToSet(Listed)) => \A t \in ToSet(Listed) : Live(t)
=============================================================================
