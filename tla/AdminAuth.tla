----------------------------- MODULE AdminAuth -------------------------------
(***************************************************************************)
(* The administrator's credentials and tokens (auth/auth.go, keyfile.go,   *)
(* handler.go).  A login compares with the credentials snapshot and stores *)
(* its token in two steps; ChangeCredentials writes the key file, loads it *)
(* again, swaps the snapshot and drops all tokens.  Passwords are numbered *)
(* in the order they are chosen; 0 is the one of config.toml.              *)
(***************************************************************************)
EXTENDS Naturals, FiniteSets

CONSTANTS
    Logins,      \* concurrent Login calls
    Changers,    \* concurrent ChangeCredentials calls
    Override,    \* OPENDRAY_ADMIN_KEY_FILE names another file (password 0)
    MaxTokens,   \* bound: tokens issued
    MaxPass,     \* bound: passwords chosen
    MaxBoots     \* bound: restarts of the gateway

VARIABLES
    auCreds,     \* the snapshot: the password it verifies
    auFile,      \* the key file: a password, 0 when absent
    auTokens,    \* token -> the password it was issued under, set of pairs
    auIssued,    \* tokens issued
    auPass,      \* passwords chosen
    auLogin,     \* auLogin[l]: [pc, pass]
    auChange,    \* auChange[c]: [pc, pass]
    auMu,        \* credsMu: the change that holds it, or None
    auTook,      \* history: the last change that reported success
    auFailed,    \* history: passwords whose change failed after the file was written
    auOverlap,   \* history: tokens of logins that overlapped a swap
    auBoots

vars == <<auCreds, auFile, auTokens, auIssued, auPass, auLogin, auChange, auMu, auTook, auFailed, auOverlap, auBoots>>

None == "none"
Quiet == [pc |-> "idle", pass |-> 0]

(* LoadCreds: the override, the key file, or without one config.toml.      *)
LoadCreds(file) == IF Override THEN 0 ELSE file

Init ==
    /\ auFile = 0 /\ auCreds = 0 /\ auTokens = {} /\ auIssued = 0 /\ auPass = 0
    /\ auLogin = [l \in Logins |-> Quiet] /\ auChange = [c \in Changers |-> Quiet] /\ auMu = None
    /\ auTook = 0 /\ auFailed = {} /\ auOverlap = {} /\ auBoots = 0

(* loginWithTTL verifies against the snapshot, ...                         *)
Login(l) ==
    /\ auLogin[l].pc = "idle" /\ auIssued < MaxTokens
    /\ auLogin' = [auLogin EXCEPT ![l] = [pc |-> "verified", pass |-> auCreds]]
    /\ UNCHANGED <<auCreds, auFile, auTokens, auIssued, auPass, auChange, auMu, auTook, auFailed, auOverlap, auBoots>>

(* ... and stores the token.                                               *)
Issue(l) ==
    /\ auLogin[l].pc = "verified" /\ auIssued' = auIssued + 1
    /\ auTokens' = auTokens \union {<<auIssued + 1, auLogin[l].pass>>}
    /\ auOverlap' = IF auLogin[l].pass # auCreds THEN auOverlap \union {auIssued + 1} ELSE auOverlap
    /\ auLogin' = [auLogin EXCEPT ![l] = Quiet]
    /\ UNCHANGED <<auCreds, auFile, auPass, auChange, auMu, auTook, auFailed, auBoots>>

(* Revoke, and Validate of an expired token.                               *)
Revoke(t) ==
    /\ t \in auTokens /\ auTokens' = auTokens \ {t}
    /\ UNCHANGED <<auCreds, auFile, auIssued, auPass, auLogin, auChange, auMu, auTook, auFailed, auOverlap, auBoots>>

(* Mutant of Change: no lock around the whole change.                      *)
ChangeUnlocked(c) ==
    /\ auChange[c].pc = "idle" /\ auPass < MaxPass /\ auPass' = auPass + 1
    /\ auMu' = c /\ auChange' = [auChange EXCEPT ![c] = [pc |-> "write", pass |-> auPass + 1]]
    /\ UNCHANGED <<auCreds, auFile, auTokens, auIssued, auLogin, auTook, auFailed, auOverlap, auBoots>>

(* ChangeCredentials takes credsMu and checks the current password, ...    *)
Change(c) ==
    /\ auChange[c].pc = "idle" /\ auMu = None /\ auPass < MaxPass /\ auPass' = auPass + 1
    /\ auMu' = c /\ auChange' = [auChange EXCEPT ![c] = [pc |-> "write", pass |-> auPass + 1]]
    /\ UNCHANGED <<auCreds, auFile, auTokens, auIssued, auLogin, auTook, auFailed, auOverlap, auBoots>>

(* ... WriteKeyFile replaces the file by a rename, or fails, ...           *)
Write(c) ==
    /\ auChange[c].pc = "write"
    /\ \/ /\ auFile' = auChange[c].pass /\ auChange' = [auChange EXCEPT ![c].pc = "load"] /\ UNCHANGED auMu
       \/ /\ auChange' = [auChange EXCEPT ![c] = Quiet] /\ auMu' = None /\ UNCHANGED auFile
    /\ UNCHANGED <<auCreds, auTokens, auIssued, auPass, auLogin, auTook, auFailed, auOverlap, auBoots>>

(* ... the file is loaded again, which may fail, ...                       *)
Load(c) ==
    /\ auChange[c].pc = "load"
    /\ \/ /\ auCreds' = LoadCreds(auFile) /\ auChange' = [auChange EXCEPT ![c].pc = "revoke"]
          /\ UNCHANGED <<auMu, auFailed>>
       \/ /\ auChange' = [auChange EXCEPT ![c] = Quiet] /\ auMu' = None
          /\ auFailed' = auFailed \union {auChange[c].pass} /\ UNCHANGED auCreds
    /\ UNCHANGED <<auFile, auTokens, auIssued, auPass, auLogin, auTook, auOverlap, auBoots>>

(* Mutant of RevokeAll: only the snapshot is swapped.                      *)
RevokeAllSkips(c) ==
    /\ auChange[c].pc = "revoke" /\ auTook' = auChange[c].pass
    /\ auChange' = [auChange EXCEPT ![c] = Quiet] /\ auMu' = None
    /\ UNCHANGED <<auCreds, auFile, auTokens, auIssued, auPass, auLogin, auFailed, auOverlap, auBoots>>

(* ... and every token is dropped.                                         *)
RevokeAll(c) ==
    /\ auChange[c].pc = "revoke" /\ auTokens' = {} /\ auTook' = auChange[c].pass
    /\ auChange' = [auChange EXCEPT ![c] = Quiet] /\ auMu' = None
    /\ UNCHANGED <<auCreds, auFile, auIssued, auPass, auLogin, auFailed, auOverlap, auBoots>>

(* The gateway restarts: New loads the credentials; tokens and calls are   *)
(* gone.                                                                   *)
Restart ==
    /\ auBoots < MaxBoots /\ auBoots' = auBoots + 1
    /\ auCreds' = LoadCreds(auFile) /\ auTokens' = {}
    /\ auFailed' = auFailed \union {auChange[c].pass : c \in {x \in Changers : auChange[x].pc \in {"load", "revoke"}}}
    /\ auLogin' = [l \in Logins |-> Quiet] /\ auChange' = [c \in Changers |-> Quiet] /\ auMu' = None
    /\ UNCHANGED <<auFile, auIssued, auPass, auTook, auOverlap>>

Next ==
    \/ \E l \in Logins : Login(l) \/ Issue(l)
    \/ \E t \in auTokens : Revoke(t)
    \/ \E c \in Changers : Change(c) \/ Write(c) \/ Load(c) \/ RevokeAll(c)
    \/ Restart
Spec == Init /\ [][Next]_vars

TypeOK == auCreds \in 0..MaxPass /\ auFile \in 0..MaxPass /\ \A t \in auTokens : t[1] \in 1..auIssued

Idle == auMu = None /\ \A c \in Changers : auChange[c].pc = "idle"

(* Between changes the gateway verifies the password of the last change    *)
(* that reported success; only one that failed after the file was written  *)
(* may have replaced it, at a restart or with the next change.             *)
LastChangeCounts == Idle /\ ~Override => auCreds = auTook \/ auCreds \in auFailed

(* Between changes every token was issued under the current password or    *)
(* by a login that overlapped the swap.                                    *)
OldTokensGone == Idle => \A t \in auTokens : t[2] = auCreds \/ t[1] \in auOverlap

(* A change that reports success takes effect (handler.go logs the caller  *)
(* in with the new password).                                              *)
ChangeTakesEffect == Idle => auCreds = auTook \/ auCreds \in auFailed
=============================================================================
