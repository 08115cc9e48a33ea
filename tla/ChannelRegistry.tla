--------------------------- MODULE ChannelRegistry ---------------------------
(***************************************************************************)
(* Which chat adapters run: the channels table (store.go, secrets.go), the *)
(* map of running adapters (Hub.channels) and the calls that change both   *)
(* (Start, CreateChannel, UpdateChannel, DeleteChannel, /notify,           *)
(* Shutdown).  Calls run in request goroutines; Hub.mu covers one access   *)
(* of the map at a time, never a call.  Every spawn makes an adapter of    *)
(* its own, which runs until Stop.                                         *)
(***************************************************************************)
EXTENDS Naturals, FiniteSets

CONSTANTS
    Ids,          \* channel ids, each created at most once
    Admins,       \* request goroutines
    Adapters,     \* 1..n: adapter instances, a bound on spawns
    CipherKeys,   \* 0..n: 0 while the backup feature is not armed
    Secrets,      \* credentials an admin may enter
    None

VARIABLES
    rows,         \* the channels table
    channels,     \* Hub.channels
    started,      \* Hub.started
    adapter,      \* adapter[i]: "unused", "running" or "stopped"
    call,         \* call[a]: the call admin a has in flight
    boot,         \* rows Start has yet to spawn
    cipherKey,    \* the key of the field cipher
    entered,      \* history: the credential last entered for a channel
    overlap,      \* history: channels on which two calls were in flight at once
    stops         \* history: how often an adapter was stopped

vars == <<rows, channels, started, adapter, call, boot, cipherKey, entered, overlap, stops>>

NoCall == [op |-> "none"]

(* The rows an earlier run of the gateway left.                            *)
Init ==
    /\ rows \in [Ids -> {None, [enabled |-> TRUE, key |-> 0, secret |-> CHOOSE s \in Secrets : TRUE]}]
    /\ entered = [i \in Ids |-> CHOOSE s \in Secrets : TRUE]
    /\ channels = [i \in Ids |-> None] /\ started = FALSE /\ boot = {}
    /\ adapter = [n \in Adapters |-> "unused"] /\ stops = [n \in Adapters |-> 0]
    /\ call = [a \in Admins |-> NoCall] /\ cipherKey = 0 /\ overlap = {}

Busy(i) == {a \in Admins : call[a] # NoCall /\ call[a].id = i}

(* A call for channel i begins: the HTTP server listens from after Start   *)
(* to before Shutdown.                                                     *)
Begin(a, c) ==
    /\ call[a] = NoCall /\ started /\ boot = {}
    /\ call' = [call EXCEPT ![a] = c]
    /\ overlap' = IF Busy(c.id) = {} THEN overlap ELSE overlap \union {c.id}

Goto(a, pc) == call' = [call EXCEPT ![a] = IF pc = "end" THEN NoCall ELSE [@ EXCEPT !.pc = pc]]

(***************************************************************************)
(* Secrets at rest: a field under key k reads as plain text under the      *)
(* cipher with that key, and stays as it is under any other.               *)
(***************************************************************************)

EncryptConfigSecrets(r) == IF r.key = 0 THEN [r EXCEPT !.key = cipherKey] ELSE r

(* Mutant of DecryptConfigSecrets: what cannot be read is blanked.         *)
DecryptBlanks(r) == IF r.key = 0 \/ r.key = cipherKey THEN [r EXCEPT !.key = 0]
                    ELSE [r EXCEPT !.key = 0, !.secret = None]

DecryptConfigSecrets(r) == IF r.key = cipherKey THEN [r EXCEPT !.key = 0] ELSE r

(* The operator arms the backup feature, or replaces its key.              *)
RotateKey ==
    /\ cipherKey + 1 \in CipherKeys /\ cipherKey' = cipherKey + 1
    /\ UNCHANGED <<rows, channels, started, adapter, call, boot, entered, overlap, stops>>

(***************************************************************************)
(* The calls.                                                              *)
(***************************************************************************)

(* CreateChannel inserts the row first.                                    *)
CreateChannel(a, i, enabled, s) ==
    /\ rows[i] = None /\ Busy(i) = {}
    /\ Begin(a, [op |-> "create", id |-> i, pc |-> "gate", enabled |-> enabled, old |-> None])
    /\ rows' = [rows EXCEPT ![i] =
                  EncryptConfigSecrets([enabled |-> enabled, key |-> 0, secret |-> s])]
    /\ entered' = [entered EXCEPT ![i] = s]
    /\ UNCHANGED <<channels, started, adapter, boot, cipherKey, stops>>

(* UpdateChannel writes the config, or the enabled flag, and reads the row *)
(* back; a missing row ends the call.                                      *)
UpdateChannel(a, i, enabled, s) ==
    LET config == IF s = None THEN rows[i]
                  ELSE EncryptConfigSecrets([rows[i] EXCEPT !.key = 0, !.secret = s])
    IN /\ rows[i] # None
       /\ Begin(a, [op |-> "update", id |-> i, pc |-> "take", enabled |-> enabled, old |-> None])
       /\ rows' = [rows EXCEPT ![i] = [config EXCEPT !.enabled = enabled]]
       /\ entered' = IF s = None THEN entered ELSE [entered EXCEPT ![i] = s]
       /\ UNCHANGED <<channels, started, adapter, boot, cipherKey, stops>>

DeleteChannel(a, i) ==
    /\ rows[i] # None
    /\ Begin(a, [op |-> "delete", id |-> i, pc |-> "take", enabled |-> FALSE, old |-> None])
    /\ UNCHANGED <<rows, channels, started, adapter, boot, cipherKey, entered, stops>>

(* Mutant of TakeRunning: the adapter is found but left in the map.        *)
TakeRunningKeeps(a) ==
    LET c == call[a] IN
    /\ c # NoCall /\ c.pc = "take"
    /\ call' = [call EXCEPT ![a] = [c EXCEPT !.pc = "stop", !.old = channels[c.id]]]
    /\ UNCHANGED <<rows, channels, started, adapter, boot, cipherKey, entered, overlap, stops>>

(* Under Hub.mu the running adapter is taken out of the map.               *)
TakeRunning(a) ==
    LET c == call[a] IN
    /\ c # NoCall /\ c.pc = "take"
    /\ call' = [call EXCEPT ![a] = [c EXCEPT !.pc = "stop", !.old = channels[c.id]]]
    /\ channels' = [channels EXCEPT ![c.id] = None]
    /\ UNCHANGED <<rows, started, adapter, boot, cipherKey, entered, overlap, stops>>

StopAdapters(ns) ==
    /\ adapter' = [n \in Adapters |-> IF n \in ns THEN "stopped" ELSE adapter[n]]
    /\ stops' = [n \in Adapters |-> IF n \in ns THEN stops[n] + 1 ELSE stops[n]]

(* Then it is stopped, and the notifier forgets the channel.               *)
StopTaken(a) ==
    LET c == call[a] IN
    /\ c # NoCall /\ c.pc = "stop"
    /\ StopAdapters({c.old} \ {None})
    /\ Goto(a, IF c.op = "delete" THEN "delrow" ELSE "gate")
    /\ UNCHANGED <<rows, channels, started, boot, cipherKey, entered, overlap>>

DeleteRow(a) ==
    LET c == call[a] IN
    /\ c # NoCall /\ c.pc = "delrow"
    /\ rows' = [rows EXCEPT ![c.id] = None]
    /\ Goto(a, "end")
    /\ UNCHANGED <<channels, started, adapter, boot, cipherKey, entered, overlap, stops>>

Unused == {n \in Adapters : adapter[n] = "unused"}
NextAdapter == CHOOSE n \in Unused : \A m \in Unused : n <= m

(* spawn, up to the map: the factory or Start may fail.                    *)
Spawn(a) ==
    LET c == call[a] IN
    /\ c # NoCall /\ c.pc = "gate"
    /\ IF c.enabled /\ started
         THEN \/ Goto(a, "end") /\ UNCHANGED adapter
              \/ /\ Unused # {} /\ adapter' = [adapter EXCEPT ![NextAdapter] = "running"]
                 /\ call' = [call EXCEPT ![a] = [c EXCEPT !.pc = "install", !.old = NextAdapter]]
         ELSE Goto(a, "end") /\ UNCHANGED adapter
    /\ UNCHANGED <<rows, channels, started, boot, cipherKey, entered, overlap, stops>>

(* The map is written without a look at what it held.                      *)
Install(a) ==
    LET c == call[a] IN
    /\ c # NoCall /\ c.pc = "install"
    /\ channels' = [channels EXCEPT ![c.id] = c.old]
    /\ Goto(a, "end")
    /\ UNCHANGED <<rows, started, adapter, boot, cipherKey, entered, overlap, stops>>

(* setMuted reads the config and writes it back with one field changed.    *)
ReadMuted(a, i) ==
    /\ rows[i] # None
    /\ Begin(a, [op |-> "mute", id |-> i, pc |-> "write", enabled |-> FALSE,
                 old |-> DecryptConfigSecrets(rows[i])])
    /\ UNCHANGED <<rows, channels, started, adapter, boot, cipherKey, entered, stops>>

WriteMuted(a) ==
    LET c == call[a] IN
    /\ c # NoCall /\ c.pc = "write"
    /\ rows' = IF rows[c.id] = None THEN rows
               ELSE [rows EXCEPT ![c.id] = 
                       [EncryptConfigSecrets(c.old) EXCEPT !.enabled = rows[c.id].enabled]]
    /\ Goto(a, "end")
    /\ UNCHANGED <<channels, started, adapter, boot, cipherKey, entered, overlap, stops>>

(***************************************************************************)
(* Boot and shutdown.                                                      *)
(***************************************************************************)

Start ==
    /\ ~started /\ \A n \in Adapters : adapter[n] = "unused"
    /\ started' = TRUE
    /\ boot' = {i \in Ids : rows[i] # None /\ rows[i].enabled}
    /\ UNCHANGED <<rows, channels, adapter, call, cipherKey, entered, overlap, stops>>

(* One round of Start's loop; a channel that does not start is logged.     *)
StartRow(i) ==
    /\ i \in boot /\ boot' = boot \ {i}
    /\ \/ UNCHANGED <<channels, adapter>>
       \/ /\ Unused # {}
          /\ adapter' = [adapter EXCEPT ![NextAdapter] = "running"]
          /\ channels' = [channels EXCEPT ![i] = NextAdapter]
    /\ UNCHANGED <<rows, started, call, cipherKey, entered, overlap, stops>>

(* Mutant of Shutdown: the map is cleared, the adapters go on.             *)
ShutdownForgets ==
    /\ started /\ boot = {} /\ started' = FALSE
    /\ channels' = [i \in Ids |-> None]
    /\ overlap' = overlap \union {i \in Ids : Busy(i) # {}}
    /\ UNCHANGED <<rows, adapter, call, boot, cipherKey, entered, stops>>

(* Shutdown follows the HTTP server's, whose drain may time out: a call    *)
(* still in flight then overlaps it.                                       *)
Shutdown ==
    /\ started /\ boot = {} /\ started' = FALSE
    /\ StopAdapters({channels[i] : i \in Ids} \ {None})
    /\ channels' = [i \in Ids |-> None]
    /\ overlap' = overlap \union {i \in Ids : Busy(i) # {}}
    /\ UNCHANGED <<rows, call, boot, cipherKey, entered>>

Next ==
    \/ \E a \in Admins :
         \/ TakeRunning(a) \/ StopTaken(a) \/ DeleteRow(a) \/ Spawn(a) \/ Install(a) \/ WriteMuted(a)
         \/ \E i \in Ids : \/ DeleteChannel(a, i) \/ ReadMuted(a, i)
                           \/ \E b \in BOOLEAN, s \in Secrets :
                                CreateChannel(a, i, b, s) \/ UpdateChannel(a, i, b, s)
                           \/ \E b \in BOOLEAN : UpdateChannel(a, i, b, None)
    \/ \E i \in Ids : StartRow(i)
    \/ Start \/ Shutdown \/ RotateKey

Spec == Init /\ [][Next]_vars

Running == {n \in Adapters : adapter[n] = "running"}
Installed == {channels[i] : i \in Ids} \ {None}

TypeOK ==
    /\ \A i \in Ids : rows[i] = None \/ rows[i].key \in CipherKeys
    /\ channels \in [Ids -> Adapters \union {None}] /\ boot \subseteq Ids
    /\ adapter \in [Adapters -> {"unused", "running", "stopped"}]

(* Calls that overlap never stop one adapter twice, and an adapter that    *)
(* the hub can send through has not been stopped.                          *)
StoppedOnce == (\A n \in Adapters : stops[n] <= 1) /\ Installed \subseteq Running

(* When no call is in flight every adapter that runs is reachable, for a   *)
(* channel that exists and is enabled, unless calls for that channel, or a *)
(* call and the shutdown, overlapped: a bot is never left polling with     *)
(* nobody able to stop it.                                                 *)
NoLeakedAdapter ==
    (boot = {} /\ overlap = {} /\ \A a \in Admins : call[a] = NoCall)
      => /\ Running = Installed
         /\ \A i \in Ids : channels[i] # None => rows[i] # None /\ rows[i].enabled

(* A credential survives every mute toggle and every change of the key,    *)
(* readable or not, unless two calls for the channel overlapped.           *)
SecretKept ==
    \A i \in Ids : i \notin overlap /\ rows[i] # None => rows[i].secret = entered[i]
=============================================================================
