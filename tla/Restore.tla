------------------------------- MODULE Restore ------------------------------
(***************************************************************************)
(* RestoreBackup (backup/service_restore.go): a bundle is staged and       *)
(* validated, then a dry run stops; an apply takes a safety snapshot and   *)
(* replaces config, secrets, vault and database in that order.  Any step   *)
(* may fail and the process may crash in any of them.  Contents are named  *)
(* by the restore they come from, 0 being what was there first.  The       *)
(* operator runs one restore at a time: nothing in the code enforces it,   *)
(* and two at once could put both copies over one .bak.                    *)
(***************************************************************************)
EXTENDS Integers, Sequences, FiniteSets

CONSTANTS
    Restores,     \* bound: 1..n calls of RestoreBackup
    Files,        \* sequence of files installed one by one, in the code's order
    Configured,   \* the files this instance has a path for
    VaultFiles,   \* sequence of the vault's files, in the order of the tar
    Mapped        \* those whose logical root this instance has a directory for

VARIABLES
    rsDisk,       \* content of every file, vault file and database
    rsBak,        \* rsBak[f]: .bak and the timestamped copies beside it
    rsPc,         \* the step the current call is at
    rsN,          \* calls begun
    rsReq,        \* the call: apply, force, the sections in its bundle, the database of its DSN
    rsSnap,       \* outcome of the safety snapshot
    rsApplied,    \* result.Plan.Applied
    rsAside,      \* installFile: the copy that was moved aside, or -1
    rsNext,       \* UnpackVault: index of the tar's next entry
    rsBase,       \* history: the disk when the call began
    rsBroken,     \* history: the section at which the call failed or crashed
    rsHole        \* history: the files at which it crashed or the rollback itself failed

vars == <<rsDisk, rsBak, rsPc, rsN, rsReq, rsSnap, rsApplied, rsAside, rsNext, rsBase, rsBroken, rsHole>>
call == <<rsN, rsReq, rsSnap, rsBase>>

Missing == -2
Partial == -3
FileSet == {Files[i] : i \in DOMAIN Files}
Sections == FileSet \union {"vault", "database"}
Vault == {VaultFiles[i] : i \in DOMAIN VaultFiles}
Databases == {"own", "other"}
Places == FileSet \union Databases \union Vault
NoReq == [apply |-> FALSE, force |-> FALSE, has |-> {}, db |-> "own"]

Init ==
    /\ rsDisk = [p \in Places |-> 0] /\ rsBak = [f \in FileSet |-> [bak |-> {}, stamped |-> {}]]
    /\ rsPc = "idle" /\ rsN = 0 /\ rsReq = NoReq
    /\ rsSnap = "none" /\ rsApplied = {} /\ rsAside = -1 /\ rsNext = 1
    /\ rsBase = rsDisk /\ rsBroken = "none" /\ rsHole = {}

Return == rsPc' = "idle" /\ rsAside' = -1 /\ rsNext' = 1
Fails == Return /\ rsBroken' = rsPc /\ UNCHANGED <<call, rsApplied>>
Writes(p, c) == rsDisk' = [rsDisk EXCEPT ![p] = c]
\* a write that did not come to its end
Torn(p) == rsDisk' \in {rsDisk, [rsDisk EXCEPT ![p] = Partial]}

(* Phase 1: decrypt, untar and stage every entry, then look for the dump   *)
(* and compare fingerprints.  A bad bundle, or no pg_restore to apply it   *)
(* with, returns with nothing touched; so does a dry run.                  *)
StageAndValidate(apply, force, has, db) ==
    /\ rsPc = "idle" /\ rsN < Restores /\ rsN' = rsN + 1
    /\ rsReq' = [apply |-> apply, force |-> force, has |-> has, db |-> db]
    /\ rsBase' = rsDisk /\ rsSnap' = "none" /\ rsApplied' = {} /\ rsBroken' = "none" /\ rsHole' = {}
    /\ rsPc' \in {"idle"} \union (IF apply THEN {"snapshot"} ELSE {})
    /\ UNCHANGED <<rsDisk, rsBak, rsAside, rsNext>>

FirstFile == IF FileSet = {} THEN "vault" ELSE Files[1]
After(f) == LET i == CHOOSE k \in DOMAIN Files : Files[k] = f
            IN  IF i < Len(Files) THEN Files[i + 1] ELSE "vault"

(* Mutant of PreRestoreSnapshot: a failed snapshot is only logged.         *)
PreRestoreSnapshotLogs ==
    /\ rsPc = "snapshot" /\ rsSnap' \in {"ok", "failed"} /\ rsPc' = FirstFile
    /\ UNCHANGED <<rsDisk, rsBak, rsN, rsReq, rsApplied, rsAside, rsNext, rsBase, rsBroken, rsHole>>

(* preRestoreSnapshot: a full_instance backup of the instance as it is; a  *)
(* failure ends the restore unless the request says force.                 *)
PreRestoreSnapshot ==
    /\ rsPc = "snapshot" /\ rsSnap' \in {"ok", "failed"}
    /\ rsPc' = IF rsSnap' = "failed" /\ ~rsReq.force THEN "idle" ELSE FirstFile
    /\ UNCHANGED <<rsDisk, rsBak, rsN, rsReq, rsApplied, rsAside, rsNext, rsBase, rsBroken, rsHole>>

Wanted(f) == rsPc = f /\ f \in rsReq.has \intersect Configured

SkipFile(f) ==
    /\ rsPc = f /\ ~Wanted(f) /\ rsPc' = After(f)
    /\ UNCHANGED <<call, rsDisk, rsBak, rsApplied, rsAside, rsNext, rsBroken, rsHole>>

(* installFile's directory cannot be made, or the rename aside fails.      *)
InstallRefused(f) ==
    /\ Wanted(f) /\ rsAside = -1 /\ rsDisk[f] # Missing /\ Fails
    /\ UNCHANGED <<rsDisk, rsBak, rsHole>>

(* Mutant of MoveAside: the copy always goes to .bak.                      *)
MoveAsideOver(f) ==
    /\ Wanted(f) /\ rsAside = -1 /\ rsDisk[f] # Missing
    /\ rsBak' = [rsBak EXCEPT ![f].bak = {rsDisk[f]}]
    /\ rsAside' = rsDisk[f] /\ Writes(f, Missing)
    /\ UNCHANGED <<call, rsPc, rsApplied, rsNext, rsBroken, rsHole>>

(* installFile renames the file aside: to .bak, or to a timestamped name   *)
(* when .bak is taken.                                                     *)
MoveAside(f) ==
    /\ Wanted(f) /\ rsAside = -1 /\ rsDisk[f] # Missing
    /\ rsBak' = IF rsBak[f].bak = {} THEN [rsBak EXCEPT ![f].bak = {rsDisk[f]}]
                ELSE [rsBak EXCEPT ![f].stamped = @ \union {rsDisk[f]}]
    /\ rsAside' = rsDisk[f] /\ Writes(f, Missing)
    /\ UNCHANGED <<call, rsPc, rsApplied, rsNext, rsBroken, rsHole>>

Installed(f) ==
    /\ Wanted(f) /\ rsDisk[f] = Missing /\ Writes(f, rsN)
    /\ rsApplied' = rsApplied \union {f} /\ rsPc' = After(f) /\ rsAside' = -1
    /\ UNCHANGED <<call, rsBak, rsNext, rsBroken, rsHole>>

(* Mutant of Rollback: the error is returned as it is.                     *)
NoRollback(f) ==
    /\ Wanted(f) /\ rsDisk[f] = Missing /\ Torn(f) /\ Fails /\ UNCHANGED <<rsBak, rsHole>>

(* Opening, writing or closing fails: what was moved aside comes back, and *)
(* the call returns the error.  With nothing moved aside nothing is        *)
(* undone; the errors of the rollback's own remove and rename are ignored. *)
Rollback(f) ==
    /\ Wanted(f) /\ rsDisk[f] = Missing /\ Fails
    /\ \/ rsAside = -1 /\ Torn(f) /\ UNCHANGED <<rsBak, rsHole>>
       \/ rsAside # -1 /\ Torn(f) /\ rsHole' = rsHole \union {f} /\ UNCHANGED rsBak
       \/ /\ rsAside # -1 /\ Writes(f, rsAside) /\ UNCHANGED rsHole
          /\ rsBak' = IF rsAside \in rsBak[f].stamped THEN [rsBak EXCEPT ![f].stamped = @ \ {rsAside}]
                      ELSE [rsBak EXCEPT ![f].bak = {}]

(* The bundle has no vault.                                                *)
SkipVault ==
    /\ rsPc = "vault" /\ "vault" \notin rsReq.has /\ rsPc' = "database"
    /\ UNCHANGED <<call, rsDisk, rsBak, rsApplied, rsAside, rsNext, rsBroken, rsHole>>

(* UnpackVault truncates and writes the next file; an entry under a root   *)
(* that is not mapped is passed over.                                      *)
UnpackFile ==
    /\ rsPc = "vault" /\ "vault" \in rsReq.has /\ rsNext <= Len(VaultFiles) /\ rsNext' = rsNext + 1
    /\ IF VaultFiles[rsNext] \in Mapped THEN Writes(VaultFiles[rsNext], rsN) ELSE UNCHANGED rsDisk
    /\ UNCHANGED <<call, rsBak, rsPc, rsApplied, rsAside, rsBroken, rsHole>>

TornVault ==
    \/ UNCHANGED rsDisk
    \/ rsNext <= Len(VaultFiles) /\ VaultFiles[rsNext] \in Mapped /\ Torn(VaultFiles[rsNext])

(* The staged vault cannot be opened, read on or closed, or a file cannot  *)
(* be written: what was unpacked before stays, and the section is not      *)
(* listed.                                                                 *)
UnpackFails ==
    /\ rsPc = "vault" /\ "vault" \in rsReq.has /\ TornVault /\ Fails /\ UNCHANGED <<rsBak, rsHole>>

VaultApplied ==
    /\ rsPc = "vault" /\ "vault" \in rsReq.has /\ rsNext > Len(VaultFiles)
    /\ rsApplied' = rsApplied \union {"vault"} /\ rsPc' = "database" /\ rsNext' = 1
    /\ UNCHANGED <<call, rsDisk, rsBak, rsAside, rsBroken, rsHole>>

(* Mutant of PgRestore: the database is listed although it failed.         *)
PgRestoreAlwaysListed ==
    /\ rsPc = "database" /\ Return /\ rsApplied' = rsApplied \union {"database"}
    /\ \/ Writes(rsReq.db, rsN) /\ UNCHANGED rsBroken
       \/ Torn(rsReq.db) /\ rsBroken' = "database"
    /\ UNCHANGED <<call, rsBak, rsHole>>

(* pg_restore into the request's database, not in a single transaction.    *)
PgRestore ==
    /\ rsPc = "database" /\ Return /\ UNCHANGED <<call, rsBak, rsHole>>
    /\ \/ Writes(rsReq.db, rsN) /\ rsApplied' = rsApplied \union {"database"} /\ UNCHANGED rsBroken
       \/ Torn(rsReq.db) /\ rsBroken' = "database" /\ UNCHANGED rsApplied

(* The process dies: a file being written is torn, one moved aside is not  *)
(* put back, and pg_restore dies with the gateway or has just ended.       *)
Crash ==
    /\ rsPc # "idle" /\ Fails /\ UNCHANGED rsBak
    /\ rsHole' = IF rsPc \in FileSet /\ rsDisk[rsPc] = Missing THEN rsHole \union {rsPc} ELSE rsHole
    /\ CASE rsPc = "database" -> Torn(rsReq.db) \/ Writes(rsReq.db, rsN)
         [] rsPc = "vault" /\ "vault" \in rsReq.has -> TornVault
         [] rsPc \in FileSet /\ rsDisk[rsPc] = Missing /\ Wanted(rsPc) -> Torn(rsPc)
         [] OTHER -> UNCHANGED rsDisk

Next ==
    \/ \E apply, force \in BOOLEAN, has \in SUBSET (Sections \ {"database"}), db \in Databases :
          StageAndValidate(apply, force, has, db)
    \/ PreRestoreSnapshot
    \/ \E f \in FileSet : SkipFile(f) \/ InstallRefused(f) \/ MoveAside(f) \/ Installed(f) \/ Rollback(f)
    \/ SkipVault \/ UnpackFile \/ UnpackFails \/ VaultApplied \/ PgRestore \/ Crash

Spec == Init /\ [][Next]_vars

TypeOK == /\ rsPc \in Sections \union {"idle", "snapshot"} /\ rsApplied \subseteq Sections
          /\ rsDisk \in [Places -> 0..Restores \union {Missing, Partial}]

(* Nothing on disk changes before the instance was saved: a dry run, a     *)
(* bundle that does not validate and a failed safety snapshot without      *)
(* force leave everything as the call found it.                            *)
SavedBeforeTouched == (rsDisk # rsBase) => rsReq.apply /\ (rsSnap = "ok" \/ rsReq.force)

(* The first config and the first secrets are never lost: over repeated    *)
(* restores, failures and crashes they are in place or beside it.          *)
OriginalKept == \A f \in FileSet : rsDisk[f] = 0 \/ 0 \in rsBak[f].bak \union rsBak[f].stamped

(* A restore that returns, failed or not, leaves every file it found       *)
(* whole: only a crash at that file, or a rollback that fails itself,      *)
(* leaves it missing or cut short.                                         *)
NoHoleLeft ==
    rsPc = "idle" =>
       \A f \in FileSet \ rsHole : rsDisk[f] \in {Missing, Partial} => rsBase[f] \in {Missing, Partial}

(* The result tells what was committed: a section it lists is the          *)
(* bundle's, one it does not list is as it was, but for the section at     *)
(* which the call broke off.                                               *)
AppliedIsTrue ==
    (rsPc = "idle" /\ rsN > 0) =>
       \A s \in Sections :
          LET at == CASE s = "vault" -> Vault \intersect Mapped [] s = "database" -> {rsReq.db} [] OTHER -> {s} IN
          /\ s \in rsApplied => \A p \in at : rsDisk[p] = rsN
          /\ (s \notin rsApplied /\ s # rsBroken) => \A p \in at : rsDisk[p] = rsBase[p]
=============================================================================
