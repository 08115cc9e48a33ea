------------------------------ MODULE Backups -------------------------------
(***************************************************************************)
(* Backups (internal/backup): the runs with their retention, the targets   *)
(* and schedules they use, and the key they are sealed with.               *)
(***************************************************************************)
EXTENDS Naturals, FiniteSets, FiniteSetsExt, Sequences

CONSTANTS
    Parts,          \* subset of {"run", "target", "key"}: what is in use
    MaxRows,        \* bound: rows inserted into backups
    RunTargets,     \* ids of backup_targets in the registry
    Runs,           \* concurrent callers of RunBackupNow and RunBackupSync
    Scheduler,      \* the one of Runs that is the scheduler's tick
    Contents,       \* restorable contents of the instance
    MaxKeys,        \* bound: keys the feature is armed with
    Keep,           \* retention of the schedules
    TargetTargets,  \* target ids
    TargetAdmins,   \* admin calls that may run at once
    Ticks,          \* schedulers: the running one and one that is being replaced
    Lists,          \* target lists a schedule may be given
    MaxVersion,     \* bound: configurations written
    MaxDue,         \* bound: times the schedule falls due
    KeyAdmins,      \* setup and disable calls that may run at once
    Requests,       \* data requests behind requireArmed
    MaxCalls        \* bound: setup and disable calls

VARIABLES
    bkRow,     \* bkRow[i]: the row of the table backups, or NoRow
    bkNext,    \* the next row's number
    bkBlob,    \* bkBlob[t]: path -> the blob stored there, partial
    bkRun,     \* bkRun[r]: the group run r is working on
    bkRet,     \* the tick's retention: target, rows still to delete, pc
    bkDel,     \* DeleteBackup between the blob and the row
    bkWorld,   \* the key armed and the content of the instance
    bkExcuse,  \* history: blobs deleted by hand or shared too late, targets
               \* with rows deleted by hand, rows left unfinished by a
               \* crash or by a status that could not be written
    tgRow,     \* tgRow[t]: [cfg, on], cfg 0 when there is no row
    tgImpl,    \* tgImpl[t]: configuration the registry entry was built from, or 0
    tgCall,    \* tgCall[a]: the admin call in progress
    tgVer,     \* configurations written
    tgList,    \* target_ids of the schedule, the first being target_id
    tgDue,     \* next_run_at is past
    tgRun,     \* tgRun[k]: what the tick of k works on
    tgCount,   \* history: times due, times claimed
    tgExcuse,  \* history: targets with overlapping calls or a failed instantiation
    kyEnv,     \* what the environment set at boot: "none", OPENDRAY_BACKUP_KEY
               \* ("env") or OPENDRAY_BACKUP_KEY_FILE ("override")
    kyFile,    \* passphrase in the default key file, 0 when there is none
    kyLive,    \* LiveBackup.state: the armed key, 0 when disarmed
    kySched,   \* keys whose scheduler has not been cancelled
    kyCall,    \* kyCall[a]: the call in progress
    kyReq,     \* kyReq[r]: "idle", "passed" requireArmed, "panic"
    kyCalls,   \* calls made
    kyExcuse   \* history: calls overlapped, a rotation failed to arm, or the
               \* environment names another key file

-----------------------------------------------------------------------------
(***************************************************************************)
(* The backup runtime (backup/service.go, store.go, retention.go and       *)
(* scheduler.go): a run inserts one row per target, seals one bundle and   *)
(* uploads it to every target, or points the row at a blob with the same   *)
(* content that is there already.  Retention and the operator delete rows  *)
(* and blobs meanwhile, the process may crash and the key may be changed.  *)
(* The scheduler's run ends with the scheduler's context: what it still    *)
(* asks of the database fails.  Any status write may fail; the code logs   *)
(* it and goes on.                                                         *)
(* Rows are numbered in the order of started_at; the blob a row uploads    *)
(* lies at a path of its own, here the row's number.                       *)
(***************************************************************************)

runVars == <<bkRow, bkNext, bkBlob, bkRun, bkRet, bkDel, bkWorld, bkExcuse>>

Rows == 1..MaxRows
NoRow == [status |-> "none"]
IdleRun == [pc |-> "idle", rows |-> {}, targets |-> {}, content |-> 0, prior |-> 0, priorVerify |-> "none",
            key |-> 1, cancelled |-> FALSE]
IdleRet == [pc |-> "idle", target |-> "none", todo |-> {}]

Is(i, s) == bkRow[i].status = s
With(i, st) == [bkRow EXCEPT ![i] = [@ EXCEPT !.status = st]]

RunInit ==
    /\ bkRow = [i \in Rows |-> NoRow] /\ bkNext = 1
    /\ bkBlob = [t \in RunTargets |-> [p \in {} |-> 0]]
    /\ bkRun = [r \in Runs |-> IdleRun] /\ bkRet = IdleRet /\ bkDel = 0
    /\ bkWorld = [key |-> 1, content |-> CHOOSE c \in Contents : TRUE]
    /\ bkExcuse = [paths |-> {}, targets |-> {}, orphans |-> {}]

(* The rows that have no outcome and whose failure could not be written.   *)
Stuck(is) == bkExcuse' = [bkExcuse EXCEPT !.orphans = @ \union is]

(* failRow for each of the rows: MarkBackupFailed under the run's context. *)
FailRows(r, is) ==
    \E marked \in SUBSET (IF bkRun[r].cancelled THEN {} ELSE is) :
       /\ bkRow' = [i \in Rows |-> IF i \in marked THEN [bkRow[i] EXCEPT !.status = "failed"] ELSE bkRow[i]]
       /\ Stuck(is \ marked)

(* prepareGroup inserts a pending row per target; when an insert fails the *)
(* rows before it are to become failed and nothing runs.                   *)
PrepareGroup(r) ==
    /\ bkRun[r].pc = "idle"
    /\ \E ts \in SUBSET RunTargets \ {{}} :
         /\ bkNext + Cardinality(ts) - 1 <= MaxRows
         /\ \E order \in {f \in [bkNext..(bkNext + Cardinality(ts) - 1) -> ts] : \A t \in ts : \E i \in DOMAIN f : f[i] = t},
               aborted \in BOOLEAN :
            \E marked \in IF aborted THEN SUBSET DOMAIN order ELSE {{}} :
              /\ bkRow' = [i \in Rows |-> IF i \in DOMAIN order
                              THEN [status |-> IF i \in marked THEN "failed" ELSE "pending", target |-> order[i],
                                    path |-> 0, hash |-> 0, deduped |-> FALSE, verify |-> "none", key |-> 0]
                              ELSE bkRow[i]]
              /\ bkNext' = bkNext + Cardinality(ts)
              /\ bkRun' = [bkRun EXCEPT ![r] = IF aborted THEN @
                                               ELSE [IdleRun EXCEPT !.pc = "prepared", !.rows = DOMAIN order, !.targets = ts,
                                                                    !.key = bkWorld.key]]
              /\ Stuck(IF aborted THEN DOMAIN order \ marked ELSE {})
    /\ UNCHANGED <<bkBlob, bkRet, bkDel, bkWorld>>

(* doRunBackupGroup first marks the rows that are still pending running,   *)
(* as far as it can.                                                       *)
MarkBackupRunning(r) ==
    /\ bkRun[r].pc = "prepared"
    /\ \E marked \in SUBSET {i \in bkRun[r].rows : Is(i, "pending") /\ ~bkRun[r].cancelled} :
         bkRow' = [i \in Rows |-> IF i \in marked THEN [bkRow[i] EXCEPT !.status = "running"] ELSE bkRow[i]]
    /\ bkRun' = [bkRun EXCEPT ![r].pc = "build"]
    /\ UNCHANGED <<bkNext, bkBlob, bkRet, bkDel, bkWorld, bkExcuse>>

(* The tick reads the row back and goes on to retention, an API run is     *)
(* over.                                                                   *)
EndRun(r) == IF r = Scheduler /\ ~bkRun[r].cancelled THEN [IdleRun EXCEPT !.pc = "retain", !.targets = bkRun[r].targets] ELSE IdleRun

FailsGroup(r) == FailRows(r, bkRun[r].rows) /\ bkRun' = [bkRun EXCEPT ![r] = EndRun(r)]

(* buildSealedBundle stages the dump, the config, the vault and the        *)
(* secrets; a failure, such as pg_dump's under a cancelled context, fails  *)
(* every row of the group.  The fingerprint may be missing (0), which only *)
(* forgoes deduplication.                                                  *)
BuildSealedBundle(r) ==
    /\ bkRun[r].pc = "build"
    /\ \/ /\ ~bkRun[r].cancelled /\ UNCHANGED <<bkRow, bkExcuse>>
          /\ \E h \in {0, bkWorld.content} : bkRun' = [bkRun EXCEPT ![r].pc = "seal", ![r].content = h]
       \/ FailsGroup(r)
    /\ UNCHANGED <<bkNext, bkBlob, bkRet, bkDel, bkWorld>>

(* What was staged is sealed, once for all targets, with the service's     *)
(* key: a cancelled context does not stop it, a full disk does.            *)
SealBundle(r) ==
    /\ bkRun[r].pc = "seal"
    /\ \/ bkRun' = [bkRun EXCEPT ![r].pc = "find"] /\ UNCHANGED <<bkRow, bkExcuse>>
       \/ FailsGroup(r)
    /\ UNCHANGED <<bkNext, bkBlob, bkRet, bkDel, bkWorld>>

(* Mutant of Candidates: rows that only point at a blob, and rows whose    *)
(* verification failed, qualify too.                                       *)
CandidatesAny(t, h) == {i \in Rows : Is(i, "succeeded") /\ bkRow[i].target = t /\ bkRow[i].hash = h}

(* FindDedupTarget: the newest succeeded row that uploaded this content to *)
(* the target and whose verification did not fail.                         *)
Candidates(t, h) ==
    {i \in Rows : /\ Is(i, "succeeded") /\ bkRow[i].target = t /\ bkRow[i].hash = h
                  /\ ~bkRow[i].deduped /\ bkRow[i].path # 0 /\ bkRow[i].verify # "bad"}

Current(r) == Min(bkRun[r].rows)

FindDedupTarget(r) ==
    /\ bkRun[r].pc = "find"
    /\ LET b == Current(r)
           c == IF bkRun[r].content = 0 \/ bkRun[r].cancelled THEN {} ELSE Candidates(bkRow[b].target, bkRun[r].content) IN
       \/ c = {} /\ bkRun' = [bkRun EXCEPT ![r].pc = "put", ![r].prior = 0]
       \/ c # {} /\ bkRun' = [bkRun EXCEPT ![r].pc = "put", ![r].prior = Max(c), ![r].priorVerify = bkRow[Max(c)].verify]
       \/ bkRun' = [bkRun EXCEPT ![r].pc = "put", ![r].prior = 0]        \* the lookup failed
    /\ UNCHANGED <<bkRow, bkNext, bkBlob, bkRet, bkDel, bkWorld, bkExcuse>>

Done(r) == IF Cardinality(bkRun[r].rows) = 1 THEN EndRun(r)
           ELSE [bkRun[r] EXCEPT !.rows = @ \ {Current(r)}, !.prior = 0, !.priorVerify = "none", !.pc = "find"]

(* Row i is deleted, or its blob is already condemned.                     *)
BeingDeleted(i) == Is(i, "deleted") \/ bkDel = i \/ (bkRet.pc \in {"blob", "mark"} /\ i = Min(bkRet.todo))

(* Mutant of MarkBackupDeduped: the row records the service's key.         *)
MarkBackupDedupedOwnKey(r) ==
    /\ bkRun[r].pc = "put" /\ bkRun[r].prior # 0
    /\ LET b == Current(r)  p == bkRow[bkRun[r].prior] IN
       /\ bkRun' = [bkRun EXCEPT ![r] = Done(r)]
       /\ \/ /\ ~bkRun[r].cancelled
             /\ bkRow' = [bkRow EXCEPT ![b] = [@ EXCEPT !.status = "succeeded", !.path = p.path, !.hash = bkRun[r].content,
                                                        !.deduped = TRUE, !.verify = bkRun[r].priorVerify, !.key = bkRun[r].key]]
             /\ bkExcuse' = IF ~BeingDeleted(bkRun[r].prior) THEN bkExcuse
                            ELSE [bkExcuse EXCEPT !.paths = @ \union {<<bkRow[b].target, p.path>>}]
          \/ FailRows(r, {b})
    /\ UNCHANGED <<bkNext, bkBlob, bkRet, bkDel, bkWorld>>

(* The row takes the path, the key and the verification of the row it      *)
(* found, as it was when it was found; deletion in between goes unseen.    *)
MarkBackupDeduped(r) ==
    /\ bkRun[r].pc = "put" /\ bkRun[r].prior # 0
    /\ LET b == Current(r)  p == bkRow[bkRun[r].prior] IN
       /\ bkRun' = [bkRun EXCEPT ![r] = Done(r)]
       /\ \/ /\ ~bkRun[r].cancelled
             /\ bkRow' = [bkRow EXCEPT ![b] = [@ EXCEPT !.status = "succeeded", !.path = p.path, !.hash = bkRun[r].content,
                                                        !.deduped = TRUE, !.verify = bkRun[r].priorVerify, !.key = p.key]]
             /\ bkExcuse' = IF ~BeingDeleted(bkRun[r].prior) THEN bkExcuse
                            ELSE [bkExcuse EXCEPT !.paths = @ \union {<<bkRow[b].target, p.path>>}]
          \/ FailRows(r, {b})
    /\ UNCHANGED <<bkNext, bkBlob, bkRet, bkDel, bkWorld>>

(* The blob of run r at the target and the path of the current row.        *)
Stored(r) == LET b == Current(r) IN
    [bkBlob EXCEPT ![bkRow[b].target] = [p \in DOMAIN @ \union {b} |-> IF p = b THEN bkRun[r].key ELSE @[p]]]

(* Mutant of WriteBundleToTarget: a failed upload ends the whole group.    *)
WriteBundleToTargetAborts(r) ==
    /\ bkRun[r].pc = "put" /\ bkRun[r].prior = 0
    /\ \/ bkBlob' = Stored(r) /\ bkRun' = [bkRun EXCEPT ![r].pc = "stored"] /\ UNCHANGED <<bkRow, bkExcuse>>
       \/ FailRows(r, {Current(r)}) /\ bkRun' = [bkRun EXCEPT ![r] = EndRun(r)] /\ UNCHANGED bkBlob
    /\ UNCHANGED <<bkNext, bkRet, bkDel, bkWorld>>

(* target.Put, whatever became of the row meanwhile.  A failed upload      *)
(* fails this row only.                                                    *)
WriteBundleToTarget(r) ==
    /\ bkRun[r].pc = "put" /\ bkRun[r].prior = 0
    /\ \/ bkBlob' = Stored(r) /\ bkRun' = [bkRun EXCEPT ![r].pc = "stored"] /\ UNCHANGED <<bkRow, bkExcuse>>
       \/ FailRows(r, {Current(r)}) /\ bkRun' = [bkRun EXCEPT ![r] = Done(r)] /\ UNCHANGED bkBlob
    /\ UNCHANGED <<bkNext, bkRet, bkDel, bkWorld>>

(* The row becomes succeeded, also one that was deleted meanwhile.  When   *)
(* that cannot be written the row fails and nothing names its blob.        *)
MarkBackupSucceeded(r) ==
    /\ bkRun[r].pc = "stored"
    /\ LET b == Current(r) IN
       \/ /\ ~bkRun[r].cancelled /\ UNCHANGED bkExcuse
          /\ bkRow' = [bkRow EXCEPT ![b] = [@ EXCEPT !.status = "succeeded", !.path = b, !.hash = bkRun[r].content,
                                                     !.key = bkRun[r].key]]
          /\ bkRun' = [bkRun EXCEPT ![r].pc = "verify"]
       \/ FailRows(r, {b}) /\ bkRun' = [bkRun EXCEPT ![r] = Done(r)]
    /\ UNCHANGED <<bkNext, bkBlob, bkRet, bkDel, bkWorld>>

(* VerifyBackup fetches, decrypts and lists the blob with the service's    *)
(* key; the row stays succeeded whatever comes out.  Without pg_restore,   *)
(* or when the outcome cannot be written, the row says nothing.            *)
VerifyBackup(r) ==
    /\ bkRun[r].pc = "verify"
    /\ LET b == Current(r)  t == bkRow[b].target IN
       /\ \E v \in {bkRow[b].verify} \union (IF bkRun[r].cancelled THEN {} ELSE
                                           IF b \in DOMAIN bkBlob[t] THEN {"ok", "bad"} ELSE {"bad"}) :
            bkRow' = [bkRow EXCEPT ![b] = [@ EXCEPT !.verify = v]]
       /\ bkRun' = [bkRun EXCEPT ![r] = Done(r)]
    /\ UNCHANGED <<bkNext, bkBlob, bkRet, bkDel, bkWorld, bkExcuse>>

(* Mutant of Succeeded: retention counts the failed rows as kept.          *)
SucceededOrFailed(t) == {i \in Rows : bkRow[i].status \in {"succeeded", "failed"} /\ bkRow[i].target = t}

(* ListSucceededByTargetOldestFirst.                                       *)
Succeeded(t) == {i \in Rows : Is(i, "succeeded") /\ bkRow[i].target = t}

(* RunRetention, for each target of the tick's run, failed or not: the     *)
(* rows older than the newest Keep are to be deleted, if they can be read. *)
RunRetention(t) ==
    /\ bkRun[Scheduler].pc = "retain" /\ bkRet.pc = "idle" /\ t \in bkRun[Scheduler].targets
    /\ LET todo == {i \in Succeeded(t) : Cardinality({j \in Succeeded(t) : j > i}) >= Keep} IN
       \/ bkRet' = IdleRet
       \/ todo # {} /\ ~bkRun[Scheduler].cancelled /\ bkRet' = [pc |-> "count", target |-> t, todo |-> todo]
    /\ bkRun' = [bkRun EXCEPT ![Scheduler].targets = @ \ {t}]
    /\ UNCHANGED <<bkRow, bkNext, bkBlob, bkDel, bkWorld, bkExcuse>>

RunTickEnds ==
    /\ bkRun[Scheduler].pc = "retain" /\ bkRet.pc = "idle" /\ bkRun[Scheduler].targets = {}
    /\ bkRun' = [bkRun EXCEPT ![Scheduler] = IdleRun]
    /\ UNCHANGED <<bkRow, bkNext, bkBlob, bkRet, bkDel, bkWorld, bkExcuse>>

(* Mutant of References: nobody counts.                                    *)
NoReferences(t, p, b) == {}

(* CountOtherActiveByTargetPath.                                           *)
References(t, p, b) == {i \in Rows \ {b} : /\ bkRow[i].status \notin {"none", "deleted"}
                                           /\ bkRow[i].target = t /\ bkRow[i].path = p}

(* The references to the oldest row's blob are counted; on an error, or    *)
(* when there are some, the blob is kept.                                  *)
RetentionCounts ==
    /\ bkRet.pc = "count"
    /\ LET b == Min(bkRet.todo) IN
       \E ok \in {FALSE, ~bkRun[Scheduler].cancelled} :
         bkRet' = [bkRet EXCEPT !.pc = IF ok /\ References(bkRet.target, bkRow[b].path, b) = {} THEN "blob" ELSE "mark"]
    /\ UNCHANGED <<bkRow, bkNext, bkBlob, bkRun, bkDel, bkWorld, bkExcuse>>

RetentionDeletesBlob ==
    /\ bkRet.pc = "blob"
    /\ LET p == bkRow[Min(bkRet.todo)].path  t == bkRet.target IN
       \/ bkBlob' = [bkBlob EXCEPT ![t] = [q \in DOMAIN @ \ {p} |-> @[q]]]
       \/ UNCHANGED bkBlob                                              \* target.Delete failed
    /\ bkRet' = [bkRet EXCEPT !.pc = "mark"]
    /\ UNCHANGED <<bkRow, bkNext, bkRun, bkDel, bkWorld, bkExcuse>>

(* The blob of the row retention was at may be gone, the row is not.       *)
Halfway == {<<bkRet.target, bkRow[Min(bkRet.todo)].path>> : x \in {bkRet.pc} \intersect {"mark"}}

(* A row that cannot be marked ends the retention of this target.          *)
RetentionMarks ==
    /\ bkRet.pc = "mark"
    /\ \/ /\ ~bkRun[Scheduler].cancelled /\ UNCHANGED bkExcuse
          /\ bkRow' = With(Min(bkRet.todo), "deleted")
          /\ bkRet' = IF Cardinality(bkRet.todo) = 1 THEN IdleRet
                      ELSE [bkRet EXCEPT !.pc = "count", !.todo = @ \ {Min(@)}]
       \/ /\ bkRet' = IdleRet /\ bkExcuse' = [bkExcuse EXCEPT !.paths = @ \union Halfway]
          /\ UNCHANGED bkRow
    /\ UNCHANGED <<bkNext, bkBlob, bkRun, bkDel, bkWorld>>

(* DeleteBackup removes the blob at the row's path, shared or not, then    *)
(* marks the row deleted, whatever its status was.                         *)
DeleteBackup(i) ==
    /\ bkDel = 0 /\ bkRow[i].status \notin {"none", "deleted"}
    /\ LET t == bkRow[i].target  p == bkRow[i].path IN
       \/ /\ p # 0 /\ bkBlob' = [bkBlob EXCEPT ![t] = [q \in DOMAIN @ \ {p} |-> @[q]]]
          /\ bkExcuse' = [bkExcuse EXCEPT !.paths = @ \union {<<t, p>>}, !.targets = @ \union {t}]
       \/ /\ UNCHANGED bkBlob                                           \* no path yet, or target.Delete failed
          /\ bkExcuse' = [bkExcuse EXCEPT !.targets = @ \union {t}]
    /\ bkDel' = i
    /\ UNCHANGED <<bkRow, bkNext, bkRun, bkRet, bkWorld>>

DeleteBackupMarks ==
    /\ bkDel # 0 /\ bkRow' = With(bkDel, "deleted") /\ bkDel' = 0
    /\ UNCHANGED <<bkNext, bkBlob, bkRun, bkRet, bkWorld, bkExcuse>>

(* ResetStaleRunning: rows running for over an hour become failed, the     *)
(* younger ones and the pending ones stay as they are.                     *)
ResetStaleRunning ==
    \E stale \in SUBSET {i \in Rows : Is(i, "running")} :
       bkRow' = [i \in Rows |-> IF i \in stale THEN [bkRow[i] EXCEPT !.status = "failed"] ELSE bkRow[i]]

(* The process ends and Bootstrap runs.                                    *)
CrashAndBootstrap ==
    /\ \E r \in Runs : bkRun[r] # IdleRun
    /\ ResetStaleRunning
    /\ bkRun' = [r \in Runs |-> IdleRun] /\ bkRet' = IdleRet /\ bkDel' = 0
    /\ bkExcuse' = [bkExcuse EXCEPT !.orphans = {i \in Rows : bkRow[i].status \in {"pending", "running"}},
                                     !.paths = @ \union Halfway]
    /\ UNCHANGED <<bkNext, bkBlob, bkWorld>>

(* The feature is armed anew, with the same key or another: Bootstrap runs *)
(* beside the runs of the service before, and the scheduler of that one is *)
(* cancelled.  Runs go on with the key they have.  Disarm and shutdown     *)
(* cancel alike; the next scheduler starts after the cancelled run.        *)
Rearm ==
    /\ \E k \in {bkWorld.key, bkWorld.key + 1} :
         /\ k <= MaxKeys /\ bkWorld' = [bkWorld EXCEPT !.key = k]
         /\ k # bkWorld.key \/ (bkRun[Scheduler] # IdleRun /\ ~bkRun[Scheduler].cancelled)
    /\ ResetStaleRunning
    /\ bkRun' = [bkRun EXCEPT ![Scheduler].cancelled = @ \/ bkRun[Scheduler] # IdleRun]
    /\ UNCHANGED <<bkNext, bkBlob, bkRet, bkDel, bkExcuse>>

(* The instance's data change.                                             *)
WorldChanges ==
    /\ \E c \in Contents \ {bkWorld.content} : bkWorld' = [bkWorld EXCEPT !.content = c]
    /\ UNCHANGED <<bkRow, bkNext, bkBlob, bkRun, bkRet, bkDel, bkExcuse>>

RunNext ==
    \/ \E r \in Runs : \/ PrepareGroup(r) \/ MarkBackupRunning(r) \/ BuildSealedBundle(r) \/ SealBundle(r) \/ FindDedupTarget(r)
                       \/ MarkBackupDeduped(r) \/ WriteBundleToTarget(r) \/ MarkBackupSucceeded(r) \/ VerifyBackup(r)
    \/ \E t \in RunTargets : RunRetention(t)
    \/ RunTickEnds \/ RetentionCounts \/ RetentionDeletesBlob \/ RetentionMarks
    \/ \E i \in Rows : DeleteBackup(i)
    \/ DeleteBackupMarks \/ CrashAndBootstrap \/ Rearm \/ WorldChanges

Good(i) == Is(i, "succeeded")

RunTypeOK ==
    /\ \A i \in Rows : bkRow[i].status \in {"none", "pending", "running", "succeeded", "failed", "deleted"}
    /\ \A i \in Rows : i < bkNext <=> ~Is(i, "none")
    /\ \A r \in Runs : bkRun[r].rows \subseteq 1..(bkNext - 1)

(* A succeeded backup can be fetched: its blob is at its target, however   *)
(* runs, deduplication and retention interleave.  Retention never takes    *)
(* the blob a kept row shares.  Three holes are excepted: the operator     *)
(* deleted a row with that blob, the row it is shared from was being       *)
(* deleted between FindDedupTarget and MarkBackupDeduped, or a crash, a    *)
(* cancelled context or a failing write hit retention between the blob and *)
(* the row.                                                                *)
KeptIsFetchable ==
    \A i \in Rows : Good(i) => \/ bkRow[i].path \in DOMAIN bkBlob[bkRow[i].target]
                               \/ <<bkRow[i].target, bkRow[i].path>> \in bkExcuse.paths
                               \/ bkRet.pc = "mark" /\ i = Min(bkRet.todo)

(* The same without the exceptions for shared blobs: what retention.go     *)
(* takes care of ("otherwise a retained deduped backup would be left       *)
(* dangling").                                                             *)
NoneDangles ==
    \A i \in Rows : Good(i) => \/ bkRow[i].path \in DOMAIN bkBlob[bkRow[i].target]
                               \/ bkRet.pc = "mark" /\ i = Min(bkRet.todo)
                               \/ bkDel = i

(* The key fingerprint in a row is that of the key its blob was sealed     *)
(* with, so the operator looks for the right passphrase, also for a row    *)
(* that shares a blob from before the key was changed.                     *)
FingerprintTrue ==
    \A i \in Rows : (Good(i) /\ bkRow[i].path \in DOMAIN bkBlob[bkRow[i].target])
                      => bkBlob[bkRow[i].target][bkRow[i].path] = bkRow[i].key

(* Retention never leaves a target without a good backup: where one        *)
(* succeeded and no row was deleted by hand, one is still there; failed    *)
(* runs do not push it out.                                                *)
LastGoodKept ==
    \A t \in RunTargets : (Keep > 0 /\ t \notin bkExcuse.targets /\ \E i \in Rows : Is(i, "deleted") /\ bkRow[i].target = t)
                          => \E i \in Rows : Good(i) /\ bkRow[i].target = t

(* A row that shares a blob never shares one whose verification had failed *)
(* when it was chosen.                                                     *)
SharesNoBadBlob == \A i \in Rows : (Good(i) /\ bkRow[i].deduped) => bkRow[i].verify # "bad"

(* One target that is down fails its own row only, and a run that is       *)
(* cancelled in the middle settles what it still can: a row stays pending  *)
(* or running with nobody at work on it only after a crash, or because the *)
(* write that should have failed it was itself refused.                    *)
EveryRowSettled ==
    \A i \in Rows : bkRow[i].status \in {"pending", "running"}
                       => i \in bkExcuse.orphans \/ \E r \in Runs : i \in bkRun[r].rows

(* The same without the exceptions: what prepareGroup takes care of        *)
(* ("Don't leave the rows inserted before this one stuck in 'pending'      *)
(* forever").                                                              *)
NoneStuck ==
    \A i \in Rows : bkRow[i].status \in {"pending", "running"} => \E r \in Runs : i \in bkRun[r].rows

-----------------------------------------------------------------------------
(***************************************************************************)
(* Backup targets and schedules (backup/service.go, store.go): rows in the *)
(* database, a registry of live target implementations in the process, and *)
(* a schedule that two schedulers may try to claim.  Admin calls touch row *)
(* and registry in separate steps.  A configuration is a version number.   *)
(***************************************************************************)

targetVars == <<tgRow, tgImpl, tgCall, tgVer, tgList, tgDue, tgRun, tgCount, tgExcuse>>
tgSchedule == <<tgList, tgDue, tgRun, tgCount>>

TargetNoCall == [pc |-> "idle", t |-> CHOOSE t \in TargetTargets : TRUE, cfg |-> 0]
Busy == {a \in TargetAdmins : tgCall[a].pc # "idle"}

TargetInit ==
    /\ tgRow = [t \in TargetTargets |-> [cfg |-> 0, on |-> FALSE]] /\ tgImpl = [t \in TargetTargets |-> 0]
    /\ tgCall = [a \in TargetAdmins |-> TargetNoCall] /\ tgVer = 0 /\ tgExcuse = {}
    /\ tgList = <<>> /\ tgDue = FALSE /\ tgRun = [k \in Ticks |-> <<>>]
    /\ tgCount = [due |-> 0, claimed |-> 0]

Step(a, call) == tgCall' = [tgCall EXCEPT ![a] = call]
Begins(a, t) == tgCall[a].pc = "idle" /\ tgExcuse' = tgExcuse \union ({t} \intersect {tgCall[b].t : b \in Busy})

(* CreateTarget instantiates, inserts the row, then enters the registry.   *)
CreateTarget(a, t, on) ==
    /\ Begins(a, t) /\ tgRow[t].cfg = 0 /\ tgVer < MaxVersion /\ tgVer' = tgVer + 1
    /\ tgRow' = [tgRow EXCEPT ![t] = [cfg |-> tgVer', on |-> on]]
    /\ Step(a, IF on THEN [pc |-> "set", t |-> t, cfg |-> tgVer'] ELSE TargetNoCall)
    /\ UNCHANGED <<tgImpl, tgSchedule>>

(* UpdateTarget writes the configuration and the enabled flag.             *)
UpdateTarget(a, t, on) ==
    /\ Begins(a, t) /\ tgRow[t].cfg # 0 /\ tgVer < MaxVersion /\ tgVer' = tgVer + 1
    /\ tgRow' = [tgRow EXCEPT ![t] = [cfg |-> tgVer', on |-> on]]
    /\ Step(a, [pc |-> "reread", t |-> t, cfg |-> 0])
    /\ UNCHANGED <<tgImpl, tgSchedule>>

(* Mutant of Reread: the registry keeps what it has.                       *)
RereadIgnores(a) ==
    /\ tgCall[a].pc = "reread" /\ Step(a, TargetNoCall)
    /\ UNCHANGED <<tgRow, tgImpl, tgVer, tgExcuse, tgSchedule>>

(* The row is read again; an enabled target is instantiated, a disabled    *)
(* one keeps its registry entry.                                           *)
Reread(a) ==
    LET r == tgRow[tgCall[a].t] IN
    /\ tgCall[a].pc = "reread"
    /\ Step(a, IF r.cfg # 0 /\ r.on THEN [tgCall[a] EXCEPT !.pc = "set", !.cfg = r.cfg] ELSE TargetNoCall)
    /\ UNCHANGED <<tgRow, tgImpl, tgVer, tgExcuse, tgSchedule>>

InstantiateFails(a) ==
    /\ tgCall[a].pc = "reread" /\ tgRow[tgCall[a].t].on /\ Step(a, TargetNoCall) /\ tgExcuse' = tgExcuse \union {tgCall[a].t}
    /\ UNCHANGED <<tgRow, tgImpl, tgVer, tgSchedule>>

RegistrySet(a) ==
    /\ tgCall[a].pc = "set" /\ Step(a, TargetNoCall)
    /\ tgImpl' = [tgImpl EXCEPT ![tgCall[a].t] = tgCall[a].cfg]
    /\ UNCHANGED <<tgRow, tgVer, tgExcuse, tgSchedule>>

(* DeleteTarget: the database refuses while the schedule's primary target  *)
(* is this one; a target further down the list is not protected.           *)
DeleteTarget(a, t) ==
    /\ Begins(a, t) /\ tgRow[t].cfg # 0 /\ (tgList # <<>> => Head(tgList) # t)
    /\ tgRow' = [tgRow EXCEPT ![t] = [cfg |-> 0, on |-> FALSE]]
    /\ Step(a, [pc |-> "remove", t |-> t, cfg |-> 0])
    /\ UNCHANGED <<tgImpl, tgVer, tgSchedule>>

(* Mutant of RegistryRemove: the registry entry outlives the row.          *)
RegistryKeeps(a) ==
    /\ tgCall[a].pc = "remove" /\ Step(a, TargetNoCall)
    /\ UNCHANGED <<tgRow, tgImpl, tgVer, tgExcuse, tgSchedule>>

RegistryRemove(a) ==
    /\ tgCall[a].pc = "remove" /\ Step(a, TargetNoCall)
    /\ tgImpl' = [tgImpl EXCEPT ![tgCall[a].t] = 0]
    /\ UNCHANGED <<tgRow, tgVer, tgExcuse, tgSchedule>>

(* CreateSchedule and UpdateSchedule: every target must be in the          *)
(* registry, and the foreign key wants the row of the first.               *)
CreateSchedule(ids) ==
    /\ \A i \in DOMAIN ids : tgImpl[ids[i]] # 0
    /\ tgRow[Head(ids)].cfg # 0 /\ tgList # ids /\ tgCount.due < MaxDue
    /\ tgList' = ids
    /\ IF tgList = <<>> THEN tgDue' = TRUE /\ tgCount' = [tgCount EXCEPT !.due = @ + 1] ELSE UNCHANGED <<tgDue, tgCount>>
    /\ UNCHANGED <<tgRow, tgImpl, tgCall, tgVer, tgRun, tgExcuse>>

DeleteSchedule ==
    /\ tgList # <<>> /\ tgList' = <<>> /\ tgDue' = FALSE
    /\ UNCHANGED <<tgRow, tgImpl, tgCall, tgVer, tgRun, tgCount, tgExcuse>>

IntervalPasses ==
    /\ tgList # <<>> /\ ~tgDue /\ tgCount.due < MaxDue
    /\ tgDue' = TRUE /\ tgCount' = [tgCount EXCEPT !.due = @ + 1]
    /\ UNCHANGED <<tgRow, tgImpl, tgCall, tgVer, tgList, tgRun, tgExcuse>>

(* Mutant of ClaimDueSchedule: next_run_at is left to the end of the run.  *)
ClaimLeavesDue(k) ==
    /\ tgRun[k] = <<>> /\ tgDue /\ tgRun' = [tgRun EXCEPT ![k] = tgList]
    /\ tgCount' = [tgCount EXCEPT !.claimed = @ + 1]
    /\ UNCHANGED <<tgRow, tgImpl, tgCall, tgVer, tgList, tgDue, tgExcuse>>

(* One transaction picks the due schedule and moves next_run_at on.        *)
ClaimDueSchedule(k) ==
    /\ tgRun[k] = <<>> /\ tgDue /\ tgRun' = [tgRun EXCEPT ![k] = tgList]
    /\ tgDue' = FALSE /\ tgCount' = [tgCount EXCEPT !.claimed = @ + 1]
    /\ UNCHANGED <<tgRow, tgImpl, tgCall, tgVer, tgList, tgExcuse>>

(* The backups of the list run, or none when one target is unknown.        *)
TargetTickEnds(k) ==
    /\ tgRun[k] # <<>> /\ tgRun' = [tgRun EXCEPT ![k] = <<>>]
    /\ UNCHANGED <<tgRow, tgImpl, tgCall, tgVer, tgList, tgDue, tgCount, tgExcuse>>

(* Bootstrap after a restart: loadTargets enters the enabled rows and      *)
(* skips those it cannot instantiate.                                      *)
Bootstrap ==
    /\ \E skipped \in SUBSET {t \in TargetTargets : tgRow[t].on} :
         /\ tgImpl' = [t \in TargetTargets |-> IF tgRow[t].on /\ t \notin skipped THEN tgRow[t].cfg ELSE 0]
         /\ tgExcuse' = skipped
    /\ tgCall' = [a \in TargetAdmins |-> TargetNoCall] /\ tgRun' = [k \in Ticks |-> <<>>]
    /\ UNCHANGED <<tgRow, tgVer, tgList, tgDue, tgCount>>

TargetNext ==
    \/ \E a \in TargetAdmins : \/ \E t \in TargetTargets : \/ DeleteTarget(a, t)
                                               \/ \E on \in BOOLEAN : CreateTarget(a, t, on) \/ UpdateTarget(a, t, on)
                         \/ Reread(a) \/ InstantiateFails(a) \/ RegistrySet(a) \/ RegistryRemove(a)
    \/ \E ids \in Lists : CreateSchedule(ids)
    \/ DeleteSchedule \/ IntervalPasses \/ Bootstrap
    \/ \E k \in Ticks : ClaimDueSchedule(k) \/ TargetTickEnds(k)

TargetTypeOK == /\ tgRow \in [TargetTargets -> [cfg : 0..MaxVersion, on : BOOLEAN]]
          /\ tgImpl \in [TargetTargets -> 0..MaxVersion] /\ tgList \in Lists \union {<<>>}

(* At rest a backup to an enabled target is written with the configuration *)
(* the operator last saved, whatever happens to other targets meanwhile.   *)
(* Excepted are targets with calls that overlapped, or with a              *)
(* configuration that could not be instantiated, when it was saved or when *)
(* the process started: those keep an older one or are not served.         *)
FreshConfig ==
    Busy = {} => \A t \in TargetTargets \ tgExcuse : tgRow[t].on => tgImpl[t] = tgRow[t].cfg

(* At rest nothing is written to a target that was deleted.                *)
DeletedIsGone == Busy = {} => \A t \in TargetTargets \ tgExcuse : tgRow[t].cfg = 0 => tgImpl[t] = 0

(* Two schedulers never run the same due backup: a schedule is claimed at  *)
(* most once for each time it falls due.                                   *)
ClaimedOnce == tgCount.claimed <= tgCount.due

-----------------------------------------------------------------------------
(***************************************************************************)
(* Turning backups on and off (backup/live.go, keyfile.go,                 *)
(* setup_handler.go): the passphrase is kept in the environment or in a    *)
(* key file, the armed Service and its scheduler are swapped as one        *)
(* pointer, and admin calls write, arm, roll back and disarm in steps that *)
(* no lock holds together.  A key is the number of the call that made it.  *)
(***************************************************************************)

keyVars == <<kyEnv, kyFile, kyLive, kySched, kyCall, kyReq, kyCalls, kyExcuse>>

EnvKey == 99
KeyNoCall == [pc |-> "idle", key |-> 0, over |-> FALSE, saw |-> 0]

(* LoadPassphrase: the variable with the key, the file another variable    *)
(* names, or the default key file, in this order.  EnvKey is the key the   *)
(* environment gives either way.                                           *)
Boot(file) == IF kyEnv = "none" THEN file ELSE EnvKey

KeyInit ==
    /\ kyEnv \in {"none", "env", "override"} /\ kyFile = 0
    /\ kyLive = Boot(0) /\ kySched = {Boot(0)} \ {0}
    /\ kyCall = [a \in KeyAdmins |-> KeyNoCall] /\ kyReq = [r \in Requests |-> "idle"]
    /\ kyCalls = 0 /\ kyExcuse = {}

Begin(a, call) ==
    /\ kyCall[a].pc = "idle" /\ kyCalls < MaxCalls /\ kyCalls' = kyCalls + 1
    /\ kyCall' = [kyCall EXCEPT ![a] = call]
    /\ kyExcuse' = kyExcuse \union {"overlap" : b \in {b \in KeyAdmins : kyCall[b].pc # "idle"}}
                            \union ({kyEnv} \intersect {"override"})
End(a) == kyCall' = [kyCall EXCEPT ![a] = KeyNoCall]

(* Mutant of SetupChecks: the key file is not looked at.                   *)
SetupChecksNothing(a, over) ==
    /\ kyEnv # "env"
    /\ Begin(a, [pc |-> "checked", key |-> kyCalls + 1, over |-> over, saw |-> kyFile])
    /\ UNCHANGED <<kyEnv, kyFile, kyLive, kySched, kyReq>>

(* setup refuses an instance whose key is in its environment, but not one  *)
(* whose key file is; WriteKeyFile refuses a default key file that exists  *)
(* unless the request says overwrite.                                      *)
SetupChecks(a, over) ==
    /\ kyEnv # "env" /\ (over \/ kyFile = 0)
    /\ Begin(a, [pc |-> "checked", key |-> kyCalls + 1, over |-> over, saw |-> kyFile])
    /\ UNCHANGED <<kyEnv, kyFile, kyLive, kySched, kyReq>>

(* The temporary file is renamed over the key file.                        *)
WriteKeyFile(a) ==
    /\ kyCall[a].pc = "checked"
    /\ kyFile' = kyCall[a].key /\ kyCall' = [kyCall EXCEPT ![a].pc = "written"]
    /\ UNCHANGED <<kyEnv, kyLive, kySched, kyReq, kyCalls, kyExcuse>>

WriteKeyFileFails(a) ==
    /\ kyCall[a].pc = "checked" /\ End(a)
    /\ UNCHANGED <<kyEnv, kyFile, kyLive, kySched, kyReq, kyCalls, kyExcuse>>

(* Mutant of ArmWithService: the scheduler of the old key goes on.         *)
ArmKeepsOld(a) ==
    /\ kyCall[a].pc = "written" /\ End(a)
    /\ kyLive' = kyCall[a].key /\ kySched' = kySched \union {kyCall[a].key}
    /\ UNCHANGED <<kyEnv, kyFile, kyReq, kyCalls, kyExcuse>>

(* Arm: a new Service, then under armMu a scheduler for it, the swap of    *)
(* the pointer, and the end of the scheduler that was there.               *)
ArmWithService(a) ==
    /\ kyCall[a].pc = "written" /\ End(a)
    /\ kyLive' = kyCall[a].key /\ kySched' = (kySched \union {kyCall[a].key}) \ {kyLive}
    /\ UNCHANGED <<kyEnv, kyFile, kyReq, kyCalls, kyExcuse>>

(* Mutant of ArmFails: the key file stays.                                 *)
ArmFailsKeepsFile(a) ==
    /\ kyCall[a].pc = "written" /\ End(a)
    /\ UNCHANGED <<kyEnv, kyFile, kyLive, kySched, kyReq, kyCalls, kyExcuse>>

(* The Service cannot be built or bootstrapped: setup removes the key      *)
(* file, which after an overwrite held the key of the service that is      *)
(* still armed before.                                                     *)
ArmFails(a) ==
    /\ kyCall[a].pc = "written" /\ End(a) /\ kyFile' = 0
    /\ kyExcuse' = IF kyLive # 0 THEN kyExcuse \union {"failed rotation"} ELSE kyExcuse
    /\ UNCHANGED <<kyEnv, kyLive, kySched, kyReq, kyCalls>>

DisableRemovesFile(a) ==
    /\ kyEnv # "env" /\ Begin(a, [KeyNoCall EXCEPT !.pc = "removed"]) /\ kyFile' = 0
    /\ UNCHANGED <<kyEnv, kyLive, kySched, kyReq>>

Disarm(a) ==
    /\ kyCall[a].pc = "removed" /\ End(a)
    /\ kyLive' = 0 /\ kySched' = kySched \ {kyLive}
    /\ UNCHANGED <<kyEnv, kyFile, kyReq, kyCalls, kyExcuse>>

(* requireArmed looks at the pointer; the handler behind it loads it again *)
(* and uses what it gets.                                                  *)
RequireArmed(r) ==
    /\ kyReq[r] = "idle" /\ kyLive # 0 /\ kyReq' = [kyReq EXCEPT ![r] = "passed"]
    /\ UNCHANGED <<kyEnv, kyFile, kyLive, kySched, kyCall, kyCalls, kyExcuse>>

Handle(r) ==
    /\ kyReq[r] = "passed" /\ kyReq' = [kyReq EXCEPT ![r] = IF kyLive = 0 THEN "panic" ELSE "idle"]
    /\ UNCHANGED <<kyEnv, kyFile, kyLive, kySched, kyCall, kyCalls, kyExcuse>>

(* The process ends anywhere and starts again, armed with what             *)
(* LoadPassphrase finds.                                                   *)
Restart ==
    /\ kyLive' = Boot(kyFile) /\ kySched' = {Boot(kyFile)} \ {0}
    /\ kyCall' = [a \in KeyAdmins |-> KeyNoCall] /\ kyReq' = [r \in Requests |-> "idle"]
    /\ kyExcuse' = {}
    /\ UNCHANGED <<kyEnv, kyFile, kyCalls>>

KeyNext ==
    \/ \E a \in KeyAdmins : \/ \E over \in BOOLEAN : SetupChecks(a, over)
                         \/ WriteKeyFile(a) \/ WriteKeyFileFails(a)
                         \/ ArmWithService(a) \/ ArmFails(a)
                         \/ DisableRemovesFile(a) \/ Disarm(a)
    \/ \E r \in Requests : RequireArmed(r) \/ Handle(r)
    \/ Restart

KeyTypeOK == /\ kyFile \in 0..MaxCalls /\ kyLive \in 0..MaxCalls \union {EnvKey}
          /\ kyReq \in [Requests -> {"idle", "passed", "panic"}]

(* Whatever calls overlap, fail or are cut off by a restart, exactly one   *)
(* scheduler runs while backups are armed, with the key that is armed, and *)
(* none when they are not: no backup is sealed with a key that is no       *)
(* longer the instance's.                                                  *)
OneScheduler == kySched = {kyLive} \ {0}

(* At rest the armed key is the one a restart would find.  Excepted are    *)
(* overlapping calls, a rotation whose arming failed (setup then removes   *)
(* the file although the old service stays armed), and calls on an         *)
(* instance started with OPENDRAY_BACKUP_KEY_FILE: they write and remove   *)
(* the default file, a restart reads the other one.                        *)
SurvivesRestart ==
    ((\A a \in KeyAdmins : kyCall[a].pc = "idle") /\ kyExcuse = {}) => kyLive = Boot(kyFile)

(* The same for every installation that made one call at a time and whose  *)
(* calls armed: the guard of setup is there so that no file is written     *)
(* that "would be effectively dead" after the next boot.                   *)
SetUpSurvivesRestart ==
    ((\A a \in KeyAdmins : kyCall[a].pc = "idle") /\ kyExcuse \subseteq {"override"}) => kyLive = Boot(kyFile)

ReplacedOnPurposeStep ==
    (kyFile # 0 /\ kyFile' # 0 /\ kyFile' # kyFile) =>
          \E a \in KeyAdmins : kyCall[a].pc = "checked" /\ (kyCall[a].over \/ kyCall[a].saw # kyFile)

(* A key file that holds a key is replaced by another only when the        *)
(* request said overwrite, or the file appeared after the call looked.     *)
ReplacedOnPurpose == [][ReplacedOnPurposeStep]_keyVars

(* A request finds the service it was let in for, unless backups were      *)
(* disabled meanwhile.                                                     *)
NoNilService == \A r \in Requests : kyReq[r] # "panic"

-----------------------------------------------------------------------------
vars == <<runVars, targetVars, keyVars>>

Init == RunInit /\ TargetInit /\ KeyInit

(* The parts share no state: a step of one leaves the others alone.        *)
Next ==
    \/ "run" \in Parts /\ RunNext /\ UNCHANGED <<targetVars, keyVars>>
    \/ "target" \in Parts /\ TargetNext /\ UNCHANGED <<runVars, keyVars>>
    \/ "key" \in Parts /\ KeyNext /\ UNCHANGED <<runVars, targetVars>>

Spec == Init /\ [][Next]_vars

TypeOK == RunTypeOK /\ TargetTypeOK /\ KeyTypeOK
=============================================================================
