----------------------------- MODULE SelfUpdate -----------------------------
(***************************************************************************)
(* In-dashboard upgrades (app/version_handler.go, selfupdate/selfupdate.go,*)
(* cmd/opendray/selfupdate.go and update.go): the daemon queues a request  *)
(* file, a privileged oneshot applies it with the code of `opendray        *)
(* update`, which an operator may also run by hand.  A file on disk is an  *)
(* inode, so that two updaters that open the same path share it.  Nothing  *)
(* here calls fsync: until the kernel has written back, a host that goes   *)
(* down keeps any part of the data and either version of a name.           *)
(***************************************************************************)
EXTENDS Naturals, FiniteSets

CONSTANTS
    Admins,      \* dashboard requests under way
    Sessions,    \* live sessions there may be
    MaxVersion,  \* versions, 1 the one installed
    MaxAsks,     \* bound: dashboard requests and runs by hand
    MaxWorld,    \* bound: releases, withdrawals, sessions started
    MaxFails,    \* bound: fetches, downloads and restarts that fail
    MaxCrashes   \* bound: reboots of the host

VARIABLES
    suLatest,    \* the latest release
    suSums,      \* the release has SHA256SUMS
    suIn,        \* inode -> [v, whole, mixed], mixed: two releases in it, or a copy broken off
    suTarget,    \* inode of the installed binary
    suNew,       \* inode at the path with ".new", 0 for none
    suNext,      \* next inode
    suDirty,     \* inodes whose data is not yet on the disk, 0 the request's
    suKept,      \* names as they are on the disk: [target, file]
    suDaemon,    \* version the daemon runs
    suLive,      \* live sessions
    suFile,      \* request file: {} or {[id, force, live, torn]}
    suReq,       \* dashboard request -> [pc, force, live]
    suUpd,       \* "unit", "hand" -> an update run
    suAsks, suWorld, suFails, suCrashes,
    suDone,      \* history: requests accepted and not yet read by the oneshot
    suRaced,     \* history: two dashboard requests overlapped
    suShared,    \* history: two updaters copied at a time
    suBlind,     \* history: something was installed without a checksum
    suCut,       \* history: sessions an unforced upgrade cut that were live when it was asked for
    suDeaf,      \* history: "already on the latest" said of a daemon that is not
    suOlder,     \* history: an older version replaced a newer one
    suEarly      \* history: what was not on the disk when the host went down

vars == <<suLatest, suSums, suIn, suTarget, suNew, suNext, suDirty, suKept, suDaemon, suLive, suFile, suReq, suUpd, suAsks, suWorld, suFails, suCrashes, suDone, suRaced, suShared, suBlind, suCut, suDeaf, suOlder, suEarly>>
disk == <<suIn, suTarget, suNew, suNext, suDirty, suKept>>
world == <<suLatest, suSums, suWorld>>
past == <<suRaced, suShared, suBlind, suCut, suDeaf, suOlder, suEarly>>

Updaters == {"unit", "hand"}
NoRequest == [pc |-> "idle", force |-> FALSE, live |-> {}]
NoRun == [pc |-> "idle", own |-> 0, v |-> 0, good |-> FALSE, force |-> FALSE, restart |-> FALSE, ino |-> 0, live |-> {}]
Inodes == 1..(MaxAsks + MaxCrashes + 2)

Init ==
    /\ suLatest = 1 /\ suSums \in BOOLEAN
    /\ suIn = [i \in Inodes |-> [v |-> IF i = 1 THEN 1 ELSE 0, whole |-> i = 1, mixed |-> FALSE]] /\ suTarget = 1 /\ suNew = 0 /\ suNext = 2
    /\ suDirty = {} /\ suKept = [target |-> 1, file |-> {}]
    /\ suDaemon = 1 /\ suLive = {} /\ suFile = {} /\ suReq = [a \in Admins |-> NoRequest] /\ suUpd = [u \in Updaters |-> NoRun]
    /\ suAsks = 0 /\ suWorld = 0 /\ suFails = 0 /\ suCrashes = 0
    /\ suDone = {} /\ suRaced = FALSE /\ suShared = FALSE /\ suBlind = FALSE /\ suCut = {} /\ suDeaf = FALSE /\ suOlder = FALSE /\ suEarly = {}

(* Releases appear and are withdrawn, sessions start and end.              *)
World ==
    /\ suWorld < MaxWorld /\ suWorld' = suWorld + 1
    /\ \/ \E v \in 1..MaxVersion : v # suLatest /\ suLatest' = v /\ UNCHANGED suLive
       \/ \E s \in Sessions : suLive' = (IF s \in suLive THEN suLive \ {s} ELSE suLive \union {s}) /\ UNCHANGED suLatest
    /\ UNCHANGED <<suSums, disk, suDaemon, suFile, suReq, suUpd, suAsks, suFails, suCrashes, suDone, past>>

(* Mutant of PendingRequest: nobody looks.                                 *)
PendingRequestNever == FALSE
PendingRequest == suFile # {}
(* Mutant of Drained: one session is not worth a question.                 *)
DrainedAlmost(force) == force \/ Cardinality(suLive) < 2
Drained(force) == force \/ suLive = {}

(* requestUpdate: nothing pending, no live session unless forced; then the *)
(* release feed is asked, and the request is written and renamed in place. *)
RequestChecks(a, force) ==
    /\ suReq[a].pc = "idle" /\ suDaemon # 0 /\ suAsks < MaxAsks /\ ~PendingRequest /\ Drained(force) /\ suAsks' = suAsks + 1
    /\ suReq' = [suReq EXCEPT ![a] = [pc |-> "feed", force |-> force, live |-> suLive]]
    /\ suRaced' = (suRaced \/ \E b \in Admins : suReq[b].pc # "idle")
    /\ UNCHANGED <<world, disk, suDaemon, suLive, suFile, suUpd, suFails, suCrashes, suDone, suShared, suBlind, suCut, suDeaf, suOlder, suEarly>>
RequestFeed(a) ==
    /\ suReq[a].pc = "feed"
    /\ \/ suReq' = [suReq EXCEPT ![a] = IF suLatest # suDaemon \/ @.force THEN [@ EXCEPT !.pc = "write"] ELSE NoRequest] /\ UNCHANGED suFails
       \/ suFails < MaxFails /\ suFails' = suFails + 1 /\ suReq' = [suReq EXCEPT ![a] = NoRequest]
    /\ UNCHANGED <<world, disk, suDaemon, suLive, suFile, suUpd, suAsks, suCrashes, suDone, past>>
RequestWrites(a) ==
    LET q == suReq[a] IN
    /\ q.pc = "write" /\ suReq' = [suReq EXCEPT ![a] = NoRequest]
    /\ suFile' = {[id |-> suAsks, force |-> q.force, live |-> q.live, torn |-> FALSE]} /\ suDone' = suDone \union {suAsks}
    /\ suDirty' = suDirty \union {0}
    /\ UNCHANGED <<world, suIn, suTarget, suNew, suNext, suKept, suDaemon, suLive, suUpd, suAsks, suFails, suCrashes, past>>

Run(u, pc) == suUpd' = [suUpd EXCEPT ![u].pc = pc]
(* The deferred removal of whatever request is there.                      *)
Cleared == {}
Ends(u) == suUpd' = [suUpd EXCEPT ![u] = NoRun] /\ suFile' = IF u = "unit" THEN Cleared ELSE suFile
Fails(u) == suFails < MaxFails /\ suFails' = suFails + 1 /\ Ends(u)

(* Mutant of UnitStarts: after a boot the unit waits for a new write.      *)
UnitStartsOnWrite ==
    /\ suUpd["unit"].pc = "idle" /\ suCrashes = 0 /\ suIn[suTarget].whole
    /\ \E q \in suFile :
        /\ suUpd' = [suUpd EXCEPT !["unit"] = [NoRun EXCEPT !.pc = "resolve", !.own = suIn[suTarget].v, !.force = q.force, !.restart = TRUE, !.live = q.live]]
        /\ suDone' = suDone \ {q.id}
    /\ UNCHANGED <<world, disk, suDaemon, suLive, suFile, suReq, suAsks, suFails, suCrashes, past>>

(* The path unit starts the oneshot, which is the installed binary; of a   *)
(* request it cannot parse it returns before anything is cleared.          *)
UnitStarts ==
    /\ suUpd["unit"].pc = "idle" /\ suIn[suTarget].whole
    /\ \E q \in suFile :
        /\ ~q.torn
        /\ suUpd' = [suUpd EXCEPT !["unit"] = [NoRun EXCEPT !.pc = "resolve", !.own = suIn[suTarget].v, !.force = q.force, !.restart = TRUE, !.live = IF q.force THEN {} ELSE q.live]]
        /\ suDone' = suDone \ {q.id}
    /\ UNCHANGED <<world, disk, suDaemon, suLive, suFile, suReq, suAsks, suFails, suCrashes, past>>
HandStarts(force, restart) ==
    /\ suUpd["hand"].pc = "idle" /\ suIn[suTarget].whole /\ suAsks < MaxAsks /\ suAsks' = suAsks + 1
    /\ suUpd' = [suUpd EXCEPT !["hand"] = [NoRun EXCEPT !.pc = "resolve", !.own = suIn[suTarget].v, !.force = force, !.restart = restart]]
    /\ UNCHANGED <<world, disk, suDaemon, suLive, suFile, suReq, suFails, suCrashes, suDone, past>>

(* runUpdate: the latest release again, compared with the binary that      *)
(* runs the update.                                                        *)
Resolve(u) ==
    LET q == suUpd[u] IN
    /\ q.pc = "resolve"
    /\ \/ /\ q.own = suLatest /\ ~q.force /\ Ends(u) /\ suDeaf' = (suDeaf \/ (q.restart /\ suDaemon # suLatest)) /\ UNCHANGED suFails
       \/ /\ q.own # suLatest \/ q.force
          /\ suUpd' = [suUpd EXCEPT ![u].pc = "download", ![u].v = suLatest] /\ UNCHANGED <<suFile, suFails, suDeaf>>
       \/ Fails(u) /\ UNCHANGED suDeaf
    /\ UNCHANGED <<world, disk, suDaemon, suLive, suReq, suAsks, suCrashes, suDone, suRaced, suShared, suBlind, suCut, suOlder, suEarly>>
(* downloadToTemp: what arrives may not be what was released.              *)
Download(u) ==
    /\ suUpd[u].pc = "download"
    /\ \/ suUpd' = [suUpd EXCEPT ![u].pc = "verify", ![u].good = TRUE] /\ UNCHANGED <<suFile, suFails>>
       \/ /\ suFails < MaxFails /\ suFails' = suFails + 1 /\ suUpd' = [suUpd EXCEPT ![u].pc = "verify"] /\ UNCHANGED suFile
       \/ Fails(u)
    /\ UNCHANGED <<world, disk, suDaemon, suLive, suReq, suAsks, suCrashes, suDone, past>>
(* verifyChecksum; a release without SHA256SUMS is only warned about.      *)
verifyChecksum(good) == good
Verify(u) ==
    LET q == suUpd[u] IN
    /\ q.pc = "verify" /\ suBlind' = (suBlind \/ ~suSums)
    /\ IF ~suSums \/ verifyChecksum(q.good) THEN Run(u, "extract") /\ UNCHANGED suFile ELSE Ends(u)
    /\ UNCHANGED <<world, disk, suDaemon, suLive, suReq, suAsks, suFails, suCrashes, suDone, suRaced, suShared, suCut, suDeaf, suOlder, suEarly>>

(* atomicReplace: target.new is opened and truncated, filled, and renamed  *)
(* over the target.  A second updater opens the file the first one fills.  *)
CopyBegins(u) ==
    LET q == suUpd[u]
        i == IF suNew = 0 THEN suNext ELSE suNew
        Other == {o \in Updaters \ {u} : suUpd[o].pc \in {"copy", "rename"}} IN
    /\ q.pc = "extract" /\ i \in Inodes /\ suNew' = i /\ suNext' = (IF suNew = 0 THEN suNext + 1 ELSE suNext)
    /\ suDirty' = suDirty \union {i}
    /\ suIn' = [suIn EXCEPT ![i] = [v |-> 0, whole |-> FALSE, mixed |-> \E o \in Other : suUpd[o].pc = "copy" /\ suUpd[o].ino = i /\ suUpd[o].v # q.v]]
    /\ suUpd' = [suUpd EXCEPT ![u].pc = "copy", ![u].ino = i] /\ suShared' = (suShared \/ Other # {})
    /\ UNCHANGED <<world, suTarget, suKept, suDaemon, suLive, suFile, suReq, suAsks, suFails, suCrashes, suDone, suRaced, suBlind, suCut, suDeaf, suOlder, suEarly>>
(* What the updaters of U were filling stays as it is.                     *)
BrokenOff(U) == [i \in Inodes |-> [suIn[i] EXCEPT !.mixed = @ \/ \E u \in U : suUpd[u].pc = "copy" /\ suUpd[u].ino = i]]
CopyEnds(u) ==
    LET q == suUpd[u]
        Others == {o \in Updaters \ {u} : suUpd[o].pc = "copy" /\ suUpd[o].ino = q.ino} IN
    /\ q.pc = "copy" /\ suDirty' = suDirty \union {q.ino}
    /\ \/ /\ suIn' = [suIn EXCEPT ![q.ino] = [@ EXCEPT !.v = q.v, !.whole = q.good /\ ~suIn[q.ino].mixed /\ Others = {}]]
          /\ Run(u, "rename") /\ UNCHANGED <<suNew, suFile, suFails>>
       \/ Fails(u) /\ suNew' = 0 /\ suIn' = BrokenOff({u})
    /\ UNCHANGED <<world, suTarget, suNext, suKept, suDaemon, suLive, suReq, suAsks, suCrashes, suDone, past>>
(* Mutant of Installs: the new binary is written to its place.             *)
InstallsInPlace(pc) == pc = "copy"
Installs(pc) == pc = "rename"
Rename(u) ==
    LET q == suUpd[u] IN
    /\ Installs(q.pc)
    /\ IF suNew = 0 THEN Ends(u) /\ UNCHANGED <<suTarget, suNew, suOlder>>
       ELSE /\ suTarget' = suNew /\ suNew' = 0 /\ suOlder' = (suOlder \/ (suIn[suNew].v < suIn[suTarget].v /\ ~q.force))
            /\ IF q.restart THEN Run(u, "restart") /\ UNCHANGED suFile ELSE Ends(u)
    /\ UNCHANGED <<world, suIn, suNext, suDirty, suKept, suDaemon, suLive, suReq, suAsks, suFails, suCrashes, suDone, suRaced, suShared, suBlind, suCut, suDeaf, suEarly>>

(* systemctl restart: the daemon is the installed binary, its sessions are *)
(* interrupted (and resumed), requests under way are gone.                 *)
Boot == suDaemon' = (IF suIn'[suTarget'].whole THEN suIn'[suTarget'].v ELSE 0) /\ suReq' = [a \in Admins |-> NoRequest]
Restart(u) ==
    /\ suUpd[u].pc = "restart" /\ UNCHANGED <<world, disk>>
    /\ \/ Boot /\ Ends(u) /\ suCut' = suCut \union (suLive \intersect suUpd[u].live) /\ UNCHANGED suFails
       \/ Fails(u) /\ UNCHANGED <<suDaemon, suReq, suCut>>
    /\ UNCHANGED <<suLive, suAsks, suCrashes, suDone, suRaced, suShared, suBlind, suDeaf, suOlder, suEarly>>

(* An updater is killed: no deferred removal runs.                         *)
Killed(u) ==
    /\ suUpd[u].pc # "idle" /\ suFails < MaxFails /\ suFails' = suFails + 1 /\ suUpd' = [suUpd EXCEPT ![u] = NoRun]
    /\ suIn' = BrokenOff({u})
    /\ UNCHANGED <<world, suTarget, suNew, suNext, suDirty, suKept, suDaemon, suLive, suFile, suReq, suAsks, suCrashes, suDone, past>>

(* The kernel writes back what is dirty (of interest while the host may    *)
(* still go down).                                                         *)
WriteBack ==
    /\ suCrashes < MaxCrashes /\ suDirty' = {} /\ suKept' = [target |-> suTarget, file |-> suFile]
    /\ UNCHANGED <<world, suIn, suTarget, suNew, suNext, suDaemon, suLive, suFile, suReq, suUpd, suAsks, suFails, suCrashes, suDone, past>>

(* The host goes down in the middle of anything: of what was not written   *)
(* back a name is the old or the new one, and data may be torn.            *)
Unwritten == (IF {suTarget, suKept.target} \intersect suDirty # {} THEN {"binary"} ELSE {}) \union (IF 0 \in suDirty \/ suFile # suKept.file THEN {"request"} ELSE {})
Crash ==
    /\ suCrashes < MaxCrashes /\ suCrashes' = suCrashes + 1 /\ suUpd' = [u \in Updaters |-> NoRun] /\ suLive' = {}
    /\ suEarly' = suEarly \union Unwritten /\ suDirty' = {}
    /\ \E t \in {suTarget, suKept.target}, f \in {suFile, suKept.file} : \E torn \in SUBSET (suDirty \intersect {t, 0}) :
        /\ suTarget' = t /\ suIn' = [BrokenOff(Updaters) EXCEPT ![t].whole = @ /\ t \notin torn]
        /\ suFile' = {[q EXCEPT !.torn = @ \/ 0 \in torn] : q \in f} /\ suKept' = [target |-> t, file |-> suFile']
    /\ Boot
    /\ UNCHANGED <<world, suNew, suNext, suAsks, suFails, suDone, suRaced, suShared, suBlind, suCut, suDeaf, suOlder>>

Step(u) == Resolve(u) \/ Download(u) \/ Verify(u) \/ CopyBegins(u) \/ CopyEnds(u) \/ Rename(u) \/ Restart(u)
Next ==
    \/ World \/ UnitStarts \/ WriteBack \/ Crash
    \/ \E a \in Admins : RequestFeed(a) \/ RequestWrites(a) \/ \E force \in BOOLEAN : RequestChecks(a, force)
    \/ \E force, restart \in BOOLEAN : HandStarts(force, restart)
    \/ \E u \in Updaters : Step(u) \/ Killed(u)

Spec == Init /\ [][Next]_vars
(* systemd runs the oneshot while there is a request, and it runs to its   *)
(* end.                                                                    *)
FairSpec == Spec /\ WF_vars(UnitStarts) /\ WF_vars(Step("unit"))

TypeOK ==
    /\ suTarget \in Inodes /\ suNew \in Inodes \union {0} /\ Cardinality(suFile) <= 1
    /\ \A u \in Updaters : suUpd[u].pc \in {"idle", "resolve", "download", "verify", "extract", "copy", "rename", "restart"}

(* The installed binary is complete and the one that was released, at any  *)
(* moment an updater or the host may go down, unless a release came without*)
(* checksums or the host went down before the new binary was on the disk.  *)
(* After two updaters shared target.new it is damaged only while one still *)
(* fills it, or if they brought two releases or one broke off.             *)
Filling(i) == \E u \in Updaters : suUpd[u].pc = "copy" /\ suUpd[u].ino = i
InstalledIsWhole ==
    \/ suIn[suTarget].whole \/ suBlind \/ "binary" \in suEarly
    \/ suShared /\ (suIn[suTarget].mixed \/ Filling(suTarget))

(* A request that was accepted is read by the oneshot, not overwritten by  *)
(* the next one, unless two were made at the same time or the host went    *)
(* down before it was on the disk.                                         *)
AcceptedIsRead == suRaced \/ "request" \in suEarly \/ suDone \subseteq {q.id : q \in suFile}

(* Sessions that were live when an upgrade was asked for are interrupted   *)
(* only if the operator forced it.                                         *)
InterruptionConfirmed == suCut = {}

(* A pending request goes away, whatever fails: otherwise every later one  *)
(* is refused as "already in progress".  One that no oneshot can read      *)
(* stays, as does any when the installed binary is damaged.                *)
Damaged == ~suIn[suTarget].whole \/ \E q \in suFile : q.torn
RequestCleared == (suFile # {}) ~> (suFile = {} \/ Damaged)

(* version_handler.go:136 "the root oneshot will pick up the request,      *)
(* upgrade, and restart": no run ends with "already on the latest" while   *)
(* the daemon runs something else.                                         *)
LatestIsRunning == ~suDeaf
(* update.go:3: "check and apply if newer".                                *)
OnlyNewer == ~suOlder
(* update.go:382: "so the swap is atomic".                                 *)
AlwaysWhole == suIn[suTarget].whole \/ suBlind
(* selfupdate.go:128: "the watching path unit never sees a half-written    *)
(* file".                                                                  *)
NeverHalfWritten == \A q \in suFile : ~q.torn
=============================================================================
