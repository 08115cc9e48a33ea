---------------------------- MODULE ExportImport ----------------------------
(***************************************************************************)
(* Portable exports and imports (backup/service_export.go,                 *)
(* service_import.go).  An export is a row and a zip file that a builder,  *)
(* the scheduler's reaper and an admin's delete touch in separate steps.   *)
(* An import reads a zip row by row and inserts what is not there yet.     *)
(***************************************************************************)
EXTENDS Naturals, Sequences, FiniteSets

CONSTANTS
    Bundle,       \* the section being imported: a sequence of [id, kind] rows
    Here,         \* ids that exist before the first import
    Importers,    \* imports that may run at once
    MaxFaults     \* bound: crashes, failing statements and failing removals

VARIABLES
    xpRow,        \* the export's row: status, file_path known, expires_at past
    xpFile,       \* the zip: "none", "part", "whole"
    xpBuild,      \* CreateExport: "idle", "inserted", "building", "built", "failed", "done"
    xpReap,       \* ReapExpiredExports: "idle", "listed", "read", "removed"; path read
    xpDel,        \* DeleteExport: "idle", "read", "removed"; path read
    xpExcuse,     \* history: something happened that leaves a zip behind
    xpTorn,       \* history: a removed zip whose row was not deleted after it
    xpFaults,     \* crashes and failures so far
    xpTable,      \* id -> who wrote it: "here" or an importer
    xpImp         \* xpImp[i]: position, counts, status

vars == <<xpRow, xpFile, xpBuild, xpReap, xpDel, xpExcuse, xpTorn, xpFaults, xpTable, xpImp>>
xpExport == <<xpRow, xpFile, xpBuild, xpReap, xpDel, xpExcuse, xpTorn, xpFaults>>

Ids == Here \union {Bundle[n].id : n \in DOMAIN Bundle}
NoExport == [status |-> "none", path |-> FALSE, due |-> FALSE]
Idle == [pc |-> "idle", path |-> FALSE]
NoImport == [status |-> "idle", pos |-> 1, created |-> 0, skipped |-> 0, failed |-> 0]

Fault == xpFaults < MaxFaults /\ xpFaults' = xpFaults + 1

Init ==
    /\ xpRow = NoExport /\ xpFile = "none" /\ xpBuild = "idle"
    /\ xpReap = Idle /\ xpDel = Idle /\ xpExcuse = FALSE /\ xpTorn = FALSE /\ xpFaults = 0
    /\ xpTable = [x \in Here |-> "here"] /\ xpImp = [i \in Importers |-> NoImport]

Status(row, st) == IF row.status = "none" THEN row ELSE [row EXCEPT !.status = st]

CreateExport ==
    /\ xpBuild = "idle" /\ xpBuild' = "inserted"
    /\ xpRow' = [status |-> "running", path |-> FALSE, due |-> FALSE]
    /\ UNCHANGED <<xpFile, xpReap, xpDel, xpExcuse, xpTorn, xpFaults, xpTable, xpImp>>

OpenZip ==
    /\ xpBuild = "inserted" /\ xpBuild' = "building" /\ xpFile' = "part"
    /\ UNCHANGED <<xpRow, xpReap, xpDel, xpExcuse, xpTorn, xpFaults, xpTable, xpImp>>

BuildExportZip ==
    /\ xpBuild = "building" /\ xpBuild' = "built" /\ xpFile' = "whole"
    /\ UNCHANGED <<xpRow, xpReap, xpDel, xpExcuse, xpTorn, xpFaults, xpTable, xpImp>>

(* The build fails: the zip goes (or stays, when it cannot be removed) ... *)
BuildFails ==
    /\ xpBuild \in {"inserted", "building"} /\ xpBuild' = "failed"
    /\ \/ xpFile' = "none" /\ UNCHANGED <<xpExcuse, xpFaults>>
       \/ xpFile # "none" /\ Fault /\ xpExcuse' = TRUE /\ UNCHANGED xpFile
    /\ UNCHANGED <<xpRow, xpReap, xpDel, xpTorn, xpTable, xpImp>>

(* ... and the row says so, if that statement succeeds.                    *)
MarkExportFailed ==
    /\ xpBuild = "failed" /\ xpBuild' = "done"
    /\ \/ xpRow' = Status(xpRow, "failed") /\ UNCHANGED xpFaults
       \/ Fault /\ UNCHANGED xpRow
    /\ UNCHANGED <<xpFile, xpReap, xpDel, xpExcuse, xpTorn, xpTable, xpImp>>

(* Mutant of MarkExportReady: the row is ready before the zip is.          *)
MarkExportReadyEarly ==
    /\ xpBuild \in {"building", "built"} /\ UNCHANGED xpBuild
    /\ xpRow' = IF xpRow.status = "none" THEN xpRow ELSE [xpRow EXCEPT !.status = "ready", !.path = TRUE]
    /\ UNCHANGED <<xpFile, xpReap, xpDel, xpExcuse, xpTorn, xpFaults, xpTable, xpImp>>

(* MarkExportReady looks at no status: an export that expired while it was *)
(* built becomes ready, one that was deleted matches no row.  When the     *)
(* statement fails the row stays running, the zip where it is.             *)
MarkExportReady ==
    /\ xpBuild = "built" /\ xpBuild' = "done"
    /\ \/ /\ xpRow' = IF xpRow.status = "none" THEN xpRow ELSE [xpRow EXCEPT !.status = "ready", !.path = TRUE]
          /\ UNCHANGED <<xpExcuse, xpFaults>>
       \/ Fault /\ xpExcuse' = TRUE /\ UNCHANGED xpRow
    /\ UNCHANGED <<xpFile, xpReap, xpDel, xpTorn, xpTable, xpImp>>

(* The clock passes expires_at.                                            *)
Expires ==
    /\ xpRow.status # "none" /\ ~xpRow.due /\ xpRow' = [xpRow EXCEPT !.due = TRUE]
    /\ UNCHANGED <<xpFile, xpBuild, xpReap, xpDel, xpExcuse, xpTorn, xpFaults, xpTable, xpImp>>

(* Mutant of ListExpiredExports: only running exports are looked at.       *)
ListExpiredExportsRunning ==
    /\ xpReap.pc = "idle" /\ xpRow.due /\ xpRow.status = "running"
    /\ xpReap' = [pc |-> "listed", path |-> FALSE]
    /\ UNCHANGED <<xpRow, xpFile, xpBuild, xpDel, xpExcuse, xpTorn, xpFaults, xpTable, xpImp>>

ListExpiredExports ==
    /\ xpReap.pc = "idle" /\ xpRow.due /\ xpRow.status \notin {"none", "expired"}
    /\ xpReap' = [pc |-> "listed", path |-> FALSE]
    /\ UNCHANGED <<xpRow, xpFile, xpBuild, xpDel, xpExcuse, xpTorn, xpFaults, xpTable, xpImp>>

(* GetExportFilePath; no path when it fails or the row is gone.            *)
ReapReadsPath ==
    /\ xpReap.pc = "listed"
    /\ \/ xpReap' = [pc |-> "read", path |-> xpRow.path] /\ UNCHANGED xpFaults
       \/ Fault /\ xpReap' = [pc |-> "read", path |-> FALSE]
    /\ UNCHANGED <<xpRow, xpFile, xpBuild, xpDel, xpExcuse, xpTorn, xpTable, xpImp>>

(* When os.Remove fails it is logged, and the row is flipped all the same. *)
ReapRemoves ==
    /\ xpReap.pc = "read" /\ xpReap' = [xpReap EXCEPT !.pc = "removed"]
    /\ \/ xpFile' = (IF xpReap.path THEN "none" ELSE xpFile) /\ UNCHANGED <<xpExcuse, xpFaults>>
       \/ xpReap.path /\ xpFile # "none" /\ Fault /\ xpExcuse' = TRUE /\ UNCHANGED xpFile
    /\ UNCHANGED <<xpRow, xpBuild, xpDel, xpTorn, xpTable, xpImp>>

(* Of an export that became ready after the reaper read its path, the row  *)
(* is flipped although its zip was not removed.  A failing statement is    *)
(* for the next tick.                                                      *)
MarkExportExpired ==
    /\ xpReap.pc = "removed" /\ xpReap' = Idle
    /\ \/ xpRow' = Status(xpRow, "expired") /\ UNCHANGED xpFaults
          /\ xpExcuse' = (xpExcuse \/ (xpRow.status = "ready" /\ ~xpReap.path))
       \/ Fault /\ UNCHANGED <<xpRow, xpExcuse>>
    /\ UNCHANGED <<xpFile, xpBuild, xpDel, xpTorn, xpTable, xpImp>>

DeleteReadsPath ==
    /\ xpDel.pc = "idle" /\ xpRow.status # "none"
    /\ xpDel' = [pc |-> "read", path |-> xpRow.path]
    /\ UNCHANGED <<xpRow, xpFile, xpBuild, xpReap, xpExcuse, xpTorn, xpFaults, xpTable, xpImp>>

(* Mutant of DeleteRemovesZip: only the row goes.                          *)
DeleteForgetsZip ==
    /\ xpDel.pc = "read" /\ xpDel' = [xpDel EXCEPT !.pc = "removed"]
    /\ UNCHANGED <<xpRow, xpFile, xpBuild, xpReap, xpExcuse, xpTorn, xpFaults, xpTable, xpImp>>

(* The error of os.Remove is not looked at.                                *)
DeleteRemovesZip ==
    /\ xpDel.pc = "read" /\ xpDel' = [xpDel EXCEPT !.pc = "removed"]
    /\ \/ xpFile' = (IF xpDel.path THEN "none" ELSE xpFile) /\ UNCHANGED <<xpExcuse, xpFaults>>
       \/ xpDel.path /\ xpFile # "none" /\ Fault /\ xpExcuse' = TRUE /\ UNCHANGED xpFile
    /\ UNCHANGED <<xpRow, xpBuild, xpReap, xpTorn, xpTable, xpImp>>

(* The row goes; while the zip is being built no path was recorded yet,    *)
(* and the zip stays.  When the statement fails the row outlives the zip.  *)
DeleteRow ==
    /\ xpDel.pc = "removed" /\ xpDel' = Idle
    /\ \/ xpRow' = NoExport /\ xpExcuse' = (xpExcuse \/ ~xpDel.path) /\ UNCHANGED <<xpTorn, xpFaults>>
       \/ Fault /\ xpTorn' = TRUE /\ UNCHANGED <<xpRow, xpExcuse>>
    /\ UNCHANGED <<xpFile, xpBuild, xpReap, xpTable, xpImp>>

(* The process ends: a build is cut off and its row stays "running", a     *)
(* delete half way leaves its row.                                         *)
Crash ==
    /\ Fault /\ xpBuild' = (IF xpBuild = "idle" THEN "idle" ELSE "done")
    /\ xpExcuse' = (xpExcuse \/ xpBuild \in {"building", "built"})
    /\ xpTorn' = (xpTorn \/ xpDel.pc = "removed")
    /\ xpReap' = Idle /\ xpDel' = Idle
    /\ xpImp' = [i \in Importers |-> IF xpImp[i].status = "running" THEN [xpImp[i] EXCEPT !.status = "lost"] ELSE xpImp[i]]
    /\ UNCHANGED <<xpRow, xpFile, xpTable>>

ImportBundle(i) ==
    /\ xpImp[i].status = "idle" /\ xpImp' = [xpImp EXCEPT ![i].status = "running"]
    /\ UNCHANGED xpExport /\ UNCHANGED xpTable

(* Mutant of ImportRow: a conflict updates the row.                        *)
ImportRowUpserts(i) ==
    LET s == xpImp[i]  r == Bundle[s.pos] IN
    /\ s.status = "running" /\ s.pos <= Len(Bundle) /\ r.kind = "row"
    /\ xpImp' = [xpImp EXCEPT ![i].pos = @ + 1, ![i].created = @ + 1]
    /\ xpTable' = [x \in DOMAIN xpTable \union {r.id} |-> IF x = r.id THEN i ELSE xpTable[x]]
    /\ UNCHANGED xpExport

(* Mutant of ImportRow: RowsAffected is not looked at.                     *)
ImportRowMiscounts(i) ==
    LET s == xpImp[i]  r == Bundle[s.pos] IN
    /\ s.status = "running" /\ s.pos <= Len(Bundle) /\ r.kind = "row"
    /\ xpImp' = [xpImp EXCEPT ![i].pos = @ + 1, ![i].created = @ + 1]
    /\ xpTable' = [x \in DOMAIN xpTable \union {r.id} |-> IF x \in DOMAIN xpTable THEN xpTable[x] ELSE i]
    /\ UNCHANGED xpExport

(* One row: fields missing or a failing insert, an id that exists (ON      *)
(* CONFLICT DO NOTHING) or a route prefix that is taken, or created.       *)
ImportRow(i) ==
    LET s == xpImp[i]  r == Bundle[s.pos] IN
    /\ s.status = "running" /\ s.pos <= Len(Bundle) /\ r.kind # "malformed"
    /\ \/ /\ xpImp' = [xpImp EXCEPT ![i].pos = @ + 1, ![i].failed = @ + 1] /\ UNCHANGED xpTable
       \/ /\ r.kind = "taken" \/ (r.kind = "row" /\ r.id \in DOMAIN xpTable)
          /\ xpImp' = [xpImp EXCEPT ![i].pos = @ + 1, ![i].skipped = @ + 1] /\ UNCHANGED xpTable
       \/ /\ r.kind = "row" /\ r.id \notin DOMAIN xpTable
          /\ xpImp' = [xpImp EXCEPT ![i].pos = @ + 1, ![i].created = @ + 1]
          /\ xpTable' = [x \in DOMAIN xpTable \union {r.id} |-> IF x = r.id THEN i ELSE xpTable[x]]
    /\ UNCHANGED xpExport

(* The decoder keeps its error: the loop counts a failure and asks again,  *)
(* for ever.  The count is not kept here.                                  *)
ImportSpins(i) ==
    /\ xpImp[i].status = "running" /\ xpImp[i].pos <= Len(Bundle) /\ Bundle[xpImp[i].pos].kind = "malformed"
    /\ UNCHANGED vars

(* The section is done; one that cannot be opened fails the import.  When  *)
(* the last statement fails the row stays "running".                       *)
ImportEnds(i) ==
    /\ xpImp[i].status = "running"
    /\ \/ xpImp[i].pos > Len(Bundle) /\ xpImp' = [xpImp EXCEPT ![i].status = "succeeded"] /\ UNCHANGED xpFaults
       \/ xpImp[i].pos > Len(Bundle) /\ Fault /\ xpImp' = [xpImp EXCEPT ![i].status = "lost"]
       \/ xpImp[i].pos = 1 /\ Fault /\ xpImp' = [xpImp EXCEPT ![i].status = "failed"]
    /\ UNCHANGED <<xpRow, xpFile, xpBuild, xpReap, xpDel, xpExcuse, xpTorn, xpTable>>

Reap == ListExpiredExports \/ ReapReadsPath \/ ReapRemoves \/ MarkExportExpired
Next ==
    \/ CreateExport \/ OpenZip \/ BuildExportZip \/ BuildFails \/ MarkExportFailed \/ MarkExportReady \/ Expires
    \/ Reap \/ DeleteReadsPath \/ DeleteRemovesZip \/ DeleteRow \/ Crash
    \/ \E i \in Importers : ImportBundle(i) \/ ImportRow(i) \/ ImportSpins(i) \/ ImportEnds(i)

Spec == Init /\ [][Next]_vars

(* The builder and the scheduler's tick go on; expires_at comes.           *)
Fairness == WF_vars(OpenZip) /\ WF_vars(BuildExportZip) /\ WF_vars(MarkExportFailed)
            /\ WF_vars(MarkExportReady) /\ WF_vars(Expires) /\ WF_vars(Reap)
            /\ WF_vars(\E i \in Importers : ImportRow(i) \/ ImportEnds(i))

TypeOK == /\ xpRow.status \in {"none", "running", "ready", "failed", "expired"}
          /\ xpFile \in {"none", "part", "whole"} /\ DOMAIN xpTable \subseteq Ids

Quiet == xpBuild \in {"idle", "done"} /\ xpReap = Idle /\ xpDel = Idle

(* No zip is left that nothing refers to: at rest a file on disk belongs   *)
(* to a row that is ready and names it.  Excepted are a delete while the   *)
(* zip is built, a build that expires while the reaper looks at it, a      *)
(* crash in a build, and a removal or the mark of a built zip that fails.  *)
NoOrphanZip == (Quiet /\ xpFile # "none" /\ ~xpExcuse) => xpRow.status = "ready" /\ xpRow.path

(* An export offered for download is there and whole, unless it is being   *)
(* deleted at this moment or a delete stopped between its file and its     *)
(* row.                                                                    *)
ReadyIsWhole ==
    (xpRow.status = "ready" /\ ~xpRow.due /\ xpDel.pc = "idle" /\ ~xpTorn) => xpFile = "whole"

(* What expired is cleaned up: once the zip of an expired export is        *)
(* recorded it does not stay.                                              *)
ExpiredGoes == [](xpRow.due /\ xpRow.path => <>(xpFile = "none" \/ xpExcuse))

NeverOverwritesStep == \A x \in DOMAIN xpTable : x \in DOMAIN xpTable' /\ xpTable'[x] = xpTable[x]

(* An import changes nothing that exists: neither what was here before nor *)
(* what an import running beside it wrote.                                 *)
NeverOverwrites == [][NeverOverwritesStep]_vars

(* The counts an operator is shown are true of the table, also when two    *)
(* imports of the same bundle interleave: created rows are exactly the     *)
(* rows this import put there.                                             *)
CountsTrue ==
    \A i \in Importers : xpImp[i].created = Cardinality({x \in DOMAIN xpTable : xpTable[x] = i})
=============================================================================
