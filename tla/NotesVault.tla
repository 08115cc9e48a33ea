----------------------------- MODULE NotesVault ------------------------------
(***************************************************************************)
(* The notes vault on disk (notes/vault.go, move.go, flatten.go,           *)
(* projectmap.go, templates.go): documents are read, appended to, created, *)
(* moved and deleted by the UI, the CLI and the agents with no lock among  *)
(* them, a move repoints the wiki-links to what it moved, and the flatten  *)
(* migration, one at a time, moves every document of a nested vault.       *)
(* Documents are Markdown within scanMaxFileLen; a body is the set of      *)
(* paragraphs added to it and the set of links it holds.                   *)
(***************************************************************************)
EXTENDS Naturals, FiniteSets

CONSTANTS
    Names,        \* project names
    Appenders,    \* callers of Append, and editors that write back what they read
    MaxOps,       \* bound: appends, writes, creations, deletes, hand moves, mappings
    MaxFaults     \* bound: scans that time out, file writes that fail, requests that are cancelled, restarts

VARIABLES
    nvFiles,      \* path -> document, Absent when there is none
    nvMap,        \* .projectmap: name -> the directory its cwd is pinned to
    nvLayout, nvConfig,   \* the layout in memory and in config.toml
    nvApp,        \* appender -> [pc, path, doc]
    nvNew,        \* a creation between its stat and its write
    nvMove,       \* mover -> [pc, from, to, left, path, doc, was]; was is history
    nvFlat,       \* the migration [pc, plan, skips]; once it is over, skips is history
    nvNext, nvOps, nvFails, nvBoots,
    nvTouched,    \* history: notes whose file was written by two at once, or moved so
    nvStranded,   \* history: notes filed by hand or by a path resolved before the migration
    nvGone        \* history: notes deleted, or replaced by one that came after the check

vars == <<nvFiles, nvMap, nvLayout, nvConfig, nvApp, nvNew, nvMove, nvFlat, nvNext, nvOps, nvFails, nvBoots,
          nvTouched, nvStranded, nvGone>>

Movers == {"hand", "flatten"}
Nested(n) == [top |-> "projects", dir |-> n, base |-> "spec"]
Personal(n) == [top |-> "personal", dir |-> "", base |-> n]
Filed(n, b) == [top |-> "", dir |-> n, base |-> b]
Library(n) == [top |-> "library", dir |-> "", base |-> n]
Paths == UNION {{Nested(n), Personal(n), Filed(n, "spec"), Filed(n, "personal"), Library(n)} : n \in Names}
Rank(p) == CASE p.top = "library" -> 1 [] p.top = "personal" -> 2 [] p.top = "projects" -> 3
              [] p.base = "personal" -> 4 [] OTHER -> 5
NoPath == [top |-> "none", dir |-> "", base |-> ""]

Absent == [id |-> 0, text |-> {}, links |-> {}]
Full(p, id) == [full |-> TRUE, path |-> p, note |-> id]
Bare(p, id) == [full |-> FALSE, path |-> [NoPath EXCEPT !.base = p.base], note |-> id]

Doc(id, links) == [id |-> id, text |-> {}, links |-> links]
IdleApp == [pc |-> "idle", path |-> NoPath, doc |-> Absent]
IdleMove == [pc |-> "idle", from |-> NoPath, to |-> NoPath, left |-> {}, path |-> NoPath, doc |-> Absent,
             was |-> 0]
IdleFlat == [pc |-> "idle", plan |-> {}, skips |-> {}]

(* A nested vault: a project with a document and a personal note, and a    *)
(* library note of the project's name that links to both.                  *)
Init ==
    /\ LET n == CHOOSE m \in Names : TRUE
       IN nvFiles = [p \in Paths |->
                        IF p = Nested(n) THEN Doc(1, {Full(Library(n), 3)})
                        ELSE IF p = Personal(n) THEN Doc(2, {Full(Nested(n), 1), Bare(Library(n), 3)})
                        ELSE IF p = Library(n) THEN Doc(3, {Full(Nested(n), 1), Full(Personal(n), 2), Bare(Nested(n), 1)})
                        ELSE Absent]
    /\ nvMap = [n \in Names |-> "none"] /\ nvLayout = "nested" /\ nvConfig = "nested"
    /\ nvApp = [a \in Appenders |-> IdleApp] /\ nvNew = NoPath
    /\ nvMove = [m \in Movers |-> IdleMove] /\ nvFlat = IdleFlat
    /\ nvNext = 4 /\ nvOps = 0 /\ nvFails = 0 /\ nvBoots = 0
    /\ nvTouched = {} /\ nvStranded = {} /\ nvGone = {}

Op == nvOps < MaxOps /\ nvOps' = nvOps + 1
Exists(p) == nvFiles[p].id # 0
Alive == {nvFiles[p].id : p \in Paths} \ {0}

(* Those holding a copy of p they are about to write back.                 *)
Holding(p, but) == (\E a \in Appenders \ {but} : nvApp[a].pc = "write" /\ nvApp[a].path = p)
                   \/ (\E m \in Movers \ {but} : nvMove[m].pc = "write" /\ nvMove[m].path = p)

(* os.WriteFile of d to p, seen by whoever holds an older copy.            *)
Put(p, d, who) ==
    /\ nvFiles' = [nvFiles EXCEPT ![p] = d]
    /\ nvTouched' = IF Holding(p, who) THEN nvTouched \union {d.id, nvFiles[p].id} ELSE nvTouched
    /\ nvGone' = IF nvFiles[p].id \in {0, d.id} THEN nvGone ELSE nvGone \union {nvFiles[p].id}

(* A step fails that the code goes on from.                                *)
Fault == nvFails + nvBoots < MaxFaults /\ nvFails' = nvFails + 1

(* os.WriteFile fails, before or after it truncated the file.              *)
Torn(p) == nvFiles' \in {nvFiles, [nvFiles EXCEPT ![p] = [@ EXCEPT !.text = {}, !.links = {}]]}

(* A document filed under projects/ when that is no longer where the       *)
(* layout looks.                                                           *)
Stray(p, id) == IF p.top = "projects" /\ (nvLayout = "flat" \/ nvFlat.pc # "idle") THEN {id} ELSE {}

(* Append reads the whole file, if there is one, ...                       *)
AppendReads(a, p) ==
    /\ nvApp[a].pc = "idle" /\ Op
    /\ nvApp' = [nvApp EXCEPT ![a] = [pc |-> "write", path |-> p, doc |-> nvFiles[p]]]
    /\ UNCHANGED <<nvFiles, nvMap, nvLayout, nvConfig, nvNew, nvMove, nvFlat, nvNext, nvFails, nvBoots,
                   nvTouched, nvStranded, nvGone>>

(* ... and writes it back with the paragraph, or creates it; an editor     *)
(* does the same with Read and Write.                                      *)
AppendWrites(a) ==
    LET w == nvApp[a]
        id == IF w.doc.id = 0 THEN nvNext ELSE w.doc.id
    IN /\ w.pc = "write" /\ nvApp' = [nvApp EXCEPT ![a] = IdleApp]
       /\ \/ /\ Put(w.path, [w.doc EXCEPT !.id = id, !.text = @ \union {a}], a)
             /\ nvNext' = (IF id = nvNext THEN nvNext + 1 ELSE nvNext)
             /\ nvStranded' = nvStranded \union Stray(w.path, id) /\ UNCHANGED nvFails
          \/ Fault /\ Torn(w.path) /\ UNCHANGED <<nvTouched, nvGone, nvNext, nvStranded>>
       /\ UNCHANGED <<nvMap, nvLayout, nvConfig, nvNew, nvMove, nvFlat, nvOps, nvBoots>>

(* Write of a body the caller made up: it replaces the document, or        *)
(* creates it, without looking.                                            *)
Write(p) ==
    LET id == IF Exists(p) THEN nvFiles[p].id ELSE nvNext IN
    /\ Op /\ Put(p, Doc(id, {}), "none")
    /\ nvNext' = (IF id = nvNext THEN nvNext + 1 ELSE nvNext) /\ nvStranded' = nvStranded \union Stray(p, id)
    /\ UNCHANGED <<nvMap, nvLayout, nvConfig, nvApp, nvNew, nvMove, nvFlat, nvFails, nvBoots>>

(* Delete.                                                                 *)
Delete(p) ==
    /\ Op /\ Exists(p) /\ nvFiles' = [nvFiles EXCEPT ![p] = Absent]
    /\ nvGone' = nvGone \union {nvFiles[p].id}
    /\ nvTouched' = IF Holding(p, "none") THEN nvTouched \union {nvFiles[p].id} ELSE nvTouched
    /\ UNCHANGED <<nvMap, nvLayout, nvConfig, nvApp, nvNew, nvMove, nvFlat, nvNext, nvFails, nvBoots, nvStranded>>

(* ResolvedProjectDir: the pinned directory, or the layout's.              *)
ResolvedProjectDir(n) ==
    CASE nvMap[n] # "none" -> nvMap[n]
      [] nvLayout = "flat" -> ""
      [] OTHER -> "projects"

(* NewFromTemplate, by an agent in the project's directory: refuses a      *)
(* document that exists, ...                                               *)
NewChecks(n) ==
    LET p == [top |-> ResolvedProjectDir(n), dir |-> n, base |-> "spec"]
    IN /\ nvNew = NoPath /\ Op /\ ~Exists(p)
       /\ nvNew' = p
       /\ UNCHANGED <<nvFiles, nvMap, nvLayout, nvConfig, nvApp, nvMove, nvFlat, nvNext, nvFails, nvBoots,
                      nvTouched, nvStranded, nvGone>>

(* ... then writes it.                                                     *)
NewWrites ==
    /\ nvNew # NoPath /\ nvNew' = NoPath /\ nvNext' = nvNext + 1
    /\ Put(nvNew, Doc(nvNext, {}), "none")
    /\ nvStranded' = nvStranded \union Stray(nvNew, nvNext)
    /\ UNCHANGED <<nvMap, nvLayout, nvConfig, nvApp, nvMove, nvFlat, nvOps, nvFails, nvBoots>>

(* SetProjectMapping pins a cwd, or clears its pin.                        *)
SetProjectMapping(n, d) ==
    /\ Op /\ nvMap' = [nvMap EXCEPT ![n] = d] /\ d # nvMap[n]
    /\ nvStranded' = IF nvLayout = "flat" \/ nvFlat.pc # "idle" THEN nvStranded \union Alive ELSE nvStranded
    /\ UNCHANGED <<nvFiles, nvLayout, nvConfig, nvApp, nvNew, nvMove, nvFlat, nvNext, nvFails, nvBoots,
                   nvTouched, nvGone>>

(* Mutant of MayMove: the destination is not looked at.                    *)
MayMoveOver(from, to) == Exists(from) /\ from # to
(* Move's checks: the source is there, the destination is not.             *)
MayMove(from, to) == Exists(from) /\ from # to /\ ~Exists(to)

StartMove(m, from, to) == nvMove' = [nvMove EXCEPT ![m] = [IdleMove EXCEPT !.pc = "rename", !.from = from, !.to = to,
                                                         !.was = nvFiles[to].id]]
HandMove(from, to) ==
    /\ Op /\ nvMove["hand"].pc = "idle" /\ MayMove(from, to) /\ StartMove("hand", from, to)
    /\ UNCHANGED <<nvFiles, nvMap, nvLayout, nvConfig, nvApp, nvNew, nvFlat, nvNext, nvFails, nvBoots,
                   nvTouched, nvStranded, nvGone>>

(* os.Rename: it replaces what has appeared at the destination since.      *)
MoveRename(m) ==
    LET w == nvMove[m] IN
    /\ w.pc = "rename"
    /\ IF Exists(w.from)
       THEN /\ nvFiles' = [nvFiles EXCEPT ![w.to] = nvFiles[w.from], ![w.from] = Absent]
            /\ nvMove' = [nvMove EXCEPT ![m].pc = "walk", ![m].left = Paths]
            /\ nvGone' = IF Exists(w.to) /\ nvFiles[w.to].id # w.was
                         THEN nvGone \union {nvFiles[w.to].id} ELSE nvGone
            /\ nvTouched' = nvTouched
                 \union (IF Holding(w.from, m) \/ Holding(w.to, m) THEN {nvFiles[w.from].id} ELSE {})
                 \union (IF \E o \in Movers \ {m} : nvMove[o].pc # "idle" THEN {nvFiles[w.from].id} ELSE {})
                 \union UNION {{nvFiles[nvMove[o].to].id} : o \in {o \in Movers \ {m} : nvMove[o].pc # "idle"}}
            /\ UNCHANGED nvFlat
       ELSE /\ nvMove' = [nvMove EXCEPT ![m] = IdleMove]
            /\ nvFlat' = IF m = "flatten" THEN [nvFlat EXCEPT !.skips = @ \union {w.from}] ELSE nvFlat
            /\ UNCHANGED <<nvFiles, nvGone, nvTouched>>
    /\ nvStranded' = IF m = "hand" THEN nvStranded \union {nvFiles[w.from].id} ELSE nvStranded
    /\ UNCHANGED <<nvMap, nvLayout, nvConfig, nvApp, nvNew, nvNext, nvOps, nvFails, nvBoots>>

(* Mutant of Repoint: links by path are left alone.                        *)
RepointBare(d, from, to) ==
    [d EXCEPT !.links = {IF ~l.full /\ l.path.base = from.base THEN [l EXCEPT !.path.base = to.base] ELSE l : l \in @}]

(* The links to from become links to to: one by path keeps a path, one by  *)
(* base name keeps the base name, whichever note of that name it meant.    *)
Repoint(d, from, to) ==
    [d EXCEPT !.links = {IF l.full THEN IF l.path = from THEN [l EXCEPT !.path = to] ELSE l
                         ELSE IF l.path.base = from.base THEN [l EXCEPT !.path.base = to.base] ELSE l : l \in @}]

(* rewriteLinks visits each file it comes to: reads it, ...                *)
MoveReads(m, p) ==
    LET w == nvMove[m]
        left == {q \in w.left \ {p} : Exists(q) \/ Rank(q) > Rank(p)} IN
    /\ w.pc = "walk" /\ p \in w.left /\ Exists(p) /\ (\A q \in w.left : Exists(q) => Rank(p) <= Rank(q))
    /\ nvMove' = [nvMove EXCEPT ![m] =
         IF (\E l \in nvFiles[p].links : (l.full /\ l.path = w.from) \/ (~l.full /\ l.path.base = w.from.base))
         THEN [w EXCEPT !.pc = "write", !.path = p, !.doc = nvFiles[p], !.left = left]
         ELSE [w EXCEPT !.left = left]]
    /\ UNCHANGED <<nvFiles, nvMap, nvLayout, nvConfig, nvApp, nvNew, nvFlat, nvNext, nvOps, nvFails, nvBoots,
                   nvTouched, nvStranded, nvGone>>

(* ... and writes it back with the links repointed; a write that fails is  *)
(* passed over.                                                            *)
MoveWrites(m) ==
    LET w == nvMove[m] IN
    /\ w.pc = "write" /\ nvMove' = [nvMove EXCEPT ![m].pc = "walk"]
    /\ \/ Put(w.path, Repoint(w.doc, w.from, w.to), m) /\ UNCHANGED nvFails
       \/ /\ Fault /\ Torn(w.path) /\ UNCHANGED nvGone
          /\ nvTouched' = nvTouched \union {w.doc.id, nvFiles[w.to].id}
    /\ UNCHANGED <<nvMap, nvLayout, nvConfig, nvApp, nvNew, nvFlat, nvNext, nvOps, nvBoots, nvStranded>>
MoveEnds(m) ==
    /\ nvMove[m].pc = "walk" /\ (\A p \in nvMove[m].left : ~Exists(p)) /\ nvMove' = [nvMove EXCEPT ![m] = IdleMove]
    /\ UNCHANGED <<nvFiles, nvMap, nvLayout, nvConfig, nvApp, nvNew, nvFlat, nvNext, nvOps, nvFails, nvBoots,
                   nvTouched, nvStranded, nvGone>>

(* The walk runs into scanTimeout: the note stays moved, the remaining     *)
(* links stay, and the migration lists the document as skipped.            *)
MoveTimesOut(m) ==
    LET w == nvMove[m] IN
    /\ w.pc = "walk" /\ Fault
    /\ nvMove' = [nvMove EXCEPT ![m] = IdleMove] /\ nvTouched' = nvTouched \union {nvFiles[w.to].id}
    /\ nvFlat' = IF m = "flatten" THEN [nvFlat EXCEPT !.skips = @ \union {w.from}] ELSE nvFlat
    /\ UNCHANGED <<nvFiles, nvMap, nvLayout, nvConfig, nvApp, nvNew, nvNext, nvOps, nvBoots, nvStranded, nvGone>>

(* flatTarget.                                                             *)
FlatTarget(p) ==
    CASE p.top = "projects" -> Filed(p.dir, p.base)
      [] p.top = "personal" -> Filed(p.base, "personal")
      [] OTHER -> NoPath

(* Flatten plans the moves and skips what has a document in its place, ... *)
FlattenBegins ==
    /\ nvFlat.pc = "idle" /\ nvLayout = "nested"
    /\ LET here == {p \in Paths : Exists(p) /\ FlatTarget(p) # NoPath}
           free == {p \in here : ~Exists(FlatTarget(p))}
       IN nvFlat' = [pc |-> "moves", plan |-> free, skips |-> here \ free]
    /\ UNCHANGED <<nvFiles, nvMap, nvLayout, nvConfig, nvApp, nvNew, nvMove, nvNext, nvOps, nvFails, nvBoots,
                   nvTouched, nvStranded, nvGone>>

(* ... moves one document after the other, skipping what cannot be moved, *)
FlattenMoves(p) ==
    /\ nvFlat.pc = "moves" /\ nvMove["flatten"].pc = "idle" /\ p \in nvFlat.plan
    /\ IF MayMove(p, FlatTarget(p))
       THEN StartMove("flatten", p, FlatTarget(p)) /\ nvFlat' = [nvFlat EXCEPT !.plan = @ \ {p}]
       ELSE nvFlat' = [nvFlat EXCEPT !.plan = @ \ {p}, !.skips = @ \union {p}] /\ UNCHANGED nvMove
    /\ UNCHANGED <<nvFiles, nvMap, nvLayout, nvConfig, nvApp, nvNew, nvNext, nvOps, nvFails, nvBoots,
                   nvTouched, nvStranded, nvGone>>

(* The request is cancelled between two moves, or the pins cannot be       *)
(* written: Flatten returns, and the vault stays nested.                   *)
FlattenStops ==
    /\ nvFlat.pc = "moves" /\ nvMove["flatten"].pc = "idle" /\ Fault /\ nvFlat' = IdleFlat
    /\ UNCHANGED <<nvFiles, nvMap, nvLayout, nvConfig, nvApp, nvNew, nvMove, nvNext, nvOps, nvBoots,
                   nvTouched, nvStranded, nvGone>>

(* Mutant of FlattenMappings: the pins stay.                               *)
FlattenMappingsNot ==
    /\ nvFlat.pc = "moves" /\ nvFlat.plan = {} /\ nvMove["flatten"].pc = "idle"
    /\ nvFlat' = [nvFlat EXCEPT !.pc = "layout"]
    /\ UNCHANGED <<nvFiles, nvMap, nvLayout, nvConfig, nvApp, nvNew, nvMove, nvNext, nvOps, nvFails, nvBoots,
                   nvTouched, nvStranded, nvGone>>

(* ... repoints the pins into projects/, ...                               *)
FlattenMappings ==
    /\ nvFlat.pc = "moves" /\ nvFlat.plan = {} /\ nvMove["flatten"].pc = "idle"
    /\ nvFlat' = [nvFlat EXCEPT !.pc = "layout"]
    /\ nvMap' = [n \in Names |-> IF nvMap[n] = "projects" THEN "" ELSE nvMap[n]]
    /\ UNCHANGED <<nvFiles, nvLayout, nvConfig, nvApp, nvNew, nvMove, nvNext, nvOps, nvFails, nvBoots,
                   nvTouched, nvStranded, nvGone>>

(* ... flips the layout, and records it in config.toml or warns.           *)
FlattenLayout ==
    /\ nvFlat.pc = "layout" /\ nvFlat' = [nvFlat EXCEPT !.pc = "record"] /\ nvLayout' = "flat"
    /\ UNCHANGED <<nvFiles, nvMap, nvConfig, nvApp, nvNew, nvMove, nvNext, nvOps, nvFails, nvBoots,
                   nvTouched, nvStranded, nvGone>>
FlattenRecord ==
    /\ nvFlat.pc = "record" /\ nvFlat' = [nvFlat EXCEPT !.pc = "idle"]
    /\ \/ nvConfig' = "flat" /\ UNCHANGED nvFails
       \/ Fault /\ UNCHANGED nvConfig
    /\ UNCHANGED <<nvFiles, nvMap, nvLayout, nvApp, nvNew, nvMove, nvNext, nvOps, nvBoots,
                   nvTouched, nvStranded, nvGone>>

(* A restart: the layout is the recorded one.  What a move had not         *)
(* repointed stays as it is.                                               *)
Restart ==
    /\ nvFails + nvBoots < MaxFaults /\ nvBoots' = nvBoots + 1
    /\ nvLayout' = nvConfig /\ nvApp' = [a \in Appenders |-> IdleApp] /\ nvNew' = NoPath
    /\ nvMove' = [m \in Movers |-> IdleMove] /\ nvFlat' = [IdleFlat EXCEPT !.skips = nvFlat.skips]
    /\ nvTouched' = nvTouched \union UNION {IF nvMove[m].pc \in {"walk", "write"} THEN {nvFiles[nvMove[m].to].id} ELSE {} : m \in Movers}
    /\ UNCHANGED <<nvFiles, nvMap, nvConfig, nvNext, nvOps, nvFails, nvStranded, nvGone>>

Next ==
    \/ \E a \in Appenders, p \in Paths : AppendReads(a, p)
    \/ \E a \in Appenders : AppendWrites(a)
    \/ \E p \in Paths : Write(p) \/ Delete(p) \/ FlattenMoves(p)
    \/ \E n \in Names : NewChecks(n) \/ \E d \in {"none", "projects"} : SetProjectMapping(n, d)
    \/ \E from, to \in Paths : HandMove(from, to)
    \/ \E m \in Movers : MoveRename(m) \/ MoveWrites(m) \/ MoveEnds(m) \/ MoveTimesOut(m)
    \/ \E m \in Movers, p \in Paths : MoveReads(m, p)
    \/ NewWrites \/ FlattenBegins \/ FlattenStops \/ FlattenMappings \/ FlattenLayout \/ FlattenRecord \/ Restart

Spec == Init /\ [][Next]_vars

TypeOK ==
    /\ nvLayout \in {"nested", "flat"} /\ nvConfig \in {"nested", "flat"} /\ nvMap \in [Names -> {"none", "projects", ""}]
    /\ nvFlat.pc \in {"idle", "moves", "layout", "record"} /\ nvFlat.skips \subseteq Paths
    /\ \A m \in Movers : nvMove[m].pc \in {"idle", "rename", "walk", "write"}

Settled == \A m \in Movers : nvMove[m].pc = "idle"

(* Whatever moves, by hand and in the migration, a link by path goes on    *)
(* naming the note it named, while the note is there: only what two wrote  *)
(* or moved at once, or a rewrite that did not finish, can leave it stale. *)
LinksFollow ==
    Settled => \A p \in Paths : \A l \in nvFiles[p].links :
        l.full /\ l.note \in Alive \ nvTouched /\ nvFiles[p].id \notin nvTouched => nvFiles[l.path].id = l.note

NoneOverwrittenStep == Alive \subseteq (Alive' \union nvGone')

(* No document disappears but by a delete, or when another one is created  *)
(* at its path between a check and the write.                              *)
NoneOverwritten == [][NoneOverwrittenStep]_vars

(* Once the vault is flat the documents of a project are where its         *)
(* directory now resolves, whether one migration did it or several that    *)
(* were cancelled or cut off by a restart, and in every later run: left    *)
(* behind are those the last one reported as skipped, and those filed by   *)
(* hand or by an older path.                                               *)
ProjectFound ==
    nvLayout = "flat" /\ nvFlat.pc = "idle" =>
        \A n \in Names :
            /\ Exists(Nested(n)) => Nested(n) \in nvFlat.skips \/ nvFiles[Nested(n)].id \in nvStranded \union nvTouched
            /\ nvStranded = {} => ResolvedProjectDir(n) = ""

(* vault.go:53: "all operations are concurrency-safe by virtue of being    *)
(* independent FS calls": what was appended stays.                         *)
AppendsKept == [][\A p \in Paths : nvFiles[p].id # 0 /\ nvFiles'[p].id = nvFiles[p].id => nvFiles[p].text \subseteq nvFiles'[p].text]_vars

(* flatten.go:20: driving Move for each document is "slower than moving    *)
(* directories wholesale, and correct": a link by base name too goes on    *)
(* naming its note.                                                        *)
BareLinksFollow ==
    Settled /\ nvTouched = {} => \A p \in Paths : \A l \in nvFiles[p].links :
        ~l.full /\ l.note \in Alive => \E q \in Paths : nvFiles[q].id = l.note /\ q.base = l.path.base
=============================================================================
