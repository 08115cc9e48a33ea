------------------------------- MODULE Canvas ---------------------------------
(***************************************************************************)
(* The canvases of one project (canvas/service.go, canvas.go, design.go,   *)
(* handler.go): the artifacts agents render, the focus the operator        *)
(* switches in the panel, the design system baked into every render, and   *)
(* the prompts seeded into sessions.  A document is [doc, blocks]: which   *)
(* text it is and the style blocks it carries.  A design is                *)
(* [colour, notation], colour 0 standing for no tokens.                    *)
(***************************************************************************)
EXTENDS Naturals, Sequences, FiniteSets, SequencesExt

CONSTANTS
    Calls,       \* concurrent calls of the handlers
    Slugs,       \* slugs of the project, "default" among them
    Colours,     \* colours a design system may have
    Kinds,       \* kinds a render may name
    MaxDocs,     \* bound: renders
    MaxOps       \* bound: other operations (focus, design, requests, deletions, restarts)

VARIABLES
    cnRows,      \* slug -> artifact, or NoRow
    cnIds,       \* artifacts ever inserted
    cnDocs,      \* documents rendered so far
    cnDesign,    \* the design system of the project
    cnFocus,     \* the focused slug, "" when none (in memory)
    cnCall,      \* cnCall[c]: the call under way
    cnPrompts,   \* prompts seeded into the session: [what, slug], oldest first
    cnOps,       \* other operations so far
    cnSwitched,  \* history: slug -> times the focus changed to it
    cnSeen       \* history: every <<id, version, html>> stored

vars == <<cnRows, cnIds, cnDocs, cnDesign, cnFocus, cnCall, cnPrompts, cnOps, cnSwitched, cnSeen>>

Default == "default"
NoRow == [id |-> 0, kind |-> "", version |-> 0, html |-> [doc |-> 0, blocks |-> <<>>]]
NoDesign == [colour |-> 0, notation |-> "hex"]
Blank == [doc |-> 0, blocks |-> <<>>]
Idle == [at |-> "idle", slug |-> "", kind |-> "", html |-> Blank, note |-> "", design |-> NoDesign, during |-> {}, raced |-> FALSE]

Notations == {"hex", "oklch"}
Designs == {NoDesign} \union [colour: Colours, notation: Notations]

(* Mutant of InjectDesign: the old block stays.                          *)
InjectStacks(html, design) ==
    [html EXCEPT !.blocks = IF design.colour = 0 THEN @ ELSE <<design>> \o @]

(* Mutant of InjectDesign: a document with a block is left alone.        *)
InjectOnce(html, design) ==
    IF html.blocks # <<>> THEN html
    ELSE [html EXCEPT !.blocks = IF design.colour = 0 THEN <<>> ELSE <<design>>]

(* injectDesign: the block of an earlier render goes, the new one is put   *)
(* in; without tokens StyleBlock is empty and nothing is put in.           *)
InjectDesign(html, design) ==
    [html EXCEPT !.blocks = IF design.colour = 0 THEN <<>> ELSE <<design>>]

(* Mutant of KeepNotation: the picker's hex is stored.                   *)
NotationLost(new, prev) == new

(* keepNotation and reencode: a hex colour is rewritten into the notation  *)
(* the token was written in.                                               *)
KeepNotation(new, prev) ==
    IF prev.colour # 0 /\ new.notation = "hex" THEN [new EXCEPT !.notation = prev.notation] ELSE new

(* ResolveSlug: the explicit slug, else the focus, else the default.       *)
ResolveSlug(slug, focus) ==
    IF slug # "" THEN slug ELSE IF focus # "" THEN focus ELSE Default

(* Mutant of Replaced: the version stays.                                *)
ReplacedSameVersion(row, kind, html) == [row EXCEPT !.kind = IF kind = "" THEN @ ELSE kind, !.html = html]

(* The ON CONFLICT arm of Upsert: version and html move, id stays, and an  *)
(* empty kind keeps the stored one.                                        *)
Replaced(row, kind, html) ==
    [row EXCEPT !.kind = IF kind = "" THEN @ ELSE kind, !.html = html, !.version = @ + 1]

Inserted(id, kind, html) ==
    [id |-> id, kind |-> IF kind = "" THEN "ui" ELSE kind, html |-> html, version |-> 1]

Live == {s \in Slugs: cnRows[s] # NoRow}
Spend == cnOps < MaxOps /\ cnOps' = cnOps + 1
Enter(c, call) == cnCall' = [cnCall EXCEPT ![c] = call]

Init ==
    /\ cnRows = [s \in Slugs |-> NoRow] /\ cnIds = 0 /\ cnDocs = 0
    /\ cnDesign = NoDesign /\ cnFocus = "" /\ cnPrompts = <<>>
    /\ cnCall = [c \in Calls |-> Idle]
    /\ cnOps = 0
    /\ cnSwitched = [s \in Slugs |-> 0] /\ cnSeen = {}

(* Render reads the design and bakes it into the document the agent sends, *)
(* a new one or one it read back; a failed read leaves the document alone. *)
Render(c) ==
    /\ cnCall[c].at = "idle" /\ cnDocs < MaxDocs /\ cnDocs' = cnDocs + 1
    /\ \E slug \in Slugs \union {""}, kind \in Kinds,
          base \in {<<>>} \union {cnRows[s].html.blocks: s \in Live}, reads \in BOOLEAN:
        LET html == [doc |-> cnDocs + 1, blocks |-> base]
        IN  Enter(c, [Idle EXCEPT !.at = "render", !.slug = slug, !.kind = kind, !.during = {cnDesign},
                                  !.html = IF reads THEN InjectDesign(html, cnDesign) ELSE html,
                                  !.raced = ~reads])
    /\ UNCHANGED <<cnRows, cnIds, cnDesign, cnFocus, cnPrompts, cnOps, cnSwitched, cnSeen>>

(* It picks the slug, ...                                                  *)
Resolve(c) ==
    /\ cnCall[c].at = "render"
    /\ Enter(c, [cnCall[c] EXCEPT !.at = "upsert", !.slug = ResolveSlug(@, cnFocus)])
    /\ UNCHANGED <<cnRows, cnIds, cnDocs, cnDesign, cnFocus, cnPrompts, cnOps, cnSwitched, cnSeen>>

(* ... and upserts the artifact.                                           *)
Upsert(c) ==
    LET call == cnCall[c]
        old  == cnRows[call.slug]
        new  == IF old = NoRow THEN Inserted(cnIds + 1, call.kind, call.html)
                ELSE Replaced(old, call.kind, call.html)
    IN  /\ call.at = "upsert" /\ Enter(c, Idle)
        /\ cnRows' = [cnRows EXCEPT ![call.slug] = new]
        /\ cnIds' = IF old = NoRow THEN cnIds + 1 ELSE cnIds
        /\ cnSeen' = cnSeen \union {<<new.id, new.version, new.html>>}
        /\ UNCHANGED <<cnDocs, cnDesign, cnFocus, cnPrompts, cnOps, cnSwitched>>

(* Mutant of SetFocus: selecting the same canvas notifies again.         *)
SetFocusRenotifies(c) ==
    /\ cnCall[c].at = "idle" /\ Spend
    /\ \E slug \in Slugs \union {""}, notify \in BOOLEAN:
        /\ cnFocus' = slug
        /\ cnSwitched' = IF slug # "" /\ slug # cnFocus THEN [cnSwitched EXCEPT ![slug] = @ + 1] ELSE cnSwitched
        /\ Enter(c, IF slug = "" THEN Idle
                    ELSE [Idle EXCEPT !.at = "focus", !.slug = slug,
                                      !.note = IF notify THEN "focus" ELSE ""])
    /\ UNCHANGED <<cnRows, cnIds, cnDocs, cnDesign, cnPrompts, cnSeen>>

(* SetFocus stores the slug, whether or not there is such a canvas; only   *)
(* an explicit switch to another slug goes on to tell the session.         *)
SetFocus(c) ==
    /\ cnCall[c].at = "idle" /\ Spend
    /\ \E slug \in Slugs \union {""}, notify \in BOOLEAN:
        /\ cnFocus' = slug
        /\ cnSwitched' = IF slug # "" /\ slug # cnFocus THEN [cnSwitched EXCEPT ![slug] = @ + 1] ELSE cnSwitched
        /\ Enter(c, IF slug = "" THEN Idle
                    ELSE [Idle EXCEPT !.at = "focus", !.slug = slug,
                                      !.note = IF notify /\ slug # cnFocus THEN "focus" ELSE ""])
    /\ UNCHANGED <<cnRows, cnIds, cnDocs, cnDesign, cnPrompts, cnSeen>>

(* The artifact is read after the focus is stored: none is a 404.          *)
FocusRead(c) ==
    /\ cnCall[c].at = "focus"
    /\ Enter(c, IF cnCall[c].slug \in Live /\ cnCall[c].note = "focus"
                THEN [cnCall[c] EXCEPT !.at = "seed"] ELSE Idle)
    /\ UNCHANGED <<cnRows, cnIds, cnDocs, cnDesign, cnFocus, cnPrompts, cnOps, cnSwitched, cnSeen>>

(* SubmitFeedback reads the artifact the operator annotated; RequestDesign *)
(* and RequestDesignTask name the canvas the panel shows, or none.         *)
Ask(c) ==
    /\ cnCall[c].at = "idle" /\ Spend
    /\ \/ \E s \in Live: Enter(c, [Idle EXCEPT !.at = "seed", !.slug = s, !.note = "feedback"])
       \/ \E s \in Live \union {""}: Enter(c, [Idle EXCEPT !.at = "seed", !.slug = s, !.note = "request"])
    /\ UNCHANGED <<cnRows, cnIds, cnDocs, cnDesign, cnFocus, cnPrompts, cnSwitched, cnSeen>>

(* Seed: the prompt reaches the session, or it is not running.             *)
Seed(c) ==
    /\ cnCall[c].at = "seed" /\ Enter(c, Idle)
    /\ cnPrompts' \in {cnPrompts, Append(cnPrompts, [what |-> cnCall[c].note, slug |-> cnCall[c].slug])}
    /\ UNCHANGED <<cnRows, cnIds, cnDocs, cnDesign, cnFocus, cnOps, cnSwitched, cnSeen>>

(* SetDesign by an agent: the notation is the one it chose.                *)
WriteDesign(d) ==
    /\ cnDesign' = d
    /\ cnCall' = [c \in Calls |-> IF cnCall[c].at \in {"render", "upsert"} THEN [cnCall[c] EXCEPT !.during = @ \union {d}]
                                  ELSE IF cnCall[c].at = "pick" THEN [cnCall[c] EXCEPT !.raced = TRUE] ELSE cnCall[c]]

AgentDesign ==
    /\ Spend /\ \E d \in Designs: WriteDesign(d)
    /\ UNCHANGED <<cnRows, cnIds, cnDocs, cnFocus, cnPrompts, cnSwitched, cnSeen>>

(* SetDesign by a panel, whose picker only emits hex: the tokens it        *)
(* replaces are read first, ...                                            *)
PickRead(c) ==
    /\ cnCall[c].at = "idle" /\ Spend
    /\ \E colour \in Colours:
        Enter(c, [Idle EXCEPT !.at = "pick", !.design = KeepNotation([colour |-> colour, notation |-> "hex"], cnDesign)])
    /\ UNCHANGED <<cnRows, cnIds, cnDocs, cnDesign, cnFocus, cnPrompts, cnSwitched, cnSeen>>

(* ... and the rewritten ones stored.                                      *)
PickWrite(c) ==
    /\ cnCall[c].at = "pick" /\ cnDesign' = cnCall[c].design
    /\ cnCall' = [d \in Calls |->
                    IF d = c THEN Idle
                    ELSE IF cnCall[d].at \in {"render", "upsert"} THEN [cnCall[d] EXCEPT !.during = @ \union {cnCall[c].design}]
                    ELSE IF cnCall[d].at = "pick" THEN [cnCall[d] EXCEPT !.raced = TRUE] ELSE cnCall[d]]
    /\ UNCHANGED <<cnRows, cnIds, cnDocs, cnFocus, cnPrompts, cnOps, cnSwitched, cnSeen>>

(* Delete leaves the focus where it is.                                    *)
Delete(s) ==
    /\ s \in Live /\ Spend /\ cnRows' = [cnRows EXCEPT ![s] = NoRow]
    /\ UNCHANGED <<cnIds, cnDocs, cnDesign, cnFocus, cnCall, cnPrompts, cnSwitched, cnSeen>>

(* The gateway restarts: the focus lives in memory.                        *)
Restart ==
    /\ Spend /\ cnFocus' = "" /\ cnCall' = [c \in Calls |-> Idle]
    /\ UNCHANGED <<cnRows, cnIds, cnDocs, cnDesign, cnPrompts, cnSwitched, cnSeen>>

Next ==
    \/ \E c \in Calls: Render(c) \/ Resolve(c) \/ Upsert(c) \/ SetFocus(c) \/ FocusRead(c)
                       \/ Ask(c) \/ Seed(c) \/ PickRead(c) \/ PickWrite(c)
    \/ \E s \in Slugs: Delete(s)
    \/ AgentDesign \/ Restart

Spec == Init /\ [][Next]_vars

Notes(slug) == {i \in DOMAIN cnPrompts: cnPrompts[i] = [what |-> "focus", slug |-> slug]}

(* The state has the shape the code gives it.                              *)
TypeOK ==
    /\ cnFocus \in Slugs \union {""} /\ cnDesign \in Designs
    /\ \A s \in Slugs: cnRows[s].id \in 0..cnIds /\ cnRows[s].kind \in Kinds \union {"", "ui"}
    /\ \A c \in Calls: cnCall[c].at \in {"idle", "render", "upsert", "focus", "seed", "pick"}

(* "Re-selecting the same canvas never re-notifies" (SetFocus): whatever   *)
(* calls overlap, the session hears of a canvas at most as often as the    *)
(* focus moved to it.                                                      *)
NotifiedOnce == \A s \in Slugs: Cardinality(Notes(s)) <= cnSwitched[s]

(* The panel refetches by id and version (Upsert): one version of one      *)
(* artifact is one document, across concurrent renders, deletions and      *)
(* re-creations.                                                           *)
VersionNamesContent == \A a, b \in cnSeen: a[1] = b[1] /\ a[2] = b[2] => a[3] = b[3]

(* "re-rendering can't stack them" (injectDesign): however often an agent  *)
(* reads a canvas back and renders it again, at most one style block is    *)
(* in what it stores.                                                      *)
OneStyleBlock ==
    /\ \A s \in Slugs: Len(cnRows[s].html.blocks) <= 1
    /\ \A c \in Calls: Len(cnCall[c].html.blocks) <= 1

(* A render whose design could be read carries a design that was in force  *)
(* while it ran, never the one of the document it was made from (Render).  *)
StyleInForce ==
    \A c \in Calls: cnCall[c].at \in {"render", "upsert"} /\ ~cnCall[c].raced =>
        \E d \in cnCall[c].during:
            cnCall[c].html.blocks = IF d.colour = 0 THEN <<>> ELSE <<d>>

PickerKeepsNotationStep ==
    \A c \in Calls: cnCall[c].at = "pick" /\ cnCall'[c].at = "idle" /\ cnDesign' = cnCall[c].design
          /\ cnDesign.colour # 0 /\ ~cnCall[c].raced => cnDesign'.notation = cnDesign.notation

(* "editing one swatch of an oklch theme" with the picker leaves the       *)
(* notation of the theme (SetDesign), unless another write came between.   *)
PickerKeepsNotation == [][PickerKeepsNotationStep]_vars

(* The canvas the session was last told is "THIS canvas" (formatFocusNote) *)
(* is the focused one, once no call is under way.                          *)
ToldIsFocused ==
    (\A c \in Calls: cnCall[c].at = "idle") /\ cnPrompts # <<>> /\ Last(cnPrompts).what = "focus" /\ cnFocus # ""
        => Last(cnPrompts).slug = cnFocus

(* "so a later token change re-styles every canvas" (PromptBlock): every   *)
(* stored canvas carries the design in force once no call is under way.    *)
StylesFollow ==
    (\A c \in Calls: cnCall[c].at = "idle") =>
        \A s \in Live: cnRows[s].html.blocks = IF cnDesign.colour = 0 THEN <<>> ELSE <<cnDesign>>
=============================================================================
