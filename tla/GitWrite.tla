------------------------------ MODULE GitWrite ------------------------------
(***************************************************************************)
(* The git pane's write side (git/write.go, git/credentials.go and the     *)
(* status parser of git/handler.go): branches are made, switched and       *)
(* deleted, changes staged, committed and pushed in the work tree an agent *)
(* is editing.  A request runs several git commands; the agent works and   *)
(* others push between them.  A commit is the set of the edits it holds; a *)
(* branch without any is not at the remote.                                *)
(***************************************************************************)
EXTENDS Naturals, Sequences, SequencesExt

CONSTANTS
    Branches,    \* branch names, "main" among them
    Reqs,        \* requests under way
    MaxEdits,    \* bound: edits of the agent
    MaxTheirs,   \* bound: edits others push
    MaxOps,      \* bound: requests
    MaxMoves     \* bound: changes of the remote's URL, of the credential and of a detached HEAD

VARIABLES
    gwTip,       \* branch -> its edits
    gwHere,      \* local branches there are
    gwHead,      \* branch checked out, "" for a detached HEAD
    gwOff,       \* the commit of a detached HEAD
    gwWork,      \* unstaged and untracked edits
    gwIndex,     \* staged edits
    gwStash,     \* stashed edits
    gwRemote,    \* branch -> its edits at the remote
    gwSeen,      \* branch -> its remote-tracking ref
    gwUp,        \* branches with an upstream
    gwUrl,       \* scheme of origin: "https", "ssh"
    gwCred,      \* a credential is configured for the host
    gwReq,       \* request -> what it does
    gwEdits, gwTheirs, gwOps, gwMoves,
    gwForced,    \* history: edits an operator deleted or overwrote with force
    gwLeft,      \* history: commits of a detached HEAD that was left
    gwLate,      \* history: edits made while a switch was under way, or taken along by "create and switch"
    gwAs         \* history: [who, moved] of every push that reached the remote

vars == <<gwTip, gwHere, gwHead, gwOff, gwWork, gwIndex, gwStash, gwRemote, gwSeen, gwUp, gwUrl, gwCred, gwReq, gwEdits, gwTheirs, gwOps, gwMoves, gwForced, gwLeft, gwLate, gwAs>>
remote == <<gwRemote, gwSeen, gwUp, gwAs>>
around == <<gwUrl, gwCred, gwEdits, gwTheirs, gwMoves>>
past == <<gwForced, gwLeft, gwLate>>

Idle == [op |-> "", pc |-> "", name |-> "", flag |-> FALSE, sign |-> "", scheme |-> "", token |-> FALSE]
At == IF gwHead = "" THEN gwOff ELSE gwTip[gwHead]
Switching == \E r \in Reqs : gwReq[r].op = "checkout"

Init ==
    /\ gwTip = [b \in Branches |-> {}] /\ gwHere = {"main"} /\ gwHead = "main" /\ gwOff = {}
    /\ gwWork = {} /\ gwIndex = {} /\ gwStash = {}
    /\ gwRemote = [b \in Branches |-> {}] /\ gwSeen = [b \in Branches |-> {}] /\ gwUp = {}
    /\ gwUrl = "https" /\ gwCred = FALSE /\ gwReq = [r \in Reqs |-> Idle]
    /\ gwEdits = 0 /\ gwTheirs = 0 /\ gwOps = 0 /\ gwMoves = 0
    /\ gwForced = {} /\ gwLeft = {} /\ gwLate = {} /\ gwAs = {}

(* The agent edits a file, fetches, or goes to a detached HEAD; others     *)
(* push; the remote's URL and the configured credential change.            *)
AgentEdits ==
    /\ gwEdits < MaxEdits /\ gwEdits' = gwEdits + 1 /\ gwWork' = gwWork \union {gwEdits + 1}
    /\ gwLate' = IF Switching THEN gwLate \union {gwEdits + 1} ELSE gwLate
    /\ UNCHANGED <<gwTip, gwHere, gwHead, gwOff, gwIndex, gwStash, remote, gwUrl, gwCred, gwReq, gwTheirs, gwOps, gwMoves, gwForced, gwLeft>>
AgentFetches ==
    /\ gwSeen # gwRemote /\ gwSeen' = gwRemote
    /\ UNCHANGED <<gwTip, gwHere, gwHead, gwOff, gwWork, gwIndex, gwStash, gwRemote, gwUp, gwAs, gwReq, gwOps, around, past>>
AgentDetaches ==
    /\ gwMoves < MaxMoves /\ gwMoves' = gwMoves + 1 /\ gwHead # "" /\ gwHead' = "" /\ gwOff' = At
    /\ UNCHANGED <<gwTip, gwHere, gwWork, gwIndex, gwStash, remote, gwUrl, gwCred, gwReq, gwEdits, gwTheirs, gwOps, past>>
TheirPush(b) ==
    /\ gwTheirs < MaxTheirs /\ gwTheirs' = gwTheirs + 1 /\ gwRemote' = [gwRemote EXCEPT ![b] = @ \union {100 + gwTheirs}]
    /\ UNCHANGED <<gwTip, gwHere, gwHead, gwOff, gwWork, gwIndex, gwStash, gwSeen, gwUp, gwAs, gwUrl, gwCred, gwReq, gwEdits, gwOps, gwMoves, past>>
Reconfigured ==
    /\ gwMoves < MaxMoves /\ gwMoves' = gwMoves + 1
    /\ \/ gwCred' = ~gwCred /\ UNCHANGED gwUrl
       \/ gwUrl' = (IF gwUrl = "https" THEN "ssh" ELSE "https") /\ UNCHANGED gwCred
    /\ UNCHANGED <<gwTip, gwHere, gwHead, gwOff, gwWork, gwIndex, gwStash, remote, gwReq, gwEdits, gwTheirs, gwOps, past>>

Begins(r, op, name, flag, pc) ==
    /\ gwReq[r] = Idle /\ gwOps < MaxOps /\ gwOps' = gwOps + 1
    /\ gwReq' = [gwReq EXCEPT ![r] = [Idle EXCEPT !.op = op, !.name = name, !.flag = flag, !.pc = pc]]
Ends(r) == gwReq' = [gwReq EXCEPT ![r] = Idle]
One == gwOps < MaxOps /\ gwOps' = gwOps + 1 /\ UNCHANGED gwReq

(* createBranch: `git branch`, then `git checkout` without a look at the   *)
(* work tree when the request asks to switch.                              *)
CreateBranch(r, name, switch) ==
    /\ name \notin gwHere /\ gwHere' = gwHere \union {name} /\ gwTip' = [gwTip EXCEPT ![name] = At]
    /\ IF switch THEN Begins(r, "create", name, TRUE, "switch") ELSE One
    /\ UNCHANGED <<gwHead, gwOff, gwWork, gwIndex, gwStash, remote, around, past>>

(* Mutant of dirty: staged changes are overlooked.                         *)
dirtyUnstaged == gwWork # {}
(* dirtyFiles: staged, unstaged and untracked.                             *)
dirty == gwWork # {} \/ gwIndex # {}

(* checkoutBranch looks at the work tree; dirty, it is refused, or stashed *)
(* when the operator asked for that.                                       *)
CheckoutChecks(r, name, stash) ==
    /\ IF dirty /\ ~stash THEN One ELSE Begins(r, "checkout", name, stash, IF dirty THEN "stash" ELSE "switch")
    /\ UNCHANGED <<gwTip, gwHere, gwHead, gwOff, gwWork, gwIndex, gwStash, remote, around, past>>
CheckoutStashes(r) ==
    /\ gwReq[r].pc = "stash" /\ gwReq' = [gwReq EXCEPT ![r].pc = "switch"]
    /\ gwStash' = gwStash \union gwWork \union gwIndex /\ gwWork' = {} /\ gwIndex' = {}
    /\ UNCHANGED <<gwTip, gwHere, gwHead, gwOff, remote, gwOps, around, past>>

(* Mutant of Carried: changes under way are thrown away by the switch.     *)
CarriedNot(set) == {}
Carried(set) == set
(* `git checkout name`: a remote branch becomes a local one; changes are   *)
(* taken along, unless git refuses because both sides have the file.       *)
Switch(r) ==
    LET name == gwReq[r].name
        to == IF name \in gwHere THEN gwTip[name] ELSE gwSeen[name] IN
    /\ gwReq[r].pc = "switch" /\ Ends(r)
    /\ \/ /\ name \in gwHere \/ gwSeen[name] # {}
          /\ gwHere' = gwHere \union {name} /\ gwTip' = [gwTip EXCEPT ![name] = to]
          /\ gwUp' = IF name \in gwHere THEN gwUp ELSE gwUp \union {name}
          /\ gwHead' = name /\ gwOff' = {} /\ gwLeft' = gwLeft \union gwOff
          /\ gwWork' = Carried(gwWork) /\ gwIndex' = Carried(gwIndex)
          /\ gwLate' = IF gwReq[r].op = "create" THEN gwLate \union gwWork \union gwIndex ELSE gwLate
       \/ /\ dirty \/ (name \notin gwHere /\ gwSeen[name] = {})
          /\ UNCHANGED <<gwHere, gwTip, gwUp, gwHead, gwOff, gwLeft, gwWork, gwIndex, gwLate>>
    /\ UNCHANGED <<gwStash, gwRemote, gwSeen, gwAs, gwOps, around, gwForced>>

(* Mutant of DeleteBranch: the branch may be the one checked out.          *)
DeleteBranchHere(name, force) ==
    /\ name \in gwHere /\ One /\ gwHere' = gwHere \ {name}
    /\ UNCHANGED <<gwTip, gwUp, gwForced, gwHead, gwOff, gwWork, gwIndex, gwStash, gwRemote, gwSeen, gwAs, around, gwLeft, gwLate>>

(* deleteBranch: -d asks git whether the branch is merged, into its        *)
(* upstream, while there is one, or into HEAD; -D does not.                *)
Merged(name) == gwTip[name] \subseteq (IF name \in gwUp /\ gwSeen[name] # {} THEN gwSeen[name] ELSE At)
DeleteBranch(name, force) ==
    /\ name \in gwHere /\ name # gwHead /\ (Merged(name) \/ force) /\ One
    /\ gwHere' = gwHere \ {name} /\ gwTip' = [gwTip EXCEPT ![name] = {}] /\ gwUp' = gwUp \ {name}
    /\ gwForced' = IF force THEN gwForced \union gwTip[name] ELSE gwForced
    /\ UNCHANGED <<gwHead, gwOff, gwWork, gwIndex, gwStash, gwRemote, gwSeen, gwAs, around, gwLeft, gwLate>>

(* stageFiles, unstageFiles: the files named, or all of them.              *)
Stage(files) ==
    /\ files # {} /\ files \subseteq gwWork /\ One /\ gwWork' = gwWork \ files /\ gwIndex' = gwIndex \union files
    /\ UNCHANGED <<gwTip, gwHere, gwHead, gwOff, gwStash, remote, around, past>>
Unstage(files) ==
    /\ files # {} /\ files \subseteq gwIndex /\ One /\ gwIndex' = gwIndex \ files /\ gwWork' = gwWork \union files
    /\ UNCHANGED <<gwTip, gwHere, gwHead, gwOff, gwStash, remote, around, past>>
(* commit takes what is staged, on whatever HEAD is by now.                *)
Commit ==
    /\ gwIndex # {} /\ One /\ gwIndex' = {}
    /\ IF gwHead = "" THEN gwOff' = gwOff \union gwIndex /\ UNCHANGED gwTip
                      ELSE gwTip' = [gwTip EXCEPT ![gwHead] = @ \union gwIndex] /\ UNCHANGED gwOff
    /\ UNCHANGED <<gwHere, gwHead, gwWork, gwStash, remote, around, past>>

(* validBranchName: a leading "-" or a blank is refused.                   *)
Signs == {"", "+", ":"}
(* push: the branch is HEAD's unless named, a detached HEAD is refused;    *)
(* then authArgs reads the remote's URL and the credential, and git runs.  *)
(* What is named may be a refspec: "+b" forces, ":b" deletes.              *)
PushBegins(r, sign, name, force) ==
    LET branch == IF name = "" THEN gwHead ELSE name IN
    /\ branch # "" /\ gwReq[r] = Idle /\ gwOps < MaxOps /\ gwOps' = gwOps + 1
    /\ gwReq' = [gwReq EXCEPT ![r] = [Idle EXCEPT !.op = "push", !.name = branch, !.flag = force, !.sign = IF name = "" THEN "" ELSE sign, !.pc = "auth"]]
    /\ UNCHANGED <<gwTip, gwHere, gwHead, gwOff, gwWork, gwIndex, gwStash, remote, around, past>>
PushAuth(r) ==
    /\ gwReq[r].pc = "auth" /\ gwReq' = [gwReq EXCEPT ![r].pc = "push", ![r].scheme = gwUrl, ![r].token = gwCred]
    /\ UNCHANGED <<gwTip, gwHere, gwHead, gwOff, gwWork, gwIndex, gwStash, remote, gwOps, around, past>>

(* Mutant of authArgs: the host's helpers are blanked only for a token.    *)
authArgsLax(scheme, token) == scheme = "https" /\ token
(* The inherited helpers are blanked, with a token or without.             *)
authArgs(scheme, token) == scheme = "https"
Who(q) == IF gwUrl = "ssh" THEN "key" ELSE IF ~authArgs(q.scheme, q.token) THEN "ambient" ELSE IF q.token THEN "token" ELSE ""

(* Mutant of Accepted: a plain --force.                                    *)
AcceptedForced(name, force) == force \/ gwRemote[name] \subseteq gwTip[name]
(* The remote takes a fast-forward, or with --force-with-lease any push    *)
(* while it still is what the tracking ref says.                           *)
Accepted(name, force) == IF force THEN gwRemote[name] = gwSeen[name] ELSE gwRemote[name] \subseteq gwTip[name]

(* "+" overrules the lease; a deletion asks for no fast-forward, only for  *)
(* the lease when there is one.                                            *)
Possible(q) ==
    CASE q.sign = ""  -> q.name \in gwHere /\ Accepted(q.name, q.flag)
      [] q.sign = "+" -> q.name \in gwHere
      [] q.sign = ":" -> gwRemote[q.name] # {} /\ (q.flag => Accepted(q.name, TRUE))
PushRuns(r, up) ==
    LET q == gwReq[r]
        tip == IF q.sign = ":" THEN {} ELSE gwTip[q.name] IN
    /\ q.pc = "push" /\ Ends(r)
    /\ IF Who(q) # "" /\ Possible(q)
       THEN /\ gwForced' = gwForced \union (gwRemote[q.name] \ tip)
            /\ gwRemote' = [gwRemote EXCEPT ![q.name] = tip] /\ gwSeen' = [gwSeen EXCEPT ![q.name] = tip]
            /\ gwUp' = (IF up /\ q.sign # ":" THEN gwUp \union {q.name} ELSE gwUp) /\ gwAs' = gwAs \union {[who |-> Who(q), moved |-> q.scheme # gwUrl]}
       ELSE UNCHANGED <<remote, gwForced>>
    /\ UNCHANGED <<gwTip, gwHere, gwHead, gwOff, gwWork, gwIndex, gwStash, gwOps, around, gwLeft, gwLate>>

Next ==
    \/ AgentEdits \/ AgentFetches \/ AgentDetaches \/ Reconfigured \/ Commit
    \/ \E b \in Branches : TheirPush(b) \/ \E force \in BOOLEAN : DeleteBranch(b, force)
    \/ \E e \in 1..MaxEdits : Stage({e}) \/ Unstage({e})
    \/ Stage(gwWork) \/ Unstage(gwIndex)
    \/ \E r \in Reqs : \/ CheckoutStashes(r) \/ Switch(r) \/ PushAuth(r)
                       \/ \E b \in Branches, f \in BOOLEAN : CreateBranch(r, b, f) \/ CheckoutChecks(r, b, f)
                       \/ \E sign \in Signs, b \in Branches \union {""}, f \in BOOLEAN : PushBegins(r, sign, b, f)
                       \/ \E up \in BOOLEAN : PushRuns(r, up)

Spec == Init /\ [][Next]_vars

-----------------------------------------------------------------------------
(* `git status -z`: an entry is a token "XY path", a rename or a copy is   *)
(* followed by its old path, in either column.                             *)
Kinds == {"edit", "rename", "worktree rename"}
Tokens(kind) == CASE kind = "edit" -> <<"M  p">> [] kind = "rename" -> <<"R  p", "old">> [] kind = "worktree rename" -> <<" R p", "old">>
Status(kinds) == FlattenSeq([i \in 1..Len(kinds) |-> Tokens(kinds[i])])

(* Mutant of parseStatus: the old path is not skipped.                     *)
parseStatusUnskipped(tokens) == Len(tokens)
(* parseStatus: the token after an entry whose first column is R or C is   *)
(* its old path.  What matters is how many entries come out.               *)
parseStatus(tokens) ==
    LET skip[i \in 0..Len(tokens)] == i > 0 /\ ~skip[i - 1] /\ tokens[i] = "R  p"
    IN Len(tokens) - Len(SelectSeq([i \in 1..Len(tokens) |-> skip[i - 1]], LAMBDA b : b))

TypeOK ==
    /\ gwHere \subseteq Branches /\ gwHead \in gwHere \union {""} /\ gwUp \subseteq gwHere
    /\ \A r \in Reqs : gwReq[r].pc \in {"", "stash", "switch", "auth", "push"}

(* No edit of the agent is lost by a click: it is in the work tree, the    *)
(* index, the stash, a branch or the remote, unless the operator asked for *)
(* force or left commits of a detached HEAD.                               *)
NothingLost ==
    \A e \in 1..gwEdits :
        e \in gwWork \union gwIndex \union gwStash \union gwOff \union gwForced \union gwLeft
              \union UNION {gwTip[b] \union gwRemote[b] : b \in Branches}

SwitchTakesNothingAlongStep == gwHead # gwHead' /\ gwHead' # "" => (gwWork' \union gwIndex') \subseteq gwLate'

(* "Checkout / delete refuse a dirty working tree": a switch takes along   *)
(* only changes that were made after its look at the tree, and those of    *)
(* "create and switch".                                                    *)
SwitchTakesNothingAlong == [][SwitchTakesNothingAlongStep]_vars

Signed(b) == \E r \in Reqs : gwReq[r].pc = "push" /\ gwReq[r].name = b /\ gwReq[r].sign # ""
RemoteLosesOnlySeenStep == \A b \in Branches : gwRemote[b] \ gwRemote'[b] \subseteq gwSeen[b] \/ Signed(b)

(* A push, forced or not, never drops from the remote what this repository *)
(* had not fetched, unless its branch was named with a sign of git's.      *)
RemoteLosesOnlySeen == [][RemoteLosesOnlySeenStep]_vars

(* An HTTPS push authenticates with the configured credential and nothing  *)
(* else, unless the remote's URL changed under it.                         *)
OnlyConfigured == \A a \in gwAs : a.who = "ambient" => a.moved

(* Every entry of the index comes out of the parser once.                  *)
StatusParsesBack == \A n \in 0..3 : \A kinds \in [1..n -> Kinds \ {"worktree rename"}] : parseStatus(Status(kinds)) = n

(* write.go:23: "lossy ops should be opt-in from the terminal, not         *)
(* surprising clicks".                                                     *)
NoSurprisingClick == gwLeft \subseteq UNION {gwTip[b] \union gwRemote[b] : b \in Branches} \union gwForced
PlainPushAddsStep == \A r \in Reqs, b \in Branches :
    (gwReq[r].pc = "push" /\ gwReq'[r] = Idle /\ ~gwReq[r].flag /\ gwReq[r].name = b) => gwRemote[b] \subseteq gwRemote'[b]
(* write.go:458: "Force=true upgrades to --force-with-lease": a push that  *)
(* was not asked to force drops nothing.                                   *)
PlainPushAdds == [][PlainPushAddsStep]_vars
(* handler.go:343: "Renames produce two NUL-separated tokens".             *)
RenamesParseBack == \A n \in 0..3 : \A kinds \in [1..n -> Kinds] : parseStatus(Status(kinds)) = n
=============================================================================
