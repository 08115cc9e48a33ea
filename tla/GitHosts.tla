------------------------------ MODULE GitHosts ------------------------------
(***************************************************************************)
(* Git hosts: the credentials of the forges (GitHub, Gitea, GitLab), the   *)
(* pull-request calls made with them, and the watcher that polls the       *)
(* checks of open pull requests and announces their outcome.  One remote,  *)
(* whose owner may have a credential of its own beside the host-wide one,  *)
(* and one pull request on it.                                             *)
(***************************************************************************)
EXTENDS Naturals, Sequences, FiniteSets

CONSTANTS
    Kinds,      \* kinds of forge considered
    Secrets,    \* tokens the operator enters
    Checks,     \* names of the checks of a commit
    Statuses,   \* statuses the forge reports for a check
    MaxCommits, \* bound: head commits of the pull request
    MaxAdmin,   \* bound: edits of credentials and changes of the key
    MaxCalls,   \* bound: calls of the operator
    MaxWorld,   \* bound: pushes and check results
    MaxPolls,   \* bound: polls of the watcher
    MaxBoots    \* bound: starts of the gateway

VARIABLES
    ghKind,
    ghRow,     \* the git_hosts rows, "owner" and "wide": present, enabled, stored token
    ghGiven,   \* history: the token the operator last entered
    ghKey,     \* the key of the cipher, 0 when it is not armed
    ghEdit,    \* an update that has read its row
    ghSent,    \* history: the last request: the row whose token it carries
    ghPr,      \* the forge: state, from a fork, behind its base, head commit
    ghBranch,  \* the forge: the head branch of the pull request, and a branch of that name in the repository
    ghSuite,   \* the forge: ghSuite[c][k]: statuses reported for check k of commit c
    ghCall,    \* the operator's call in flight: operation, step, delete_branch
    ghReply,   \* what the last call answered
    ghWatch,   \* the poll: phase, seed, commit whose checks are asked for
    ghSeen,    \* prState of the pull request
    ghTold,    \* history: announcements: number, conclusion, commit, what the forge said then
    ghObs,     \* history: an unfinished run was observed since the last announcement
    ghOld,     \* history: what was over when the gateway came up: commit and verdict
    ghCount    \* the bounds' counters

creds == <<ghRow, ghGiven, ghKey, ghEdit>>
forge == <<ghPr, ghBranch, ghSuite>>
watch == <<ghWatch, ghSeen, ghTold, ghObs, ghOld>>
call  == <<ghCall, ghReply>>
vars  == <<ghKind, creds, ghSent, forge, call, watch, ghCount>>

NoTok  == [secret |-> 0, key |-> 0]
NoRow  == [on |-> FALSE, enabled |-> FALSE, tok |-> NoTok]
NoEdit == [on |-> FALSE, scope |-> "wide", row |-> NoRow, tok |-> 0, enabled |-> FALSE]
NoCall == [op |-> "none", step |-> "", del |-> FALSE]
Unseen == [on |-> FALSE, terminal |-> FALSE, conclusion |-> ""]
NoPoll == [phase |-> "off", seed |-> FALSE, sha |-> 0]

Init ==
    /\ ghKind \in Kinds /\ ghRow = [s \in {"owner", "wide"} |-> NoRow] /\ ghGiven = [s \in {"owner", "wide"} |-> 0]
    /\ ghKey = 1 /\ ghEdit = NoEdit /\ ghSent = [n |-> 0, scope |-> "none"]
    /\ ghPr \in [state : {"none"}, fork : BOOLEAN, behind : {FALSE}, head : {0}]
    /\ ghBranch = [pr |-> TRUE, same |-> TRUE] /\ ghSuite = [c \in 1..MaxCommits |-> [k \in Checks |-> <<>>]]
    /\ ghCall = NoCall /\ ghReply = "none" /\ ghWatch = NoPoll /\ ghSeen = Unseen /\ ghTold = [n |-> 0, conclusion |-> "", commit |-> 0, real |-> ""]
    /\ ghObs = FALSE /\ ghOld = [commit |-> 0, verdict |-> ""] /\ ghCount = [admin |-> 0, call |-> 0, world |-> 0, poll |-> 0, boot |-> 0]

Count(what, max) == ghCount[what] < max /\ ghCount' = [ghCount EXCEPT ![what] = @ + 1]

(***************************************************************************)
(* Credentials.                                                            *)
(***************************************************************************)
(* encodeToken: sealed when the cipher is armed, plain otherwise.          *)
encodeToken(secret) == [secret |-> secret, key |-> ghKey]

(* decodeToken: nothing when the value is sealed with another key.         *)
decodeToken(tok) == IF tok.key \in {0, ghKey} THEN tok.secret ELSE 0

Create(scope, secret) ==
    /\ Count("admin", MaxAdmin) /\ ~ghRow[scope].on
    /\ ghRow' = [ghRow EXCEPT ![scope] = [on |-> TRUE, enabled |-> TRUE, tok |-> encodeToken(secret)]]
    /\ ghGiven' = [ghGiven EXCEPT ![scope] = secret]
    /\ UNCHANGED <<ghKind, ghKey, ghEdit, ghSent, forge, call, watch>>

(* Update reads the row ...                                                *)
Update(scope, tok, enabled) ==
    /\ Count("admin", MaxAdmin) /\ ~ghEdit.on /\ ghRow[scope].on
    /\ ghEdit' = [on |-> TRUE, scope |-> scope, row |-> ghRow[scope], tok |-> tok, enabled |-> enabled]
    /\ UNCHANGED <<ghKind, ghRow, ghGiven, ghKey, ghSent, forge, call, watch>>

(* Mutant of Stored: the token is decoded with the row and sealed again.   *)
StoredDecoded(edit) == encodeToken(IF edit.tok # 0 THEN edit.tok ELSE decodeToken(edit.row.tok))

(* The token an update writes: what is stored, unless one is supplied.     *)
Stored(edit) == IF edit.tok # 0 THEN encodeToken(edit.tok) ELSE edit.row.tok

(* ... and writes every column.                                            *)
UpdateWrites ==
    LET s == ghEdit.scope IN
    /\ ghEdit.on /\ ghEdit' = NoEdit
    /\ \/ /\ ghRow[s].on /\ ghRow' = [ghRow EXCEPT ![s] = [on |-> TRUE, enabled |-> ghEdit.enabled, tok |-> Stored(ghEdit)]]
          /\ ghGiven' = IF ghEdit.tok # 0 THEN [ghGiven EXCEPT ![s] = ghEdit.tok] ELSE ghGiven
       \/ ~ghRow[s].on /\ UNCHANGED <<ghRow, ghGiven>>
    /\ UNCHANGED <<ghKind, ghKey, ghSent, forge, call, watch, ghCount>>

Delete(scope) ==
    /\ Count("admin", MaxAdmin) /\ ghRow[scope].on /\ ~ghEdit.on /\ ghRow' = [ghRow EXCEPT ![scope] = NoRow]
    /\ UNCHANGED <<ghKind, ghGiven, ghKey, ghEdit, ghSent, forge, call, watch>>

(* External: the backup key is replaced, comes back, or is not armed.      *)
SetCipher(k) ==
    /\ Count("admin", MaxAdmin) /\ k # ghKey /\ ghKey' = k
    /\ UNCHANGED <<ghKind, ghRow, ghGiven, ghEdit, ghSent, forge, call, watch>>

(* Mutant of GetForRepo: a token that cannot be opened does not count.     *)
GetForRepoUsable ==
    LET scopes == SelectSeq(<<"owner", "wide">>, LAMBDA s : ghRow[s].on /\ ghRow[s].enabled /\ decodeToken(ghRow[s].tok) # 0)
    IN  IF scopes = <<>> THEN "none" ELSE scopes[1]

(* GetForRepo: the owner's enabled row, else the host-wide one.            *)
GetForRepo ==
    LET scopes == SelectSeq(<<"owner", "wide">>, LAMBDA s : ghRow[s].on /\ ghRow[s].enabled)
    IN  IF scopes = <<>> THEN "none" ELSE scopes[1]

(* resolveHost: the remote has a credential, and it can be opened.         *)
resolveHost == GetForRepo # "none" /\ decodeToken(ghRow[GetForRepo].tok) # 0

(* do: a request is sent with the token.                                   *)
Sent == ghSent' = [n |-> 1 - ghSent.n, scope |-> GetForRepo]

(***************************************************************************)
(* Calls of the operator.                                                  *)
(***************************************************************************)
(* The forge opens it.                                                     *)
Opened == [ghPr EXCEPT !.state = "open", !.head = 1]

(* CreatePullRequest, with the base given or the default branch; the       *)
(* forge may refuse.                                                       *)
CreatePullRequest ==
    /\ Count("call", MaxCalls) /\ ghCall = NoCall /\ resolveHost /\ Sent
    /\ \/ /\ ghPr.state = "none" /\ ghPr' = Opened /\ ghReply' \in {"open", "error"}
       \/ ghReply' = "error" /\ UNCHANGED ghPr
    /\ UNCHANGED <<ghKind, creds, ghBranch, ghSuite, ghCall, watch>>

(* MergePullRequest resolves the host.                                     *)
MergePullRequest(del) ==
    /\ Count("call", MaxCalls) /\ ghCall = NoCall /\ ghPr.state # "none" /\ resolveHost
    /\ ghCall' = [op |-> "merge", step |-> "put", del |-> del] /\ UNCHANGED <<ghKind, creds, ghSent, forge, ghReply, watch>>

Mergeable == ghPr.state = "open" /\ ~ghPr.behind
Merged == [ghPr EXCEPT !.state = "merged"]

(* External: Gitea and GitLab remove the head branch themselves.           *)
RemovedByForge == [ghBranch EXCEPT !.pr = ~(ghKind # "github" /\ ghCall.del)]

(* The merge call.  Accepted: GitHub and Gitea are asked for the result,   *)
(* GitLab has sent it.  Refused, or the answer lost: the forge is asked    *)
(* why.                                                                    *)
MergeCall ==
    /\ ghCall.op = "merge" /\ ghCall.step = "put" /\ Sent
    /\ \/ /\ Mergeable /\ ghPr' = Merged /\ ghBranch' = RemovedByForge
          /\ \/ ghKind = "gitlab" /\ ghCall' = NoCall /\ ghReply' = "merged"
             \/ ghKind # "gitlab" /\ ghCall' = [ghCall EXCEPT !.step = "refetch"] /\ UNCHANGED ghReply
             \/ ghCall' = [ghCall EXCEPT !.step = "explain"] /\ UNCHANGED ghReply
       \/ /\ ghCall' = [ghCall EXCEPT !.step = "explain"] /\ UNCHANGED <<ghPr, ghBranch, ghReply>>
    /\ UNCHANGED <<ghKind, creds, ghSuite, watch, ghCount>>

(* Mutant of Explain: a pull request that is gone on is taken for merged.  *)
ExplainOptimistic ==
    /\ ghCall.step = "explain" /\ ghCall' = NoCall /\ ghReply' = IF ghPr.behind THEN "behind" ELSE "merged"
    /\ UNCHANGED <<ghKind, creds, ghSent, forge, watch, ghCount>>

(* explainMergeFailure: behind its base, or the error of the forge.        *)
Explain ==
    /\ ghCall.step = "explain" /\ ghCall' = NoCall
    /\ ghReply' \in IF ghPr.behind /\ ghKind = "github" THEN {"behind", "error"} ELSE {"error"}
    /\ UNCHANGED <<ghKind, creds, ghSent, forge, watch, ghCount>>

(* The refetch; GitHub: refs/heads/<head of the pull request> is deleted   *)
(* in the repository, unless the refetch failed.                           *)
Refetch ==
    /\ ghCall.step = "refetch" /\ ghCall' = NoCall /\ ghReply' = "merged" /\ Sent
    /\ \/ /\ ghKind = "github" /\ ghCall.del
          /\ ghBranch' = IF ghPr.fork THEN [ghBranch EXCEPT !.same = FALSE] ELSE [ghBranch EXCEPT !.pr = FALSE]
       \/ UNCHANGED ghBranch
    /\ UNCHANGED <<ghKind, creds, ghPr, ghSuite, watch, ghCount>>

(* UpdatePullRequestBranch: GitHub merges the base into the head branch.   *)
UpdatePullRequestBranch ==
    /\ Count("call", MaxCalls) /\ ghCall = NoCall /\ resolveHost /\ Sent
    /\ \/ /\ ghKind = "github" /\ ghPr.state = "open" /\ ghPr.behind /\ ghPr.head < MaxCommits
          /\ ghPr' = [ghPr EXCEPT !.behind = FALSE, !.head = @ + 1] /\ ghReply' = "updated"
       \/ ghReply' = "error" /\ UNCHANGED ghPr
    /\ UNCHANGED <<ghKind, creds, ghBranch, ghSuite, ghCall, watch>>

(***************************************************************************)
(* The world: pushes, the base branch moving on, check results.            *)
(***************************************************************************)
Push ==
    /\ Count("world", MaxWorld) /\ ghPr.state = "open" /\ ghPr.head < MaxCommits
    /\ \/ ghPr' = [ghPr EXCEPT !.head = @ + 1] \/ (ghPr' = [ghPr EXCEPT !.behind = TRUE] /\ ~ghPr.behind)
    /\ UNCHANGED <<ghKind, creds, ghSent, ghBranch, ghSuite, call, watch>>

Report(c, k, st) ==
    /\ Count("world", MaxWorld) /\ c <= ghPr.head /\ ghSuite' = [ghSuite EXCEPT ![c][k] = Append(@, st)]
    /\ UNCHANGED <<ghKind, creds, ghSent, ghPr, ghBranch, call, watch>>

(***************************************************************************)
(* The watcher.                                                            *)
(***************************************************************************)
(* commitStatusState: not completed, or the conclusion.                    *)
commitStatusState(st) ==
    CASE st \in {"pending", "running"} -> "queued"
      [] st \in {"success", "skipped"} -> "success"
      [] st \in {"failure", "manual"} -> "failure"
      [] OTHER -> "neutral"

(* Mutant of Collapse: the first entry of a name is kept.                  *)
CollapseFirst(list) == [i \in {1} |-> list[1].st]

(* One entry a name, the one updated last; the forge may list the oldest   *)
(* or the newest first.                                                    *)
Collapse(list) ==
    [i \in {1} |-> list[CHOOSE j \in 1..Len(list) : \A k \in 1..Len(list) : list[k].at <= list[j].at].st]

Listed(hist, newestFirst) ==
    [i \in 1..Len(hist) |-> LET j == IF newestFirst THEN Len(hist) + 1 - i ELSE i IN [at |-> j, st |-> hist[j]]]

(* githubChecks, giteaChecks, gitlabChecks.                                *)
CheckRuns(c, newestFirst) ==
    [k \in {k \in Checks : ghSuite[c][k] # <<>>} |->
        commitStatusState(IF ghKind = "github" THEN ghSuite[c][k][Len(ghSuite[c][k])] ELSE Collapse(Listed(ghSuite[c][k], newestFirst))[1])]

(* aggregate.                                                              *)
aggregate(runs) ==
    LET failed == {k \in DOMAIN runs : runs[k] = "failure"}
        pending == {k \in DOMAIN runs : runs[k] = "queued"}
    IN  [on |-> TRUE, terminal |-> pending = {},
         conclusion |-> IF pending # {} THEN "pending" ELSE IF failed = {} THEN "success"
                        ELSE IF failed = DOMAIN runs THEN "failure" ELSE "mixed"]

(* What the checks of commit c amount to, for the properties.              *)
Verdict(c) ==
    LET now == {ghSuite[c][k][Len(ghSuite[c][k])] : k \in {k \in Checks : ghSuite[c][k] # <<>>}}
        bad == {"failure", "manual"}
    IN  CASE now = {} -> "none" [] now \intersect {"pending", "running"} # {} -> "pending" [] now \intersect bad = {} -> "success"
          [] now \subseteq bad -> "failure" [] OTHER -> "mixed"

(* The gateway comes up: the state is empty, the first poll seeds it.      *)
Boot ==
    /\ Count("boot", MaxBoots) /\ ghWatch' = [phase |-> "seed", seed |-> TRUE, sha |-> 0] /\ ghSeen' = Unseen /\ ghObs' = FALSE
    /\ ghOld' = [commit |-> ghPr.head, verdict |-> IF ghPr.head = 0 THEN "" ELSE Verdict(ghPr.head)]
    /\ UNCHANGED <<ghKind, creds, ghSent, forge, call, ghTold>>

(* The open pull requests a forge lists, its states in common terms.       *)
ListPullRequests == ghPr.state = "open"

(* A poll lists sessions and open pull requests; without a live session, a *)
(* token or an answer it is over.                                          *)
pollOnce ==
    /\ ghWatch.phase \in {"seed", "idle"} /\ Count("poll", MaxPolls)
    /\ \/ ListPullRequests /\ resolveHost /\ Sent /\ ghWatch' = [ghWatch EXCEPT !.phase = "head"]
       \/ ghWatch' = [phase |-> "idle", seed |-> FALSE, sha |-> 0] /\ UNCHANGED ghSent
    /\ UNCHANGED <<ghKind, creds, forge, call, ghSeen, ghTold, ghObs, ghOld>>

(* PRChecks reads the head commit ...                                      *)
PRChecks ==
    /\ ghWatch.phase = "head"
    /\ \/ resolveHost /\ Sent /\ ghWatch' = [ghWatch EXCEPT !.phase = "checks", !.sha = ghPr.head]
       \/ ghWatch' = [phase |-> "idle", seed |-> FALSE, sha |-> 0] /\ UNCHANGED ghSent
    /\ UNCHANGED <<ghKind, creds, forge, call, ghSeen, ghTold, ghObs, ghOld, ghCount>>

(* Mutant of Remembered: only final states are remembered.                 *)
RememberedFinal(cur) == IF cur.terminal THEN cur ELSE ghSeen

(* The state that is remembered.                                           *)
Remembered(cur) == cur

(* Mutant of Announced: every final state is announced.                    *)
AnnouncedAgain(cur) == ~ghWatch.seed /\ cur.terminal

(* A final state is announced unless it is the one seen before, or the     *)
(* poll seeds the state.                                                   *)
Announced(cur) == ~ghWatch.seed /\ cur.terminal /\ ~(ghSeen.on /\ ghSeen.terminal /\ ghSeen.conclusion = cur.conclusion)

(* ... and that commit's checks: checkOne.                                 *)
checkOne(newestFirst) ==
    LET runs == CheckRuns(ghWatch.sha, newestFirst)  cur == aggregate(runs) IN
    /\ ghWatch.phase = "checks" /\ ghWatch' = [phase |-> "idle", seed |-> FALSE, sha |-> 0]
    /\ \/ /\ DOMAIN runs # {} /\ ghSeen' = Remembered(cur)
          /\ IF Announced(cur)
               THEN /\ ghTold' = [n |-> 1 - ghTold.n, conclusion |-> cur.conclusion, commit |-> ghWatch.sha, real |-> Verdict(ghWatch.sha)]
                    /\ ghObs' = FALSE
               ELSE UNCHANGED ghTold /\ ghObs' = (ghObs \/ ~cur.terminal)
       \/ UNCHANGED <<ghSeen, ghTold, ghObs>>
    /\ UNCHANGED <<ghKind, creds, ghSent, forge, call, ghOld, ghCount>>

Admin ==
    \/ \E s \in {"owner", "wide"} : Delete(s) \/ (\E t \in Secrets : Create(s, t)) \/ (\E t \in Secrets \union {0}, on \in BOOLEAN : Update(s, t, on))
    \/ UpdateWrites \/ \E k \in 0..2 : SetCipher(k)

Operator == CreatePullRequest \/ (\E del \in BOOLEAN : MergePullRequest(del)) \/ MergeCall \/ Explain \/ Refetch \/ UpdatePullRequestBranch

World == Push \/ \E c \in 1..MaxCommits, k \in Checks, st \in Statuses : Report(c, k, st)

Watcher == Boot \/ pollOnce \/ PRChecks \/ \E newestFirst \in BOOLEAN : checkOne(newestFirst)

Next == Admin \/ Operator \/ World \/ Watcher

Spec == Init /\ [][Next]_vars

TypeOK ==
    /\ ghKind \in Kinds /\ ghKey \in 0..2 /\ ghPr.state \in {"none", "open", "merged"} /\ ghPr.head \in 0..MaxCommits
    /\ ghWatch.phase \in {"off", "seed", "idle", "head", "checks"} /\ ghReply \in {"none", "open", "merged", "behind", "updated", "error"}

(* An update that supplies no token leaves the token the operator entered, *)
(* also while the key to open it is missing (Update of githost.go).        *)
TokenKept == \A s \in {"owner", "wide"} : ghRow[s].on => ghRow[s].tok.secret = ghGiven[s]

(* What one step may do, for OwnIdentity.                                  *)
OwnIdentityStep ==
    (ghSent' # ghSent /\ ghSent'.scope = "wide") => ~(ghRow["owner"].on /\ ghRow["owner"].enabled)

(* A request for an owner's repository never goes out under the host-wide  *)
(* identity while the owner has an enabled credential, even one that is    *)
(* locked for the moment (GetForRepo, CredentialFor).                      *)
OwnIdentity == [][OwnIdentityStep]_vars

(* What is reported merged is merged, and the head branch only goes with a *)
(* merge, whatever answers were lost (MergePullRequest).                   *)
MergedIsMerged == (ghReply = "merged" \/ ~ghBranch.pr \/ ~ghBranch.same) => ghPr.state = "merged"

(* Only the head branch of the pull request is removed by a merge.         *)
OnlyHeadRemoved == ghBranch.same

(* A run of the checks that was seen unfinished is announced when it is    *)
(* seen finished, also when it ends like the run before (checkOne).        *)
PendingIsAnswered == ghObs => ~ghSeen.terminal

(* What one step may do, for NoRepeat.                                     *)
NoRepeatStep ==
    (ghTold' # ghTold /\ ghSeen.terminal) => ghTold'.conclusion # ghSeen.conclusion

(* An outcome is not announced twice unless a new run was seen between.    *)
NoRepeat == [][NoRepeatStep]_vars

(* What is announced is what the forge's latest statuses amount to.        *)
VerdictTrue == ghTold.conclusion = ghTold.real

(* Checks that were over when the gateway came up are not announced.       *)
NoOldNews == [][ghTold' # ghTold => ~(ghTold'.commit = ghOld.commit /\ ghTold'.conclusion = ghOld.verdict)]_vars
=============================================================================
