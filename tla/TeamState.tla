------------------------------- MODULE TeamState --------------------------------
(***************************************************************************)
(* What the three heartbeat agents of orchestrator/ share: the issues and  *)
(* pull requests of one GitHub repository, and the loop of main.py that    *)
(* starts a heartbeat of every agent and awaits them together.             *)
(*                                                                         *)
(* A pull request is named by the issue it closes.  The labels and the     *)
(* states are those the code reads or writes to decide something.          *)
(***************************************************************************)
EXTENDS Integers, FiniteSets

CONSTANTS
    Issues,           \* issue numbers
    Beats,            \* heartbeats that can be under way at the same time
    NoBeat,
    MaxGitHubErrors   \* bound: GitHub calls that fail in one behaviour

ASSUME TeamStateAssumption ==
    /\ Issues \subseteq Nat \ {0}
    /\ NoBeat \notin Beats
    /\ MaxGitHubErrors \in Nat

NoIssue == 0

VARIABLES
    labels,     \* labels of each open or closed issue
    issueOpen,  \* open issues
    pr,         \* state of the pull request of an issue
    opened,     \* ghost: pull requests opened for an issue, up to 2
    prLabels,   \* labels of the pull request
    content,    \* what the charter says of the head of the pushed branch
    ci,         \* conclusion of the checks of that head
    ghErrors,   \* failed GitHub calls so far (bounded by MaxGitHubErrors)
    current,    \* the heartbeat that loop awaits, or NoBeat while it sleeps
    failed      \* heartbeats that have ended with an exception

issueVars == <<labels, issueOpen>>
prVars    == <<pr, opened, prLabels, content, ci>>
loopVars  == <<current, failed>>
teamVars  == <<issueVars, prVars, ghErrors, loopVars>>

Area  == {"area/api", "area/web"}
Kind  == {"kind/bug"}
Label == Area \cup Kind \cup
         {"ready-for-dev", "needs-info", "needs-info-commented",
          "in-progress-by-backend", "worked-by-backend", "blocked-by-backend"}

PrLabel == {"needs-human-review"}

\* "clean": passes charter section 3; "doubtful": fails it for another reason
\* than the checks; "rejected": fails section 4.
Grades == {"clean", "doubtful", "rejected"}

TeamStateTypeOK ==
    /\ labels \in [Issues -> SUBSET Label]
    /\ issueOpen \subseteq Issues
    /\ pr \in [Issues -> {"none", "open", "merged", "closed"}]
    /\ opened \in [Issues -> 0..2]
    /\ prLabels \in [Issues -> SUBSET PrLabel]
    /\ content \in [Issues -> Grades \cup {"none"}]
    /\ ci \in [Issues -> {"none", "success", "failure"}]
    /\ ghErrors \in 0..MaxGitHubErrors
    /\ current \in Beats \cup {NoBeat}
    /\ failed \subseteq Beats

TeamStateInit ==
    /\ labels = [n \in Issues |-> {}]
    /\ issueOpen = Issues
    /\ pr = [n \in Issues |-> "none"]
    /\ opened = [n \in Issues |-> 0]
    /\ prLabels = [n \in Issues |-> {}]
    /\ content = [n \in Issues |-> "none"]
    /\ ci = [n \in Issues |-> "none"]
    /\ ghErrors = 0
    /\ current = NoBeat
    /\ failed = {}

------------------------------------------------------------------------------
(***************************************************************************)
(* A call of GitHubApp.  GitHub refuses it (GitHubAppError), or httpx      *)
(* fails before or after GitHub executed it, which is another exception.   *)
(***************************************************************************)
GhReply == {"ok", "refused", "lostRequest", "lostReply"}

GhExecuted(r) == r \in {"ok", "lostReply"}

\* The exceptions that "except GitHubAppError" does not catch.
NotCaught(r) == r \in {"lostRequest", "lostReply"}

GhCall(r) ==
    /\ r # "ok" => ghErrors < MaxGitHubErrors
    /\ ghErrors' = IF r = "ok" THEN ghErrors ELSE ghErrors + 1

AddLabels(n, s) == labels' = [labels EXCEPT ![n] = @ \cup s]
RemoveLabel(n, l) == labels' = [labels EXCEPT ![n] = @ \ {l}]
SetIssueLabels(n, s) == labels' = [labels EXCEPT ![n] = s]

------------------------------------------------------------------------------
\* asyncio.gather raises the first exception of heartbeat b to loop and leaves
\* its other agents running; later exceptions of b are dropped.
Escapes(b) ==
    /\ failed' = failed \cup {b}
    /\ current' = IF current = b THEN NoBeat ELSE current

\* The checks of a pushed head end.
CheckRuns(n, conclusion) ==
    /\ pr[n] = "open"
    /\ ci[n] = "none"
    /\ ci' = [ci EXCEPT ![n] = conclusion]
    /\ UNCHANGED <<issueVars, pr, opened, prLabels, content, ghErrors, loopVars>>

==============================================================================
