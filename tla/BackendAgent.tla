------------------------------ MODULE BackendAgent ------------------------------
(***************************************************************************)
(* BackendAgent: picks the first issue that is ready and not taken, claims *)
(* it with a label, works on it in a git worktree and opens a pull request *)
(* or blocks the issue.  bPc names the next call.  "blockSetup" is _block  *)
(* called before the try statement, "block" is _block called inside it and *)
(* "blockAgain" is _block called by its except clause, where the other     *)
(* exceptions of the try statement lead too.  Calls that write the journal *)
(* (log_event) are taken not to raise.                                     *)
(***************************************************************************)
EXTENDS TriageAgent

VARIABLES
    bPc,       \* per heartbeat
    bIssue,    \* the issue picked, or NoIssue
    bRed,      \* heartbeats whose TestResult is not green
    worktree,  \* issues whose worktree directory exists
    branch,    \* issues whose local branch exists; no code deletes a branch
    picks,     \* ghost: heartbeats that picked an issue, up to 2
    leftover   \* ghost: issues whose worktree the finally clause did not remove

backendVars == <<bPc, bIssue, bRed, worktree, branch, picks, leftover>>

BackendPcs == {"idle", "list", "claim", "setup", "generate", "test", "push", "open", "flag",
               "unclaim", "done", "block", "blockAgain", "blockSetup", "markBlocked",
               "markBlockedAgain", "markBlockedSetup", "remove", "removeEscape"}

BackendTypeOK ==
    /\ bPc \in [Beats -> BackendPcs]
    /\ bIssue \in [Beats -> Issues \cup {NoIssue}]
    /\ bRed \subseteq Beats
    /\ worktree \subseteq Issues
    /\ branch \subseteq Issues
    /\ picks \in [Issues -> 0..2]
    /\ leftover \subseteq Issues
    /\ \A b \in Beats : bIssue[b] = NoIssue <=> bPc[b] \in {"idle", "list"}

BackendInit ==
    /\ bPc = [b \in Beats |-> "idle"]
    /\ bIssue = [b \in Beats |-> NoIssue]
    /\ bRed = {}
    /\ worktree = {}
    /\ branch = {}
    /\ picks = [n \in Issues |-> 0]
    /\ leftover = {}

BackendIdle(b) == bPc[b] = "idle"

Goto(b, pc) == bPc' = [bPc EXCEPT ![b] = pc]

\* heartbeat b ends.
BackendEnds(b) ==
    /\ Goto(b, "idle")
    /\ bIssue' = [bIssue EXCEPT ![b] = NoIssue]
    /\ bRed' = bRed \ {b}

\* The label needs-human-review, also excluded, is only ever put on a pull request.
Candidate(n) ==
    /\ n \in issueOpen
    /\ {"area/api", "ready-for-dev"} \subseteq labels[n]
    /\ labels[n] \cap {"in-progress-by-backend", "worked-by-backend", "blocked-by-backend"} = {}

\* BUG: the check for an empty list is missing, None is picked.
BackendListNone(b, r) ==
    /\ bPc[b] = "list"
    /\ GhCall(r)
    /\ Goto(b, "claim")
    /\ bIssue' = [bIssue EXCEPT ![b] = IF \E n \in Issues : Candidate(n)
                                      THEN CHOOSE n \in Issues : Candidate(n) ELSE NoIssue]
    /\ UNCHANGED <<issueVars, prVars, loopVars, triageVars, bRed, worktree, branch, picks, leftover>>

\* heartbeat: list_open_issues and the choice of the issue.
BackendList(b, r) ==
    /\ bPc[b] = "list"
    /\ GhCall(r)
    /\ IF r = "ok" /\ \E n \in Issues : Candidate(n)
       THEN \E n \in Issues :
                /\ Candidate(n)
                /\ \A m \in Issues : Candidate(m) => n <= m
                /\ Goto(b, "claim")
                /\ bIssue' = [bIssue EXCEPT ![b] = n]
                /\ picks' = [picks EXCEPT ![n] = IF @ < 2 THEN @ + 1 ELSE @]
                /\ UNCHANGED bRed
       ELSE BackendEnds(b) /\ UNCHANGED picks
    /\ IF NotCaught(r) THEN Escapes(b) ELSE UNCHANGED loopVars
    /\ UNCHANGED <<issueVars, prVars, triageVars, worktree, branch, leftover>>

\* _work_one: the claim stands outside of any try.
BackendClaim(b, r) ==
    /\ bPc[b] = "claim"
    /\ GhCall(r)
    /\ IF GhExecuted(r) THEN AddLabels(bIssue[b], {"in-progress-by-backend"}) ELSE UNCHANGED labels
    /\ IF r = "ok"
       THEN Goto(b, "setup") /\ UNCHANGED <<bIssue, bRed, loopVars>>
       ELSE BackendEnds(b) /\ Escapes(b)
    /\ UNCHANGED <<issueOpen, prVars, triageVars, worktree, branch, picks, leftover>>

\* BUG: git worktree add -B, which takes an existing branch.
SetupForced(b, outcome) ==
    /\ bPc[b] = "setup"
    /\ IF outcome = "ok"
       THEN /\ worktree' = worktree \cup {bIssue[b]}
            /\ branch' = branch \cup {bIssue[b]}
            /\ Goto(b, "generate")
       ELSE Goto(b, "blockSetup") /\ UNCHANGED <<worktree, branch>>
    /\ UNCHANGED <<teamVars, triageVars, bIssue, bRed, picks, leftover>>

\* ensure_base_uptodate and create_worktree: a worktree that exists is used
\* again, a branch that exists without one makes git refuse.  A WorktreeError is
\* raised before ("fetch") or after ("hook") the worktree was made; so is an
\* OSError of a subprocess or of mkdir ("early", "late"), which is not caught:
\* the heartbeat fails and the claim stays.
Setup(b, outcome) ==
    /\ bPc[b] = "setup"
    /\ LET n == bIssue[b]
           made == outcome \in {"ok", "hook", "late"} /\ (n \in worktree \/ n \notin branch)
       IN  /\ worktree' = IF made THEN worktree \cup {n} ELSE worktree
           /\ branch' = IF made THEN branch \cup {n} ELSE branch
           /\ IF outcome = "early" \/ (outcome = "late" /\ made)
              THEN BackendEnds(b) /\ Escapes(b)
              ELSE /\ Goto(b, IF outcome = "ok" /\ made THEN "generate" ELSE "blockSetup")
                   /\ UNCHANGED <<bIssue, bRed, loopVars>>
    /\ UNCHANGED <<issueVars, prVars, ghErrors, triageVars, picks, leftover>>

\* BUG: the agent returns on an unusable answer without _block.
GenerateGivesUp(b, outcome) ==
    /\ bPc[b] = "generate"
    /\ Goto(b, IF outcome = "usable" THEN "test" ELSE "remove")
    /\ UNCHANGED <<teamVars, triageVars, bIssue, bRed, worktree, branch, picks, leftover>>

\* _fetch_issue_comments, _generate_changes, _validate_paths, _write_files: no
\* budget, no usable answer or a forbidden path block the issue.
Generate(b, outcome) ==
    /\ bPc[b] = "generate"
    /\ Goto(b, CASE outcome = "usable" -> "test"
                 [] outcome = "unusable" -> "block"
                 [] outcome = "raised" -> "blockAgain")
    /\ UNCHANGED <<teamVars, triageVars, bIssue, bRed, worktree, branch, picks, leftover>>

\* _run_tests_with_retries: the last attempt was green or red, or a test run
\* or a repair raised.
RunTests(b, result) ==
    /\ bPc[b] = "test"
    /\ bRed' = IF result = "red" THEN bRed \cup {b} ELSE bRed
    /\ Goto(b, IF result = "raised" THEN "blockAgain" ELSE "push")
    /\ UNCHANGED <<teamVars, triageVars, bIssue, worktree, branch, picks, leftover>>

\* _commit_and_push: nothing to commit, the hook or the push fails ("none"); git
\* cannot be started, as in a directory that is gone; or a new head, whose checks
\* start anew.
Push(b, grade) ==
    /\ bPc[b] = "push"
    /\ IF grade \in Grades /\ bIssue[b] \in worktree
       THEN /\ content' = [content EXCEPT ![bIssue[b]] = grade]
            /\ ci' = [ci EXCEPT ![bIssue[b]] = "none"]
            /\ Goto(b, "open")
       ELSE /\ Goto(b, IF grade = "none" /\ bIssue[b] \in worktree THEN "block" ELSE "blockAgain")
            /\ UNCHANGED <<content, ci>>
    /\ UNCHANGED <<issueVars, pr, opened, prLabels, ghErrors, loopVars, triageVars,
                   bIssue, bRed, worktree, branch, picks, leftover>>

\* BUG: a failure to open the pull request is only logged.
OpenPrLogged(b, r) ==
    /\ bPc[b] = "open"
    /\ GhCall(r)
    /\ IF GhExecuted(r) /\ pr[bIssue[b]] # "open"
       THEN /\ pr' = [pr EXCEPT ![bIssue[b]] = "open"]
            /\ opened' = [opened EXCEPT ![bIssue[b]] = IF @ < 2 THEN @ + 1 ELSE @]
       ELSE UNCHANGED <<pr, opened>>
    /\ Goto(b, "unclaim")
    /\ UNCHANGED <<issueVars, prLabels, content, ci, loopVars, triageVars,
                   bIssue, bRed, worktree, branch, picks, leftover>>

\* _open_pr: GitHub refuses a second open pull request for one branch.
OpenPr(b, r) ==
    /\ bPc[b] = "open"
    /\ GhCall(r)
    /\ IF GhExecuted(r) /\ pr[bIssue[b]] # "open"
       THEN /\ pr' = [pr EXCEPT ![bIssue[b]] = "open"]
            /\ opened' = [opened EXCEPT ![bIssue[b]] = IF @ < 2 THEN @ + 1 ELSE @]
            /\ Goto(b, CASE r # "ok" -> "blockAgain"
                         [] r = "ok" /\ b \in bRed -> "flag"
                         [] OTHER -> "unclaim")
       ELSE Goto(b, "blockAgain") /\ UNCHANGED <<pr, opened>>
    /\ UNCHANGED <<issueVars, prLabels, content, ci, loopVars, triageVars,
                   bIssue, bRed, worktree, branch, picks, leftover>>

\* _open_pr and _comment_pr_with_tests on a red result: a refusal is logged.
FlagPr(b, r) ==
    /\ bPc[b] = "flag"
    /\ GhCall(r)
    /\ prLabels' = IF GhExecuted(r) THEN [prLabels EXCEPT ![bIssue[b]] = PrLabel] ELSE prLabels
    /\ Goto(b, IF NotCaught(r) THEN "blockAgain" ELSE "unclaim")
    /\ UNCHANGED <<issueVars, pr, opened, content, ci, loopVars, triageVars,
                   bIssue, bRed, worktree, branch, picks, leftover>>

\* comment_issue and remove_label.
Unclaim(b, r) ==
    /\ bPc[b] = "unclaim"
    /\ GhCall(r)
    /\ IF GhExecuted(r) THEN RemoveLabel(bIssue[b], "in-progress-by-backend") ELSE UNCHANGED labels
    /\ Goto(b, IF r = "ok" THEN "done" ELSE "blockAgain")
    /\ UNCHANGED <<issueOpen, prVars, loopVars, triageVars, bIssue, bRed, worktree, branch, picks, leftover>>

\* add_labels worked-by-backend.
MarkDone(b, r) ==
    /\ bPc[b] = "done"
    /\ GhCall(r)
    /\ IF GhExecuted(r) THEN AddLabels(bIssue[b], {"worked-by-backend"}) ELSE UNCHANGED labels
    /\ Goto(b, IF r = "ok" THEN "remove" ELSE "blockAgain")
    /\ UNCHANGED <<issueOpen, prVars, loopVars, triageVars, bIssue, bRed, worktree, branch, picks, leftover>>

------------------------------------------------------------------------------
(***************************************************************************)
(* _block: comment, remove the claim, add the block.  A refusal of the two *)
(* label calls is ignored; another exception, or a comment that fails, goes*)
(* to the except clause of _work_one, or out of the heartbeat.             *)
(***************************************************************************)

\* Where an exception of _block goes.  An exception in _block before the try
\* ends the heartbeat, one in the except clause does so after the cleanup.
BlockRaises(b) ==
    CASE bPc[b] \in {"block", "markBlocked"} ->
            Goto(b, "blockAgain") /\ UNCHANGED <<bIssue, bRed, loopVars>>
      [] bPc[b] \in {"blockAgain", "markBlockedAgain"} ->
            Goto(b, "removeEscape") /\ UNCHANGED <<bIssue, bRed, loopVars>>
      [] OTHER -> BackendEnds(b) /\ Escapes(b)

\* comment_issue fails.
BlockSilent(b, r) ==
    /\ bPc[b] \in {"block", "blockAgain", "blockSetup"}
    /\ r # "ok"
    /\ GhCall(r)
    /\ BlockRaises(b)
    /\ UNCHANGED <<issueVars, prVars, triageVars, worktree, branch, picks, leftover>>

\* comment_issue succeeds; remove_label.
BlockUnclaim(b, r) ==
    /\ bPc[b] \in {"block", "blockAgain", "blockSetup"}
    /\ GhCall(r)
    /\ IF GhExecuted(r) THEN RemoveLabel(bIssue[b], "in-progress-by-backend") ELSE UNCHANGED labels
    /\ IF NotCaught(r)
       THEN BlockRaises(b)
       ELSE /\ Goto(b, CASE bPc[b] = "block" -> "markBlocked"
                         [] bPc[b] = "blockAgain" -> "markBlockedAgain"
                         [] OTHER -> "markBlockedSetup")
            /\ UNCHANGED <<bIssue, bRed, loopVars>>
    /\ UNCHANGED <<issueOpen, prVars, triageVars, worktree, branch, picks, leftover>>

\* add_labels blocked-by-backend.
BlockMark(b, r) ==
    /\ bPc[b] \in {"markBlocked", "markBlockedAgain", "markBlockedSetup"}
    /\ GhCall(r)
    /\ IF GhExecuted(r) THEN AddLabels(bIssue[b], {"blocked-by-backend"}) ELSE UNCHANGED labels
    /\ CASE NotCaught(r) -> BlockRaises(b)
         [] ~NotCaught(r) /\ bPc[b] = "markBlockedSetup" -> BackendEnds(b) /\ UNCHANGED loopVars
         [] OTHER -> Goto(b, "remove") /\ UNCHANGED <<bIssue, bRed, loopVars>>
    /\ UNCHANGED <<issueOpen, prVars, triageVars, worktree, branch, picks, leftover>>

\* The finally clause: remove_worktree keeps the branch.  That it cannot run git,
\* or cannot delete the directory, is logged or ignored.
RemoveWorktree(b, removed) ==
    /\ bPc[b] \in {"remove", "removeEscape"}
    /\ worktree' = IF removed THEN worktree \ {bIssue[b]} ELSE worktree
    /\ leftover' = IF removed THEN leftover ELSE leftover \cup {bIssue[b]}
    /\ BackendEnds(b)
    /\ IF bPc[b] = "removeEscape" THEN Escapes(b) ELSE UNCHANGED loopVars
    /\ UNCHANGED <<issueVars, prVars, ghErrors, triageVars, branch, picks>>

BackendStep(b) ==
    \/ \E r \in GhReply :
        \/ BackendList(b, r)
        \/ BackendClaim(b, r)
        \/ OpenPr(b, r)
        \/ FlagPr(b, r)
        \/ Unclaim(b, r)
        \/ MarkDone(b, r)
        \/ BlockSilent(b, r)
        \/ BlockUnclaim(b, r)
        \/ BlockMark(b, r)
    \/ \E outcome \in {"ok", "fetch", "hook", "early", "late"} : Setup(b, outcome)
    \/ \E outcome \in {"usable", "unusable", "raised"} : Generate(b, outcome)
    \/ \E result \in {"green", "red", "raised"} : RunTests(b, result)
    \/ \E grade \in Grades \cup {"none", "raised"} : Push(b, grade)
    \/ \E removed \in BOOLEAN : RemoveWorktree(b, removed)

==============================================================================
