---------------------------------- MODULE Team ----------------------------------
(***************************************************************************)
(* The orchestrator: loop of main.py over the three agents, on one         *)
(* repository, with what the agents promise each other.                    *)
(***************************************************************************)
EXTENDS CeoAgent

CONSTANT ClaimWithinInterval  \* TRUE: a list and the claim after it end
                              \* within the pause between two heartbeats

ASSUME TeamAssumption == ClaimWithinInterval \in BOOLEAN

vars == <<teamVars, triageVars, backendVars, ceoVars>>

TypeOK == TeamStateTypeOK /\ TriageTypeOK /\ BackendTypeOK /\ CeoTypeOK

Init == TeamStateInit /\ TriageInit /\ BackendInit /\ CeoInit

Resting(b) == TriageIdle(b) /\ BackendIdle(b) /\ CeoIdle(b)

\* loop: one_tick gathers a heartbeat of every agent, whether or not agents of
\* an earlier heartbeat that failed are still at work.
Tick(b) ==
    /\ current = NoBeat
    /\ Resting(b)
    /\ ClaimWithinInterval => \A h \in Beats : bPc[h] \notin {"list", "claim"}
    /\ current' = b
    /\ tListing' = tListing \cup {b}
    /\ bPc' = [bPc EXCEPT ![b] = "list"]
    /\ cPc' = [cPc EXCEPT ![b] = "list"]
    /\ UNCHANGED <<issueVars, prVars, ghErrors, failed, tTodo, tIssue, tNew, hasty,
                   bIssue, bRed, worktree, branch, picks, leftover, cTodo, cPr, cGrade, cLabels>>

\* gather returns; loop sleeps.
TickEnds ==
    /\ current # NoBeat
    /\ Resting(current)
    /\ current' = NoBeat
    /\ UNCHANGED <<issueVars, prVars, ghErrors, failed, triageVars, backendVars, ceoVars>>

Checks(n) ==
    /\ \E conclusion \in {"success", "failure"} : CheckRuns(n, conclusion)
    /\ UNCHANGED <<triageVars, backendVars, ceoVars>>

Triages(b) == TriageStep(b) /\ UNCHANGED <<backendVars, ceoVars>>
Works(b)   == BackendStep(b) /\ UNCHANGED ceoVars

Next ==
    \/ \E b \in Beats : Tick(b) \/ Triages(b) \/ Works(b) \/ CeoStep(b)
    \/ TickEnds
    \/ \E n \in Issues : Checks(n)

Spec == Init /\ [][Next]_vars

\* GitHub and LLM calls end within their timeouts.  git and the tests have none:
\* that they end is an assumption.  So the backend agent moves on once it is at
\* work.  Nothing here depends on the fairness of the other agents.
FairSpec == Spec /\ \A b \in Beats : WF_vars(Works(b))

------------------------------------------------------------------------------
(***************************************************************************)
(* As long as no heartbeat has failed as a whole, for any number of failed *)
(* calls that the agents handle, and for issues whose worktree was always  *)
(* removed.                                                                *)
(***************************************************************************)

\* An issue gets at most one pull request, although a failing _block puts it
\* back among the candidates: its branch is created once and never deleted.
OnePrPerIssue == failed = {} => \A n \in Issues \ leftover : opened[n] <= 1

\* What the CEO merges passes charter section 3 and has green checks: the head
\* has not changed since it read the files and the status.
MergedIsReviewed ==
    failed = {} => \A n \in Issues \ leftover :
        pr[n] = "merged" => content[n] = "clean" /\ ci[n] = "success"

(***************************************************************************)
(* As long as no GitHub call and no heartbeat as a whole has failed.       *)
(***************************************************************************)

\* No issue is picked twice, whatever the triage LLM answers and whenever the
\* answer is written, unless triage made it ready without a valid area or kind:
\* then it lists the issue again and may write its labels over the claim.
PickedOnce == ghErrors = 0 /\ failed = {} => \A n \in Issues \ hasty : picks[n] <= 1

\* A claimed issue ends as worked, with its pull request, or as blocked, whatever
\* git, the tests and the LLMs do once the worktree is set up, unless triage made
\* it ready without a valid area or kind and puts back labels it read earlier.
ClaimEnds ==
    \A n \in Issues :
        "in-progress-by-backend" \in labels[n] ~>
            \/ ghErrors > 0 \/ failed # {} \/ n \in hasty
            \/ labels[n] \cap {"in-progress-by-backend", "blocked-by-backend"} = {"blocked-by-backend"}
            \/ "worked-by-backend" \in labels[n] /\ opened[n] = 1

(***************************************************************************)
(* In every behaviour.                                                     *)
(***************************************************************************)

\* Only issues with a pull request are labelled as worked, also after a triage
\* has written labels it read earlier.
WorkedHasPr == \A n \in Issues : "worked-by-backend" \in labels[n] => pr[n] # "none"

------------------------------------------------------------------------------
(***************************************************************************)
(* Inductive invariants.                                                   *)
(***************************************************************************)

\* Wherever the label "worked" is, or is about to be written, there is a pull
\* request.
WorkedInv ==
    /\ WorkedHasPr
    /\ \A b \in Beats :
        /\ bPc[b] \in {"flag", "unclaim", "done"} => pr[bIssue[b]] # "none"
        /\ \A i \in tTodo[b] : "worked-by-backend" \in i[2] => pr[i[1]] # "none"
        /\ tIssue[b] # NoIssue /\ "worked-by-backend" \in tNew[b] => pr[tIssue[b]] # "none"

\* The stages in which the backend agent has a worktree and has not opened a
\* pull request, and those in which it may have.
BeforeOpen == {"generate", "test", "push", "open"}
AfterOpen  == {"flag", "unclaim", "done", "block", "blockAgain", "markBlocked",
               "markBlockedAgain", "remove", "removeEscape"}

\* One heartbeat at a time.
SoloInv == \A b \in Beats : b # current => Resting(b)

\* A pull request means a branch, and a worktree too only while the heartbeat
\* that opened it is not over: no second heartbeat gets as far as a push.
BranchInv ==
    /\ worktree \subseteq branch
    /\ \A n \in Issues : pr[n] = "none" <=> opened[n] = 0
    /\ \A n \in Issues \ leftover :
        /\ opened[n] <= 1
        /\ opened[n] = 1 => n \in branch
        /\ opened[n] = 1 /\ n \in worktree =>
            current # NoBeat /\ bIssue[current] = n /\ bPc[current] \in AfterOpen
    /\ \A b \in Beats : bPc[b] \in BeforeOpen /\ bIssue[b] \notin leftover =>
        opened[bIssue[b]] = 0 /\ bIssue[b] \in worktree

\* What the CEO read of a pull request is still true of it.
ReviewInv ==
    /\ \A b \in Beats :
        /\ \A p \in cTodo[b] : pr[p[1]] # "none"
        /\ cPc[b] \in {"status", "close", "merge", "flag", "unflag"} =>
            /\ pr[cPr[b]] # "none"
            /\ cPr[b] \notin leftover => cGrade[b] = content[cPr[b]]
        /\ cPc[b] = "merge" /\ cPr[b] \notin leftover =>
            cGrade[b] = "clean" /\ ci[cPr[b]] = "success"
    /\ \A n \in Issues \ leftover : pr[n] = "merged" => content[n] = "clean" /\ ci[n] = "success"

OrderlyInv == failed = {} => SoloInv /\ BranchInv /\ ReviewInv

Taken == {"in-progress-by-backend", "worked-by-backend", "blocked-by-backend"}

\* An issue is ready only once it is triaged, and what triage is about to write
\* concerns issues that are not: it cannot undo a claim.
FreshInv ==
    /\ \A n \in Issues \ hasty : ~Hasty(labels[n])
    /\ \A b \in Beats :
        /\ b \in tListing => tIssue[b] = NoIssue /\ tTodo[b] = {}
        /\ \A i \in tTodo[b] : tIssue[b] # i[1] /\ \A k \in tTodo[b] : i[1] = k[1] => i = k
        /\ \A i \in tTodo[b] : i[1] \notin hasty /\ ~Triaged(i[2]) => labels[i[1]] = i[2]
        /\ tIssue[b] \in Issues \ hasty => ~Triaged(labels[tIssue[b]]) /\ ~Hasty(tNew[b])

BetweenLabels == {"claim", "done", "markBlocked", "markBlockedAgain", "markBlockedSetup"}

\* A picked issue keeps a label that says so, save in between two label calls
\* of the heartbeat that picked it.
PickInv ==
    /\ \A n \in Issues \ hasty :
        /\ picks[n] <= 1
        /\ picks[n] = 1 =>
            /\ Triaged(labels[n])
            /\ \/ labels[n] \cap Taken # {}
               \/ \E b \in Beats : bIssue[b] = n /\ bPc[b] \in BetweenLabels
    /\ \A b \in Beats : bIssue[b] \in Issues \ hasty => picks[bIssue[b]] = 1

OnceInv == ghErrors = 0 /\ failed = {} => FreshInv /\ PickInv

------------------------------------------------------------------------------
\* roles/backend.py: "une seule a la fois pour ne pas exploser le LLM": no two
\* heartbeats work on issues at the same time.
OneIssueAtATime ==
    \A b1, b2 \in Beats : bIssue[b1] # NoIssue /\ bIssue[b2] # NoIssue => b1 = b2

==============================================================================
