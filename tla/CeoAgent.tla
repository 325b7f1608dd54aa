-------------------------------- MODULE CeoAgent --------------------------------
(***************************************************************************)
(* CEOAgent: lists the open pull requests once per heartbeat and closes,   *)
(* merges or flags each.  Exceptions are caught per pull request; only an  *)
(* httpx exception of the list itself leaves the heartbeat.                *)
(***************************************************************************)
EXTENDS BackendAgent

VARIABLES
    cPc,      \* per heartbeat; names the next call
    cTodo,    \* pull requests still to review, each with its labels in the list
    cPr,      \* the pull request under review, or NoIssue
    cGrade,   \* what check_charter_3 and 4 say of the files that were read
    cLabels   \* the listed labels of cPr

ceoVars == <<cPc, cTodo, cPr, cGrade, cLabels>>

CeoTypeOK ==
    /\ cPc \in [Beats -> {"idle", "list", "files", "status", "close", "merge", "flag", "unflag"}]
    /\ cTodo \in [Beats -> SUBSET (Issues \X SUBSET PrLabel)]
    /\ cPr \in [Beats -> Issues \cup {NoIssue}]
    /\ cGrade \in [Beats -> Grades \cup {"none"}]
    /\ cLabels \in [Beats -> SUBSET PrLabel]
    /\ \A b \in Beats : cPr[b] = NoIssue <=> cPc[b] \in {"idle", "list", "files"}
    /\ \A b \in Beats : cPc[b] = "idle" => cTodo[b] = {}

CeoInit ==
    /\ cPc = [b \in Beats |-> "idle"]
    /\ cTodo = [b \in Beats |-> {}]
    /\ cPr = [b \in Beats |-> NoIssue]
    /\ cGrade = [b \in Beats |-> "none"]
    /\ cLabels = [b \in Beats |-> {}]

CeoIdle(b) == cPc[b] = "idle"

CeoGoto(b, pc) == cPc' = [cPc EXCEPT ![b] = pc] /\ UNCHANGED <<cTodo, cPr, cGrade, cLabels>>

\* The next pull request of the list, or the end of the heartbeat.
CeoNext(b) ==
    /\ cPc' = [cPc EXCEPT ![b] = IF cTodo[b] = {} THEN "idle" ELSE "files"]
    /\ cPr' = [cPr EXCEPT ![b] = NoIssue]
    /\ cGrade' = [cGrade EXCEPT ![b] = "none"]
    /\ cLabels' = [cLabels EXCEPT ![b] = {}]
    /\ UNCHANGED cTodo

\* heartbeat: list_open_prs.
CeoList(b, r) ==
    /\ cPc[b] = "list"
    /\ GhCall(r)
    /\ LET listed == IF r = "ok" THEN {<<n, prLabels[n]>> : n \in {m \in Issues : pr[m] = "open"}}
                                 ELSE {}
       IN  /\ cTodo' = [cTodo EXCEPT ![b] = listed]
           /\ cPc' = [cPc EXCEPT ![b] = IF listed = {} THEN "idle" ELSE "files"]
    /\ IF NotCaught(r) THEN Escapes(b) ELSE UNCHANGED loopVars
    /\ UNCHANGED <<issueVars, prVars, triageVars, backendVars, cPr, cGrade, cLabels>>

\* get_pr_files; an exception ends the review of this pull request.
ReadFiles(b, p, r) ==
    /\ cPc[b] = "files"
    /\ p \in cTodo[b]
    /\ GhCall(r)
    /\ cTodo' = [cTodo EXCEPT ![b] = @ \ {p}]
    /\ IF r = "ok"
       THEN /\ cPc' = [cPc EXCEPT ![b] = "status"]
            /\ cPr' = [cPr EXCEPT ![b] = p[1]]
            /\ cGrade' = [cGrade EXCEPT ![b] = content[p[1]]]
            /\ cLabels' = [cLabels EXCEPT ![b] = p[2]]
       ELSE /\ cPc' = [cPc EXCEPT ![b] = IF cTodo[b] = {p} THEN "idle" ELSE "files"]
            /\ UNCHANGED <<cPr, cGrade, cLabels>>
    /\ UNCHANGED <<issueVars, prVars, loopVars, triageVars, backendVars>>

\* check_charter_4, then check_charter_3.
Verdict(b) ==
    CASE cGrade[b] = "rejected" -> "close"
      [] cGrade[b] = "clean" /\ ci[cPr[b]] = "success" -> "merge"
      [] OTHER -> "flag"

\* get_pr_status and the verdict.
ReadStatus(b, r) ==
    /\ cPc[b] = "status"
    /\ GhCall(r)
    /\ IF r = "ok" THEN CeoGoto(b, Verdict(b)) ELSE CeoNext(b)
    /\ UNCHANGED <<issueVars, prVars, loopVars, triageVars, backendVars>>

\* comment_pr and close_pr.
ClosePr(b, r) ==
    /\ cPc[b] = "close"
    /\ GhCall(r)
    /\ pr' = IF GhExecuted(r) /\ pr[cPr[b]] = "open" THEN [pr EXCEPT ![cPr[b]] = "closed"] ELSE pr
    /\ CeoNext(b)
    /\ UNCHANGED <<issueVars, opened, prLabels, content, ci, loopVars, triageVars, backendVars>>

\* approve_pr, whose refusal is ignored, and merge_pr of whatever the head is by
\* now.  A branch protection leads to the flag.  GitHub closes the issue.
MergePr(b, r, protected) ==
    /\ cPc[b] = "merge"
    /\ GhCall(r)
    /\ LET merges == GhExecuted(r) /\ ~protected /\ pr[cPr[b]] = "open"
       IN  /\ pr' = IF merges THEN [pr EXCEPT ![cPr[b]] = "merged"] ELSE pr
           /\ issueOpen' = IF merges THEN issueOpen \ {cPr[b]} ELSE issueOpen
           /\ CASE r = "ok" /\ merges /\ cLabels[b] # {} -> CeoGoto(b, "unflag")
                [] r = "ok" /\ ~merges -> CeoGoto(b, "flag")
                [] OTHER -> CeoNext(b)
    /\ UNCHANGED <<labels, opened, prLabels, content, ci, loopVars, triageVars, backendVars>>

\* add_labels needs-human-review and a comment, unless the list showed it.
FlagReview(b, r) ==
    /\ cPc[b] = "flag"
    /\ cLabels[b] # {} => r = "ok"
    /\ GhCall(r)
    /\ prLabels' = IF GhExecuted(r) /\ cLabels[b] = {}
                   THEN [prLabels EXCEPT ![cPr[b]] = PrLabel] ELSE prLabels
    /\ CeoNext(b)
    /\ UNCHANGED <<issueVars, pr, opened, content, ci, loopVars, triageVars, backendVars>>

\* remove_label needs-human-review after a merge.
Unflag(b, r) ==
    /\ cPc[b] = "unflag"
    /\ GhCall(r)
    /\ prLabels' = IF GhExecuted(r) THEN [prLabels EXCEPT ![cPr[b]] = {}] ELSE prLabels
    /\ CeoNext(b)
    /\ UNCHANGED <<issueVars, pr, opened, content, ci, loopVars, triageVars, backendVars>>

CeoStep(b) ==
    \E r \in GhReply :
        \/ CeoList(b, r)
        \/ \E p \in cTodo[b] : ReadFiles(b, p, r)
        \/ ReadStatus(b, r)
        \/ ClosePr(b, r)
        \/ \E protected \in BOOLEAN : MergePr(b, r, protected)
        \/ FlagReview(b, r)
        \/ Unflag(b, r)

==============================================================================
