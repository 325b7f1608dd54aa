------------------------------ MODULE TriageAgent -------------------------------
(***************************************************************************)
(* TriageAgent: lists the open issues once per heartbeat and, for each that*)
(* is not triaged in that list, asks the LLM and replaces the labels of the*)
(* issue.  Every exception is caught per issue, so this agent's heartbeat  *)
(* always returns.                                                         *)
(***************************************************************************)
EXTENDS TeamState

CONSTANT Answers   \* what the LLM may answer: [labels, ready, missing]

ASSUME TriageAssumption ==
    Answers \subseteq [labels : SUBSET (Area \cup Kind), ready : BOOLEAN, missing : BOOLEAN]

VARIABLES
    tListing,  \* heartbeats that have not listed the issues yet
    tTodo,     \* issues still to examine, each with its labels in the list
    tIssue,    \* the issue whose labels are about to be replaced, or NoIssue
    tNew,      \* its new labels
    hasty      \* ghost: issues once made ready without a valid area or kind

triageVars == <<tListing, tTodo, tIssue, tNew, hasty>>

TriageTypeOK ==
    /\ tListing \subseteq Beats
    /\ tTodo \in [Beats -> SUBSET (Issues \X SUBSET Label)]
    /\ tIssue \in [Beats -> Issues \cup {NoIssue}]
    /\ tNew \in [Beats -> SUBSET Label]
    /\ hasty \subseteq Issues

TriageInit ==
    /\ tListing = {}
    /\ tTodo = [b \in Beats |-> {}]
    /\ tIssue = [b \in Beats |-> NoIssue]
    /\ tNew = [b \in Beats |-> {}]
    /\ hasty = {}

TriageIdle(b) == b \notin tListing /\ tTodo[b] = {} /\ tIssue[b] = NoIssue

\* heartbeat: list_open_issues; on any exception it returns.
TriageList(b, r) ==
    /\ b \in tListing
    /\ GhCall(r)
    /\ tListing' = tListing \ {b}
    /\ tTodo' = [tTodo EXCEPT ![b] = IF r = "ok" THEN {<<n, labels[n]>> : n \in issueOpen} ELSE {}]
    /\ UNCHANGED <<issueVars, prVars, loopVars, tIssue, tNew, hasty>>

Triaged(s) ==
    /\ s \cap Area # {}
    /\ s \cap Kind # {}
    /\ s \cap {"ready-for-dev", "needs-info"} # {}

\* The backend agent may pick an issue that triage will look at again.
Hasty(s) == "ready-for-dev" \in s /\ ~Triaged(s)

\* The label set that an answer makes of the labels in the list.
NewLabels(s, a) ==
    LET t == s \cup a.labels
        ready == a.ready /\ "needs-info" \notin t
    IN  t \cup (IF ready THEN {"ready-for-dev"} ELSE {})
          \cup (IF ~ready /\ a.missing THEN {"needs-info", "needs-info-commented"} ELSE {})

\* _triage_one returns: already triaged, over budget, LLM failure, unreadable
\* answer, no new label, or a comment that fails.
TriagePasses(b, i) ==
    /\ tIssue[b] = NoIssue
    /\ i \in tTodo[b]
    /\ tTodo' = [tTodo EXCEPT ![b] = @ \ {i}]
    /\ UNCHANGED <<teamVars, tListing, tIssue, tNew, hasty>>

\* BUG: issues that carry their labels already are asked about again.
TriageAnsweredAgain(b, i, a) ==
    /\ tIssue[b] = NoIssue
    /\ i \in tTodo[b]
    /\ tTodo' = [tTodo EXCEPT ![b] = @ \ {i}]
    /\ tIssue' = [tIssue EXCEPT ![b] = i[1]]
    /\ tNew' = [tNew EXCEPT ![b] = NewLabels(i[2], a)]
    /\ hasty' = IF Hasty(NewLabels(i[2], a)) THEN hasty \cup {i[1]} ELSE hasty
    /\ UNCHANGED <<teamVars, tListing>>

\* _triage_one up to the comparison of the label sets.
TriageAnswered(b, i, a) ==
    /\ tIssue[b] = NoIssue
    /\ i \in tTodo[b]
    /\ ~Triaged(i[2])
    /\ NewLabels(i[2], a) # i[2]
    /\ tTodo' = [tTodo EXCEPT ![b] = @ \ {i}]
    /\ tIssue' = [tIssue EXCEPT ![b] = i[1]]
    /\ tNew' = [tNew EXCEPT ![b] = NewLabels(i[2], a)]
    /\ hasty' = IF Hasty(NewLabels(i[2], a)) THEN hasty \cup {i[1]} ELSE hasty
    /\ UNCHANGED <<teamVars, tListing>>

\* set_issue_labels replaces whatever labels the issue has by now.
TriageWrite(b, r) ==
    /\ tIssue[b] # NoIssue
    /\ GhCall(r)
    /\ IF GhExecuted(r) THEN SetIssueLabels(tIssue[b], tNew[b]) ELSE UNCHANGED labels
    /\ tIssue' = [tIssue EXCEPT ![b] = NoIssue]
    /\ tNew' = [tNew EXCEPT ![b] = {}]
    /\ UNCHANGED <<issueOpen, prVars, loopVars, tListing, tTodo, hasty>>

TriageStep(b) ==
    \/ \E r \in GhReply : TriageList(b, r)
    \/ \E i \in tTodo[b] : TriagePasses(b, i) \/ \E a \in Answers : TriageAnswered(b, i, a)
    \/ \E r \in GhReply : TriageWrite(b, r)

==============================================================================
