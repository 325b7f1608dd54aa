------------------------------- MODULE TeamProofs -------------------------------
(***************************************************************************)
(* Theorems about Team, for any number of issues, heartbeats under way,    *)
(* answers of the LLM and failing calls.                                   *)
(***************************************************************************)
EXTENDS Team, TLAPS

\* The variable groups and the set of replies are expanded everywhere.
USE DEF GhReply, issueVars, prVars, loopVars, teamVars, triageVars, backendVars, ceoVars

------------------------------------------------------------------------------
(***************************************************************************)
(* Types.                                                                  *)
(***************************************************************************)

\* The labels the agents write are labels.
LEMMA LabelFacts ==
    /\ {"ready-for-dev", "needs-info", "needs-info-commented", "in-progress-by-backend",
        "worked-by-backend", "blocked-by-backend"} \subseteq Label
    /\ Area \cup Kind \subseteq Label
  BY DEF Label

\* Triage's new label set is a set of labels.
LEMMA NewLabelsType ==
    ASSUME NEW s \in SUBSET Label, NEW a \in Answers PROVE NewLabels(s, a) \in SUBSET Label
  <1>1. a.labels \subseteq Label
    BY TriageAssumption, LabelFacts
  <1> QED
    BY <1>1, LabelFacts DEF NewLabels

\* The initial state is typed.
LEMMA TypeInit == Init => TypeOK
  <1> SUFFICES ASSUME Init PROVE TypeOK
    OBVIOUS
  <1>1. TeamStateTypeOK
    BY TeamStateAssumption DEF Init, TeamStateInit, TeamStateTypeOK
  <1>2. TriageTypeOK
    BY DEF Init, TriageInit, TriageTypeOK
  <1>3. BackendTypeOK
    BY DEF Init, BackendInit, BackendTypeOK, BackendPcs
  <1>4. CeoTypeOK
    BY DEF Init, CeoInit, CeoTypeOK
  <1> QED
    BY <1>1, <1>2, <1>3, <1>4 DEF TypeOK

\* An agent's variables keep their types while nobody changes them.
LEMMA TypeStable ==
    /\ TriageTypeOK /\ UNCHANGED triageVars => TriageTypeOK'
    /\ BackendTypeOK /\ UNCHANGED backendVars => BackendTypeOK'
    /\ CeoTypeOK /\ UNCHANGED ceoVars => CeoTypeOK'
  BY DEF TriageTypeOK, BackendTypeOK, CeoTypeOK

\* One lemma per agent: its steps keep the types.
LEMMA TypeTriage == ASSUME NEW b \in Beats PROVE TypeOK /\ Triages(b) => TypeOK'
  <1> SUFFICES ASSUME TypeOK, Triages(b) PROVE TypeOK'
    OBVIOUS
  <1>1. BackendTypeOK' /\ CeoTypeOK'
    BY TypeStable DEF Triages, TypeOK
  <1> USE TeamStateAssumption, <1>1 DEF TypeOK, TeamStateTypeOK, TriageTypeOK, GhCall
  <1>2. ASSUME NEW r \in GhReply, TriageList(b, r) PROVE TypeOK'
    <2>1. tTodo' \in [Beats -> SUBSET (Issues \X SUBSET Label)]
      BY <1>2 DEF TriageList
    <2> QED
      BY <1>2, <2>1 DEF TriageList
  <1>3. ASSUME NEW i \in tTodo[b], TriagePasses(b, i) PROVE TypeOK'
    BY <1>3 DEF TriagePasses
  <1>4. ASSUME NEW i \in tTodo[b], NEW a \in Answers, TriageAnswered(b, i, a) PROVE TypeOK'
    <2>1. i[1] \in Issues /\ i[2] \in SUBSET Label
      OBVIOUS
    <2>2. NewLabels(i[2], a) \in SUBSET Label
      BY <2>1, NewLabelsType
    <2> QED
      BY <1>4, <2>1, <2>2 DEF TriageAnswered
  <1>5. ASSUME NEW r \in GhReply, TriageWrite(b, r) PROVE TypeOK'
    BY <1>5 DEF TriageWrite, SetIssueLabels
  <1> QED
    BY <1>2, <1>3, <1>4, <1>5 DEF Triages, TriageStep

LEMMA TypeBackend == ASSUME NEW b \in Beats PROVE TypeOK /\ Works(b) => TypeOK'
  <1> SUFFICES ASSUME TypeOK, Works(b) PROVE TypeOK'
    OBVIOUS
  <1>1. TriageTypeOK' /\ CeoTypeOK'
    BY TypeStable
    DEF TypeOK, Works, BackendStep, BackendList, BackendClaim, OpenPr, FlagPr, Unclaim, MarkDone,
        BlockSilent, BlockUnclaim, BlockMark, Setup, Generate, RunTests, Push, RemoveWorktree
  <1> USE TeamStateAssumption, LabelFacts, <1>1
      DEF TypeOK, TeamStateTypeOK, BackendTypeOK, BackendPcs, GhCall, Goto, BackendEnds, Escapes,
          NoIssue
  <1>2. ASSUME NEW r \in GhReply, BackendList(b, r) PROVE TypeOK'
    <2>1. CASE r = "ok" /\ \E n \in Issues : Candidate(n)
      BY <1>2, <2>1 DEF BackendList, NotCaught
    <2>2. CASE ~(r = "ok" /\ \E n \in Issues : Candidate(n))
      BY <1>2, <2>2 DEF BackendList
    <2> QED
      BY <2>1, <2>2
  <1>3. ASSUME NEW r \in GhReply, BackendClaim(b, r) PROVE TypeOK'
    BY <1>3 DEF BackendClaim, AddLabels
  <1>4. ASSUME NEW r \in GhReply, OpenPr(b, r) PROVE TypeOK'
    BY <1>4 DEF OpenPr
  <1>5. ASSUME NEW r \in GhReply, FlagPr(b, r) PROVE TypeOK'
    BY <1>5 DEF FlagPr
  <1>6. ASSUME NEW r \in GhReply, Unclaim(b, r) PROVE TypeOK'
    BY <1>6 DEF Unclaim, RemoveLabel
  <1>7. ASSUME NEW r \in GhReply, MarkDone(b, r) PROVE TypeOK'
    BY <1>7 DEF MarkDone, AddLabels
  <1>8. ASSUME NEW r \in GhReply, BlockSilent(b, r) PROVE TypeOK'
    BY <1>8 DEF BlockSilent, BlockRaises
  <1>9. ASSUME NEW r \in GhReply, BlockUnclaim(b, r) PROVE TypeOK'
    BY <1>9 DEF BlockUnclaim, BlockRaises, RemoveLabel
  <1>10. ASSUME NEW r \in GhReply, BlockMark(b, r) PROVE TypeOK'
    BY <1>10 DEF BlockMark, BlockRaises, AddLabels
  <1>11. ASSUME NEW outcome \in {"ok", "fetch", "hook", "early", "late"}, Setup(b, outcome) PROVE TypeOK'
    <2>1. bIssue[b] \in Issues
      BY <1>11 DEF Setup
    <2>2. worktree' \subseteq Issues /\ branch' \subseteq Issues
      BY <1>11, <2>1, ZenonT(40) DEF Setup
    <2>3. UNCHANGED <<issueVars, prVars, ghErrors, picks, leftover>> /\ bPc[b] = "setup"
      BY <1>11 DEF Setup
    <2>4. CASE /\ bPc' = [bPc EXCEPT ![b] = "generate"] \/ bPc' = [bPc EXCEPT ![b] = "blockSetup"]
               /\ UNCHANGED <<bIssue, bRed, loopVars>>
      BY <2>2, <2>3, <2>4
    <2>5. CASE BackendEnds(b) /\ Escapes(b)
      BY <2>2, <2>3, <2>5
    <2> QED
      BY <1>11, <2>4, <2>5 DEF Setup
  <1>12. ASSUME NEW outcome \in {"usable", "unusable", "raised"}, Generate(b, outcome) PROVE TypeOK'
    BY <1>12 DEF Generate
  <1>13. ASSUME NEW result \in {"green", "red", "raised"}, RunTests(b, result) PROVE TypeOK'
    BY <1>13 DEF RunTests
  <1>14. ASSUME NEW grade \in Grades \cup {"none", "raised"}, Push(b, grade) PROVE TypeOK'
    BY <1>14 DEF Push
  <1>15. ASSUME NEW removed \in BOOLEAN, RemoveWorktree(b, removed) PROVE TypeOK'
    <2>1. TeamStateTypeOK'
      BY <1>15 DEF RemoveWorktree
    <2>2. worktree' \subseteq Issues /\ branch' \subseteq Issues /\ leftover' \subseteq Issues
      <3>1. bIssue[b] \in Issues
        BY <1>15 DEF RemoveWorktree
      <3>2. /\ worktree' \subseteq worktree /\ branch' = branch
            /\ leftover' \subseteq leftover \cup {bIssue[b]}
        BY <1>15 DEF RemoveWorktree
      <3> QED
        BY <3>1, <3>2
    <2>3. BackendTypeOK'
      <3>1. /\ bPc' = [bPc EXCEPT ![b] = "idle"]
            /\ bIssue' = [bIssue EXCEPT ![b] = NoIssue]
            /\ bRed' = bRed \ {b}
            /\ UNCHANGED picks
        BY <1>15 DEF RemoveWorktree
      <3> QED
        BY <2>2, <3>1
    <2> QED
      BY <2>1, <2>3
  <1> QED
    BY <1>2, <1>3, <1>4, <1>5, <1>6, <1>7, <1>8, <1>9, <1>10, <1>11, <1>12, <1>13, <1>14, <1>15, SMTT(30)
    DEF Works, BackendStep

LEMMA TypeCeo == ASSUME NEW b \in Beats PROVE TypeOK /\ CeoStep(b) => TypeOK'
  <1> SUFFICES ASSUME TypeOK, CeoStep(b) PROVE TypeOK'
    OBVIOUS
  <1>1. PICK r \in GhReply :
           \/ CeoList(b, r)
           \/ \E p \in cTodo[b] : ReadFiles(b, p, r)
           \/ ReadStatus(b, r)
           \/ ClosePr(b, r)
           \/ \E protected \in BOOLEAN : MergePr(b, r, protected)
           \/ FlagReview(b, r)
           \/ Unflag(b, r)
    BY DEF CeoStep
  <1>2. TriageTypeOK' /\ BackendTypeOK'
    BY <1>1, TypeStable
    DEF TypeOK, CeoList, ReadFiles, ReadStatus, ClosePr, MergePr, FlagReview, Unflag
  <1> USE TeamStateAssumption, <1>2
      DEF TypeOK, TeamStateTypeOK, CeoTypeOK, GhCall, Escapes, CeoNext, CeoGoto, NoIssue
  <1>3. CASE CeoList(b, r)
    <2>1. cTodo' \in [Beats -> SUBSET (Issues \X SUBSET PrLabel)]
      BY <1>3 DEF CeoList
    <2> QED
      BY <1>3, <2>1 DEF CeoList
  <1>4. ASSUME NEW p \in cTodo[b], ReadFiles(b, p, r) PROVE TypeOK'
    <2>1. p[1] \in Issues /\ p[2] \in SUBSET PrLabel
      OBVIOUS
    <2> QED
      <3>1. CASE r = "ok"
        <4>1. /\ cTodo' \in [Beats -> SUBSET (Issues \X SUBSET PrLabel)]
              /\ cLabels' \in [Beats -> SUBSET PrLabel]
          BY <1>4, <2>1, <3>1 DEF ReadFiles
        <4>2. /\ cPr' = [cPr EXCEPT ![b] = p[1]]
              /\ cPc' = [cPc EXCEPT ![b] = "status"]
              /\ cGrade' = [cGrade EXCEPT ![b] = content[p[1]]]
              /\ \A h \in Beats : h # b => cTodo'[h] = cTodo[h]
          BY <1>4, <3>1 DEF ReadFiles
        <4>3. CeoTypeOK'
          BY <2>1, <4>1, <4>2
        <4>4. TeamStateTypeOK'
          BY <1>4, <3>1 DEF ReadFiles
        <4> QED
          BY <4>3, <4>4
      <3>2. CASE r # "ok"
        BY <1>4, <2>1, <3>2 DEF ReadFiles
      <3> QED
        BY <3>1, <3>2
  <1>5. CASE ReadStatus(b, r)
    BY <1>5 DEF ReadStatus, Verdict
  <1>6. CASE ClosePr(b, r)
    BY <1>6 DEF ClosePr
  <1>7. ASSUME NEW protected \in BOOLEAN, MergePr(b, r, protected) PROVE TypeOK'
    BY <1>7 DEF MergePr
  <1>8. CASE FlagReview(b, r)
    BY <1>8 DEF FlagReview
  <1>9. CASE Unflag(b, r)
    BY <1>9 DEF Unflag
  <1> QED
    BY <1>1, <1>3, <1>4, <1>5, <1>6, <1>7, <1>8, <1>9

LEMMA TypeLoop ==
    TypeOK /\ ((\E b \in Beats : Tick(b)) \/ TickEnds \/ (\E n \in Issues : Checks(n))) => TypeOK'
  <1> USE DEF TypeOK, TeamStateTypeOK, TriageTypeOK, BackendTypeOK, BackendPcs, CeoTypeOK
  <1>1. ASSUME NEW b \in Beats, TypeOK, Tick(b) PROVE TypeOK'
    BY <1>1 DEF Tick, Resting, BackendIdle, CeoIdle
  <1>2. ASSUME TypeOK, TickEnds PROVE TypeOK'
    BY <1>2 DEF TickEnds
  <1>3. ASSUME NEW n \in Issues, TypeOK, Checks(n) PROVE TypeOK'
    BY <1>3 DEF Checks, CheckRuns
  <1> QED
    BY <1>1, <1>2, <1>3

\* Every step keeps the types.
LEMMA TypeNext == TypeOK /\ [Next]_vars => TypeOK'
  <1>1. TypeOK /\ UNCHANGED vars => TypeOK'
    BY DEF vars, TypeOK, TeamStateTypeOK, TriageTypeOK, BackendTypeOK, CeoTypeOK
  <1> QED
    BY <1>1, TypeTriage, TypeBackend, TypeCeo, TypeLoop DEF Next

\* The variables of the agents, of GitHub and of the loop keep their types, an
\* agent has an issue exactly in the stages that work on one.
THEOREM TeamTypeCorrect == Spec => []TypeOK
  BY TypeInit, TypeNext, PTL DEF Spec

------------------------------------------------------------------------------
(***************************************************************************)
(* The label "worked" and the pull requests.                               *)
(***************************************************************************)

\* An answer of the LLM does not add the label "worked".
LEMMA NewLabelsNotWorked ==
    ASSUME NEW s, NEW a \in Answers, "worked-by-backend" \in NewLabels(s, a)
    PROVE  "worked-by-backend" \in s
  <1>1. "worked-by-backend" \notin a.labels
    BY TriageAssumption DEF Area, Kind
  <1> QED
    BY <1>1 DEF NewLabels

LEMMA WorkedTriage ==
    ASSUME NEW b \in Beats PROVE TypeOK /\ WorkedInv /\ Triages(b) => WorkedInv'
  <1> SUFFICES ASSUME TypeOK, WorkedInv, Triages(b) PROVE WorkedInv'
    OBVIOUS
  <1> USE DEF WorkedInv, WorkedHasPr, TypeOK, TriageTypeOK, TeamStateTypeOK
  <1>1. UNCHANGED <<bPc, bIssue>>
    BY DEF Triages
  <1>2. ASSUME NEW r \in GhReply, TriageList(b, r) PROVE WorkedInv'
    <2>1. \A i \in tTodo'[b] : i[1] \in Issues /\ i[2] = labels[i[1]]
      BY <1>2 DEF TriageList
    <2>2. \A h \in Beats : h # b => tTodo'[h] = tTodo[h]
      BY <1>2 DEF TriageList
    <2>3. UNCHANGED <<labels, pr, tIssue, tNew>>
      BY <1>2 DEF TriageList
    <2> QED
      BY <1>1, <2>1, <2>2, <2>3
  <1>3. ASSUME NEW i \in tTodo[b], TriagePasses(b, i) PROVE WorkedInv'
    BY <1>1, <1>3 DEF TriagePasses
  <1>4. ASSUME NEW i \in tTodo[b], NEW a \in Answers, TriageAnswered(b, i, a) PROVE WorkedInv'
    <2>1. "worked-by-backend" \in NewLabels(i[2], a) => pr[i[1]] # "none"
      BY NewLabelsNotWorked
    <2>2. /\ UNCHANGED <<labels, pr>>
          /\ \A h \in Beats : tTodo'[h] \subseteq tTodo[h]
          /\ \A h \in Beats : h # b => tIssue'[h] = tIssue[h] /\ tNew'[h] = tNew[h]
          /\ tIssue'[b] = i[1] /\ tNew'[b] = NewLabels(i[2], a)
      BY <1>4 DEF TriageAnswered
    <2> QED
      BY <1>1, <2>1, <2>2
  <1>5. ASSUME NEW r \in GhReply, TriageWrite(b, r) PROVE WorkedInv'
    BY <1>1, <1>5 DEF TriageWrite, SetIssueLabels
  <1> QED
    BY <1>2, <1>3, <1>4, <1>5 DEF Triages, TriageStep

LEMMA WorkedBackend ==
    ASSUME NEW b \in Beats PROVE TypeOK /\ WorkedInv /\ Works(b) => WorkedInv'
  <1> SUFFICES ASSUME TypeOK, WorkedInv, Works(b) PROVE WorkedInv'
    OBVIOUS
  <1> USE DEF WorkedInv, WorkedHasPr, TypeOK, TeamStateTypeOK, BackendTypeOK, TriageTypeOK, Goto,
              BackendEnds, NoIssue
  <1>1. ASSUME NEW r \in GhReply, BackendList(b, r) PROVE WorkedInv'
    <2>1. CASE r = "ok" /\ \E n \in Issues : Candidate(n)
      BY <1>1, <2>1 DEF BackendList
    <2>2. CASE ~(r = "ok" /\ \E n \in Issues : Candidate(n))
      BY <1>1, <2>2 DEF BackendList
    <2> QED
      BY <2>1, <2>2
  <1>2. ASSUME NEW r \in GhReply, BackendClaim(b, r) PROVE WorkedInv'
    BY <1>2 DEF BackendClaim, AddLabels
  <1>3. ASSUME NEW r \in GhReply, OpenPr(b, r) PROVE WorkedInv'
    BY <1>3 DEF OpenPr
  <1>4. ASSUME NEW r \in GhReply, FlagPr(b, r) PROVE WorkedInv'
    BY <1>4 DEF FlagPr
  <1>5. ASSUME NEW r \in GhReply, Unclaim(b, r) PROVE WorkedInv'
    BY <1>5 DEF Unclaim, RemoveLabel
  <1>6. ASSUME NEW r \in GhReply, MarkDone(b, r) PROVE WorkedInv'
    BY <1>6 DEF MarkDone, AddLabels
  <1>7. ASSUME NEW r \in GhReply, BlockSilent(b, r) PROVE WorkedInv'
    BY <1>7 DEF BlockSilent, BlockRaises
  <1>8. ASSUME NEW r \in GhReply, BlockUnclaim(b, r) PROVE WorkedInv'
    BY <1>8 DEF BlockUnclaim, BlockRaises, RemoveLabel
  <1>9. ASSUME NEW r \in GhReply, BlockMark(b, r) PROVE WorkedInv'
    BY <1>9 DEF BlockMark, BlockRaises, AddLabels
  <1>10. ASSUME NEW outcome \in {"ok", "fetch", "hook", "early", "late"}, Setup(b, outcome) PROVE WorkedInv'
    <2>1. bPc'[b] \in {"generate", "blockSetup", "idle"}
      BY <1>10 DEF Setup
    <2>2. \A h \in Beats : h # b => bPc'[h] = bPc[h] /\ bIssue'[h] = bIssue[h]
      BY <1>10 DEF Setup
    <2>3. UNCHANGED <<labels, pr, triageVars>>
      BY <1>10 DEF Setup
    <2> QED
      BY <2>1, <2>2, <2>3
  <1>11. ASSUME NEW outcome \in {"usable", "unusable", "raised"}, Generate(b, outcome) PROVE WorkedInv'
    BY <1>11 DEF Generate
  <1>12. ASSUME NEW result \in {"green", "red", "raised"}, RunTests(b, result) PROVE WorkedInv'
    BY <1>12 DEF RunTests
  <1>13. ASSUME NEW grade \in Grades \cup {"none", "raised"}, Push(b, grade) PROVE WorkedInv'
    BY <1>13 DEF Push
  <1>14. ASSUME NEW removed \in BOOLEAN, RemoveWorktree(b, removed) PROVE WorkedInv'
    BY <1>14 DEF RemoveWorktree
  <1> HIDE DEF WorkedInv, WorkedHasPr, TypeOK, TeamStateTypeOK, BackendTypeOK, TriageTypeOK, Goto,
              BackendEnds, NoIssue
  <1> QED
    BY <1>1, <1>2, <1>3, <1>4, <1>5, <1>6, <1>7, <1>8, <1>9, <1>10, <1>11, <1>12, <1>13, <1>14
    DEF Works, BackendStep

LEMMA WorkedCeo ==
    ASSUME NEW b \in Beats PROVE TypeOK /\ WorkedInv /\ CeoStep(b) => WorkedInv'
  <1> SUFFICES ASSUME TypeOK, WorkedInv, CeoStep(b) PROVE WorkedInv'
    OBVIOUS
  <1>1. UNCHANGED <<labels, triageVars, backendVars>>
    BY DEF CeoStep, CeoList, ReadFiles, ReadStatus, ClosePr, MergePr, FlagReview, Unflag
  <1>2. \A n \in Issues : pr[n] # "none" => pr'[n] # "none"
    BY DEF CeoStep, CeoList, ReadFiles, ReadStatus, ClosePr, MergePr, FlagReview, Unflag,
           TypeOK, TeamStateTypeOK
  <1> QED
    BY <1>1, <1>2 DEF WorkedInv, WorkedHasPr, TypeOK, TriageTypeOK, BackendTypeOK, NoIssue

\* Every step keeps WorkedInv.
LEMMA WorkedNext == TypeOK /\ WorkedInv /\ [Next]_vars => WorkedInv'
  <1> SUFFICES ASSUME TypeOK, WorkedInv, [Next]_vars PROVE WorkedInv'
    OBVIOUS
  <1> USE DEF WorkedInv, WorkedHasPr, TypeOK, BackendTypeOK
  <1>1. ASSUME NEW b \in Beats, Tick(b) PROVE WorkedInv'
    BY <1>1 DEF Tick
  <1>2. CASE TickEnds
    BY <1>2 DEF TickEnds
  <1>3. ASSUME NEW n \in Issues, Checks(n) PROVE WorkedInv'
    BY <1>3 DEF Checks, CheckRuns
  <1>4. CASE UNCHANGED vars
    BY <1>4 DEF vars
  <1> QED
    BY <1>1, <1>2, <1>3, <1>4, WorkedTriage, WorkedBackend, WorkedCeo DEF Next

\* An issue labelled worked-by-backend has a pull request, whatever calls fail
\* and however many heartbeats overlap: a triage that writes old labels back
\* can only write back what was true.
THEOREM WorkedMeansPr == Spec => []WorkedHasPr
  <1>1. Init => WorkedInv
    BY DEF Init, TeamStateInit, TriageInit, BackendInit, WorkedInv, WorkedHasPr
  <1>2. WorkedInv => WorkedHasPr
    BY DEF WorkedInv
  <1> QED
    BY <1>1, <1>2, WorkedNext, TeamTypeCorrect, PTL DEF Spec

------------------------------------------------------------------------------
(***************************************************************************)
(* Before any heartbeat fails.                                             *)
(***************************************************************************)

LEMMA OrderlyTriage ==
    ASSUME NEW b \in Beats, TypeOK, SoloInv, BranchInv, ReviewInv, Triages(b)
    PROVE  SoloInv' /\ BranchInv' /\ ReviewInv'
  <1>1. /\ UNCHANGED <<prVars, loopVars, backendVars, ceoVars>>
        /\ b = current
    BY DEF Triages, TriageStep, TriageList, TriagePasses, TriageAnswered, TriageWrite,
           SoloInv, Resting, TriageIdle
  <1>2. \A h \in Beats : h # b => TriageIdle(h)' = TriageIdle(h)
    BY DEF Triages, TriageStep, TriageList, TriagePasses, TriageAnswered, TriageWrite, TriageIdle,
           TypeOK, TriageTypeOK
  <1> QED
    BY <1>1, <1>2 DEF SoloInv, BranchInv, ReviewInv, Resting, BackendIdle, CeoIdle

\* A backend step that leaves pull requests, heads and worktrees alone and does
\* not enter or leave the stages around the pull request.
LEMMA OrderlyFrame ==
    ASSUME NEW b \in Beats, TypeOK, SoloInv, BranchInv, ReviewInv, b = current,
           UNCHANGED <<triageVars, ceoVars, pr, opened, content, ci, current, worktree, branch, leftover>>,
           \A h \in Beats : h # b => bPc'[h] = bPc[h] /\ bIssue'[h] = bIssue[h],
           bPc[b] \in AfterOpen => bPc'[b] \in AfterOpen /\ bIssue'[b] = bIssue[b],
           bPc'[b] \in BeforeOpen => bPc[b] \in BeforeOpen /\ bIssue'[b] = bIssue[b]
    PROVE  SoloInv' /\ BranchInv' /\ ReviewInv'
  <1>1. ReviewInv'
    BY DEF ReviewInv
  <1>2. \A h \in Beats : h # current => Resting(h)'
    BY DEF SoloInv, BranchInv, Resting, TriageIdle, BackendIdle, CeoIdle
  <1>3. \A h \in Beats : bPc'[h] \in BeforeOpen /\ bIssue'[h] \notin leftover =>
           opened[bIssue'[h]] = 0 /\ bIssue'[h] \in worktree
    BY DEF SoloInv, BranchInv
  <1> QED
    BY <1>1, <1>2, <1>3 DEF SoloInv, BranchInv

LEMMA OrderlyBackend ==
    ASSUME NEW b \in Beats, TypeOK, SoloInv, BranchInv, ReviewInv, Works(b), failed' = {}
    PROVE  SoloInv' /\ BranchInv' /\ ReviewInv'
  <1>1. b = current
    BY DEF Works, BackendStep, BackendList, BackendClaim, OpenPr, FlagPr, Unclaim, MarkDone,
           BlockSilent, BlockUnclaim, BlockMark, Setup, Generate, RunTests, Push, RemoveWorktree,
           SoloInv, Resting, BackendIdle
  <1>2. UNCHANGED ceoVars
    BY DEF Works
  <1> USE <1>1, <1>2
      DEF TypeOK, BackendTypeOK, Goto, BackendEnds, Escapes, BeforeOpen, AfterOpen, NoIssue
  <1>3. ASSUME NEW r \in GhReply, BackendList(b, r) PROVE SoloInv' /\ BranchInv' /\ ReviewInv'
    <2>1. CASE r = "ok" /\ \E n \in Issues : Candidate(n)
      BY <1>3, <2>1, OrderlyFrame DEF BackendList
    <2>2. CASE ~(r = "ok" /\ \E n \in Issues : Candidate(n))
      BY <1>3, <2>2, OrderlyFrame DEF BackendList
    <2> QED
      BY <2>1, <2>2
  <1>4. ASSUME NEW r \in GhReply, BackendClaim(b, r) PROVE SoloInv' /\ BranchInv' /\ ReviewInv'
    BY <1>4, OrderlyFrame DEF BackendClaim
  <1>5. ASSUME NEW r \in GhReply, FlagPr(b, r) PROVE SoloInv' /\ BranchInv' /\ ReviewInv'
    BY <1>5, OrderlyFrame DEF FlagPr
  <1>6. ASSUME NEW r \in GhReply, Unclaim(b, r) PROVE SoloInv' /\ BranchInv' /\ ReviewInv'
    BY <1>6, OrderlyFrame DEF Unclaim
  <1>7. ASSUME NEW r \in GhReply, MarkDone(b, r) PROVE SoloInv' /\ BranchInv' /\ ReviewInv'
    BY <1>7, OrderlyFrame DEF MarkDone
  <1>8. ASSUME NEW r \in GhReply, BlockSilent(b, r) PROVE SoloInv' /\ BranchInv' /\ ReviewInv'
    BY <1>8, OrderlyFrame DEF BlockSilent, BlockRaises
  <1>9. ASSUME NEW r \in GhReply, BlockUnclaim(b, r) PROVE SoloInv' /\ BranchInv' /\ ReviewInv'
    BY <1>9, OrderlyFrame DEF BlockUnclaim, BlockRaises
  <1>10. ASSUME NEW r \in GhReply, BlockMark(b, r) PROVE SoloInv' /\ BranchInv' /\ ReviewInv'
    BY <1>10, OrderlyFrame DEF BlockMark, BlockRaises
  <1>11. ASSUME NEW outcome \in {"usable", "unusable", "raised"}, Generate(b, outcome) PROVE SoloInv' /\ BranchInv' /\ ReviewInv'
    BY <1>11, OrderlyFrame DEF Generate
  <1>12. ASSUME NEW result \in {"green", "red", "raised"}, RunTests(b, result)
         PROVE  SoloInv' /\ BranchInv' /\ ReviewInv'
    BY <1>12, OrderlyFrame DEF RunTests
  <1>13. ASSUME NEW r \in GhReply, OpenPr(b, r) PROVE SoloInv' /\ BranchInv' /\ ReviewInv'
    <2>1. PICK n \in Issues : n = bIssue[b] /\ bPc[b] = "open"
      BY <1>13 DEF OpenPr
    <2>2. /\ UNCHANGED <<triageVars, content, ci, current, worktree, branch, bIssue, leftover>>
          /\ bPc'[b] \in AfterOpen
          /\ \A h \in Beats : h # b => bPc'[h] = bPc[h]
      BY <1>13 DEF OpenPr
    <2>3. CASE GhExecuted(r) /\ pr[n] # "open"
      <3>1. /\ pr' = [pr EXCEPT ![n] = "open"]
            /\ opened' = [opened EXCEPT ![n] = IF @ < 2 THEN @ + 1 ELSE @]
        BY <1>13, <2>1, <2>3 DEF OpenPr
      <3>2. /\ pr'[n] = "open" /\ opened'[n] = IF opened[n] < 2 THEN opened[n] + 1 ELSE opened[n]
            /\ \A m \in Issues : m # n => opened'[m] = opened[m] /\ pr'[m] = pr[m]
        BY <3>1 DEF TeamStateTypeOK
      <3>3. ReviewInv'
        <4>1. \A m \in Issues : /\ pr[m] # "none" => pr'[m] # "none"
                                /\ pr'[m] = "merged" => pr[m] = "merged"
          BY <3>2
        <4> QED
          BY <2>2, <4>1 DEF ReviewInv, CeoTypeOK
      <3>4. SoloInv'
        BY <2>2 DEF SoloInv, Resting, TriageIdle, BackendIdle, CeoIdle
      <3>5. \A h \in Beats : bPc'[h] \notin BeforeOpen
        BY <2>2 DEF SoloInv, Resting, BackendIdle
      <3>6. opened'[n] # 0
        BY <3>2 DEF TeamStateTypeOK
      <3>7. n \notin leftover => opened'[n] = 1 /\ n \in branch
        BY <2>1, <3>2 DEF BranchInv
      <3>8. \A m \in Issues \ leftover : m # n => ~(opened[m] = 1 /\ m \in worktree)
        BY <2>1 DEF BranchInv
      <3>9. current # NoBeat
        BY TeamStateAssumption
      <3>10. /\ \A m \in Issues : pr'[m] = "none" <=> opened'[m] = 0
             /\ \A m \in Issues \ leftover :
                  /\ opened'[m] <= 1
                  /\ opened'[m] = 1 => m \in branch
                  /\ opened'[m] = 1 /\ m \in worktree =>
                        current # NoBeat /\ bIssue[current] = m /\ bPc'[current] \in AfterOpen
        BY <2>1, <2>2, <3>2, <3>6, <3>7, <3>8, <3>9 DEF BranchInv
      <3>11. BranchInv'
        BY <2>2, <3>5, <3>10 DEF BranchInv
      <3> QED
        BY <3>3, <3>4, <3>11
    <2>4. CASE ~(GhExecuted(r) /\ pr[n] # "open")
      BY <1>13, <2>1, <2>2, <2>4, OrderlyFrame DEF OpenPr
    <2> QED
      BY <2>3, <2>4
  <1>14. ASSUME NEW outcome \in {"ok", "fetch", "hook", "early", "late"}, Setup(b, outcome)
         PROVE  SoloInv' /\ BranchInv' /\ ReviewInv'
    <2>0. ~Escapes(b)
      OBVIOUS
    <2>1. /\ UNCHANGED <<triageVars, pr, opened, content, ci, current, bIssue, leftover>>
          /\ bPc[b] = "setup" /\ bIssue[b] \in Issues
          /\ bPc'[b] \in {"generate", "blockSetup"}
          /\ \A h \in Beats : h # b => bPc'[h] = bPc[h] /\ bPc'[h] = "idle"
      BY <1>14, <2>0 DEF Setup, SoloInv, Resting, BackendIdle
    <2>2. \A n \in worktree \ leftover : opened[n] = 0
      BY <2>1 DEF BranchInv, TeamStateTypeOK
    <2>3. bIssue[b] \notin branch \cup leftover => opened[bIssue[b]] = 0
      BY <2>1 DEF BranchInv, TeamStateTypeOK
    <2>4. /\ worktree' \subseteq branch' /\ branch \subseteq branch'
          /\ \A n \in worktree' \ leftover : opened[n] = 0
          /\ bPc'[b] = "generate" => bIssue[b] \in worktree'
      BY <1>14, <2>0, <2>1, <2>2, <2>3 DEF Setup, BranchInv
    <2>5. ReviewInv'
      BY <2>1 DEF ReviewInv
    <2>6. SoloInv'
      BY <2>1 DEF SoloInv, Resting, TriageIdle, BackendIdle, CeoIdle
    <2>7. BranchInv'
      BY <2>1, <2>4 DEF BranchInv
    <2> QED
      BY <2>5, <2>6, <2>7
  <1>15. ASSUME NEW grade \in Grades \cup {"none", "raised"}, Push(b, grade)
         PROVE  SoloInv' /\ BranchInv' /\ ReviewInv'
    <2>1. PICK n \in Issues : n = bIssue[b] /\ bPc[b] = "push"
      BY <1>15 DEF Push
    <2>2. n \notin leftover => opened[n] = 0 /\ pr[n] = "none" /\ n \in worktree
      BY <2>1 DEF BranchInv
    <2>3. CASE ~(grade \in Grades /\ n \in worktree)
      BY <1>15, <2>1, <2>3, OrderlyFrame DEF Push
    <2>4. CASE grade \in Grades /\ n \in worktree
      <3>1. /\ UNCHANGED <<triageVars, pr, opened, current, bIssue, worktree, branch, leftover>>
            /\ content' = [content EXCEPT ![n] = grade]
            /\ ci' = [ci EXCEPT ![n] = "none"]
            /\ bPc' = [bPc EXCEPT ![b] = "open"]
        BY <1>15, <2>1, <2>4 DEF Push
      <3>2. \A m \in Issues : m # n => content'[m] = content[m] /\ ci'[m] = ci[m]
        BY <3>1 DEF TeamStateTypeOK
      <3>3. ReviewInv'
        BY <2>2, <3>1, <3>2 DEF ReviewInv, CeoTypeOK
      <3>4. SoloInv'
        BY <3>1 DEF SoloInv, Resting, TriageIdle, BackendIdle, CeoIdle
      <3>5. BranchInv'
        BY <2>1, <2>2, <3>1 DEF BranchInv
      <3> QED
        BY <3>3, <3>4, <3>5
    <2> QED
      BY <2>3, <2>4
  <1>16. ASSUME NEW removed \in BOOLEAN, RemoveWorktree(b, removed)
         PROVE  SoloInv' /\ BranchInv' /\ ReviewInv'
    <2>1. /\ UNCHANGED <<triageVars, pr, opened, content, ci, branch>>
          /\ bPc[b] = "remove" /\ current' = current
          /\ worktree' \subseteq worktree
          /\ leftover \subseteq leftover'
          /\ bIssue[b] \notin worktree' \/ bIssue[b] \in leftover'
          /\ bPc' = [bPc EXCEPT ![b] = "idle"]
          /\ bIssue' = [bIssue EXCEPT ![b] = NoIssue]
      BY <1>16 DEF RemoveWorktree
    <2>2. \A n \in worktree' \ leftover' : n \in Issues => opened[n] # 1
      BY <2>1 DEF BranchInv
    <2>3. ReviewInv'
      BY <2>1 DEF ReviewInv
    <2>4. SoloInv'
      BY <2>1 DEF SoloInv, Resting, TriageIdle, BackendIdle, CeoIdle
    <2>5. \A h \in Beats : bPc'[h] \notin BeforeOpen
      BY <2>1 DEF SoloInv, Resting, BackendIdle
    <2>6. BranchInv'
      BY <2>1, <2>2, <2>5 DEF BranchInv
    <2> QED
      BY <2>3, <2>4, <2>6
  <1> QED
    BY <1>3, <1>4, <1>5, <1>6, <1>7, <1>8, <1>9, <1>10, <1>11, <1>12, <1>13, <1>14, <1>15, <1>16
    DEF Works, BackendStep

LEMMA OrderlyCeo ==
    ASSUME NEW b \in Beats, TypeOK, SoloInv, BranchInv, ReviewInv, CeoStep(b), failed' = {}
    PROVE  SoloInv' /\ BranchInv' /\ ReviewInv'
  <1> USE DEF TypeOK, TeamStateTypeOK, CeoTypeOK, CeoNext, CeoGoto, Escapes, NoIssue
  <1>1. PICK r \in GhReply :
           \/ CeoList(b, r)
           \/ \E p \in cTodo[b] : ReadFiles(b, p, r)
           \/ ReadStatus(b, r)
           \/ ClosePr(b, r)
           \/ \E protected \in BOOLEAN : MergePr(b, r, protected)
           \/ FlagReview(b, r)
           \/ Unflag(b, r)
    BY DEF CeoStep
  <1>2. /\ b = current
        /\ UNCHANGED <<opened, content, ci, current, triageVars, backendVars>>
        /\ \A n \in Issues : pr'[n] = "none" <=> pr[n] = "none"
        /\ \A h \in Beats : h # b => cPc'[h] = cPc[h]
    BY <1>1 DEF SoloInv, BranchInv, Resting, CeoIdle, CeoList, ReadFiles, ReadStatus, ClosePr, MergePr,
                FlagReview, Unflag
  <1>3. SoloInv' /\ BranchInv'
    <2>1. SoloInv'
      BY <1>2 DEF SoloInv, Resting, TriageIdle, BackendIdle, CeoIdle
    <2>2. BranchInv'
      BY <1>2 DEF BranchInv
    <2> QED
      BY <2>1, <2>2
  <1>4. ReviewInv'
    <2> USE <1>2 DEF ReviewInv
    <2>1. CASE CeoList(b, r)
      <3>1. \A p \in cTodo'[b] : p[1] \in Issues /\ pr[p[1]] # "none"
        BY <2>1 DEF CeoList
      <3>2. /\ UNCHANGED <<pr, cPr, cGrade>>
            /\ cPc'[b] \in {"idle", "files"}
            /\ \A h \in Beats : h # b => cTodo'[h] = cTodo[h]
        BY <2>1 DEF CeoList
      <3> QED
        BY <3>1, <3>2
    <2>2. ASSUME NEW p \in cTodo[b], ReadFiles(b, p, r) PROVE ReviewInv'
      <3>1. p[1] \in Issues /\ pr[p[1]] # "none"
        OBVIOUS
      <3>2. /\ UNCHANGED pr
            /\ \A h \in Beats : cTodo'[h] \subseteq cTodo[h]
            /\ \A h \in Beats : h # b => cPr'[h] = cPr[h] /\ cGrade'[h] = cGrade[h]
            /\ \/ cPc'[b] = "status" /\ cPr'[b] = p[1] /\ cGrade'[b] = content[p[1]]
               \/ cPc'[b] \in {"idle", "files"}
        BY <2>2 DEF ReadFiles
      <3> QED
        BY <3>1, <3>2
    <2>3. CASE ReadStatus(b, r)
      BY <2>3 DEF ReadStatus, Verdict
    <2>4. CASE ClosePr(b, r)
      BY <2>4 DEF ClosePr
    <2>5. ASSUME NEW protected \in BOOLEAN, MergePr(b, r, protected) PROVE ReviewInv'
      BY <2>5 DEF MergePr
    <2>6. CASE FlagReview(b, r)
      BY <2>6 DEF FlagReview
    <2>7. CASE Unflag(b, r)
      BY <2>7 DEF Unflag
    <2> QED
      BY <1>1, <2>1, <2>2, <2>3, <2>4, <2>5, <2>6, <2>7
  <1> QED
    BY <1>3, <1>4

LEMMA OrderlyLoop ==
    ASSUME TypeOK, SoloInv, BranchInv, ReviewInv,
           (\E b \in Beats : Tick(b)) \/ TickEnds \/ (\E n \in Issues : Checks(n))
    PROVE  SoloInv' /\ BranchInv' /\ ReviewInv'
  <1> USE TeamStateAssumption DEF TypeOK, TeamStateTypeOK
  <1>1. ASSUME NEW b \in Beats, Tick(b) PROVE SoloInv' /\ BranchInv' /\ ReviewInv'
    <2>1. \A h \in Beats : h # b => Resting(h)'
      BY <1>1 DEF Tick, SoloInv, BranchInv, Resting, TriageIdle, BackendIdle, CeoIdle, BackendTypeOK,
                  CeoTypeOK
    <2>2. ReviewInv'
      BY <1>1 DEF Tick, ReviewInv, CeoTypeOK
    <2>3. SoloInv'
      BY <1>1, <2>1 DEF Tick, SoloInv
    <2>4. BranchInv'
      <3>1. \A h \in Beats : bPc'[h] \in BeforeOpen => bPc[h] \in BeforeOpen
        BY <1>1 DEF Tick, BackendTypeOK, BeforeOpen
      <3> QED
        BY <1>1, <3>1 DEF Tick, BranchInv
    <2> QED
      BY <2>2, <2>3, <2>4
  <1>2. CASE TickEnds
    <2>1. \A h \in Beats : Resting(h) /\ Resting(h)'
      BY <1>2 DEF TickEnds, SoloInv, BranchInv, Resting, TriageIdle, BackendIdle, CeoIdle
    <2>2. ReviewInv'
      BY <1>2 DEF TickEnds, ReviewInv
    <2>3. SoloInv'
      BY <2>1 DEF SoloInv
    <2>4. BranchInv'
      BY <1>2, <2>1 DEF TickEnds, BranchInv, Resting, BackendIdle, AfterOpen
    <2> QED
      BY <2>2, <2>3, <2>4
  <1>3. ASSUME NEW n \in Issues, Checks(n) PROVE SoloInv' /\ BranchInv' /\ ReviewInv'
    <2>1. \A h \in Beats : Resting(h)' = Resting(h)
      BY <1>3 DEF Checks, CheckRuns, Resting, TriageIdle, BackendIdle, CeoIdle
    <2>2. BranchInv'
      BY <1>3 DEF Checks, CheckRuns, BranchInv
    <2>3. ReviewInv'
      BY <1>3 DEF Checks, CheckRuns, ReviewInv, CeoTypeOK, NoIssue
    <2>4. SoloInv'
      BY <1>3, <2>1 DEF Checks, CheckRuns, SoloInv
    <2> QED
      BY <2>2, <2>3, <2>4
  <1> QED
    BY <1>1, <1>2, <1>3

\* No step takes a failed heartbeat back.
LEMMA FailedGrows == [Next]_vars => failed \subseteq failed'
  <1>1. ASSUME NEW b \in Beats, Triages(b) PROVE failed \subseteq failed'
    BY <1>1 DEF Triages, TriageStep, TriageList, TriagePasses, TriageAnswered, TriageWrite
  <1>2. ASSUME NEW b \in Beats, Works(b) PROVE failed \subseteq failed'
    BY <1>2 DEF Works, BackendStep, BackendList, BackendClaim, OpenPr, FlagPr, Unclaim, MarkDone,
                BlockSilent, BlockUnclaim, BlockMark, BlockRaises, Setup, Generate, RunTests, Push,
                RemoveWorktree, Escapes
  <1>3. ASSUME NEW b \in Beats, CeoStep(b) PROVE failed \subseteq failed'
    BY <1>3 DEF CeoStep, CeoList, ReadFiles, ReadStatus, ClosePr, MergePr, FlagReview, Unflag,
                Escapes
  <1> QED
    BY <1>1, <1>2, <1>3 DEF Next, Tick, TickEnds, Checks, CheckRuns, vars

\* Every step keeps OrderlyInv.
LEMMA OrderlyNext == TypeOK /\ OrderlyInv /\ [Next]_vars => OrderlyInv'
  <1> SUFFICES ASSUME TypeOK, OrderlyInv, [Next]_vars, failed' = {} PROVE SoloInv' /\ BranchInv' /\ ReviewInv'
    BY DEF OrderlyInv
  <1>1. SoloInv /\ BranchInv /\ ReviewInv
    BY FailedGrows DEF OrderlyInv
  <1>2. CASE UNCHANGED vars
    BY <1>1, <1>2 DEF vars, SoloInv, BranchInv, ReviewInv, Resting, TriageIdle, BackendIdle, CeoIdle
  <1> QED
    BY <1>1, <1>2, OrderlyTriage, OrderlyBackend, OrderlyCeo, OrderlyLoop DEF Next

\* OrderlyInv is an invariant.
LEMMA Orderly == Spec => []OrderlyInv
  <1>1. Init => OrderlyInv
    BY DEF Init, TeamStateInit, TriageInit, BackendInit, CeoInit, OrderlyInv, SoloInv, BranchInv, ReviewInv,
           Resting, TriageIdle, BackendIdle, CeoIdle, BeforeOpen
  <1> QED
    BY <1>1, OrderlyNext, TeamTypeCorrect, PTL DEF Spec

\* Until a heartbeat fails as a whole an issue gets at most one pull request,
\* for any number of failed calls that the backend agent handles.
THEOREM NeverTwoPrs == Spec => []OnePrPerIssue
  <1>1. OrderlyInv => OnePrPerIssue
    BY DEF OrderlyInv, SoloInv, BranchInv, OnePrPerIssue
  <1> QED
    BY <1>1, Orderly, PTL

\* Until a heartbeat fails as a whole the CEO agent merges only heads that pass
\* charter section 3 with green checks, although merge_pr names no commit.
THEOREM MergesOnlyReviewed == Spec => []MergedIsReviewed
  <1>1. OrderlyInv => MergedIsReviewed
    BY DEF OrderlyInv, ReviewInv, MergedIsReviewed
  <1> QED
    BY <1>1, Orderly, PTL

------------------------------------------------------------------------------
(***************************************************************************)
(* Before any call and any heartbeat fails.                                *)
(***************************************************************************)

\* A call that leaves no error behind was answered.
LEMMA Answer ==
    ASSUME TypeOK, NEW r \in GhReply, GhCall(r), ghErrors' = 0 PROVE r = "ok" /\ ghErrors = 0
  BY TeamStateAssumption DEF TypeOK, TeamStateTypeOK, GhCall

\* The labels of the backend agent do not make or unmake a triage.
LEMMA TriagedStable ==
    ASSUME NEW s
    PROVE  /\ \A t : Triaged(s) => Triaged(s \cup t)
           /\ Triaged(s) => Triaged(s \ {"in-progress-by-backend"})
  BY DEF Triaged, Area, Kind

\* Only the heartbeat that loop awaits does anything.
LEMMA OnlyCurrent ==
    ASSUME SoloInv, NEW b \in Beats, ~Resting(b)
    PROVE  /\ b = current
           /\ \A h \in Beats : h # b =>
                h \notin tListing /\ tTodo[h] = {} /\ tIssue[h] = NoIssue /\ bPc[h] = "idle"
  BY DEF SoloInv, Resting, TriageIdle, BackendIdle

\* The number that stands for no issue is not an issue.
LEMMA NoIssueIsNone == NoIssue \notin Issues
  BY TeamStateAssumption DEF NoIssue

\* No step of the triage agent makes a picked issue a candidate again, unless
\* the issue was made ready too early.
LEMMA OnceTriage ==
    ASSUME NEW b \in Beats, TypeOK, SoloInv, FreshInv, PickInv, Triages(b), ghErrors' = 0
    PROVE  FreshInv' /\ PickInv'
  <1>1. UNCHANGED backendVars
    BY DEF Triages
  <1>2. ~Resting(b)
    BY DEF Triages, TriageStep, TriageList, TriagePasses, TriageAnswered, TriageWrite,
           Resting, TriageIdle
  <1>3. \A h \in Beats : h # b => h \notin tListing /\ tTodo[h] = {} /\ tIssue[h] = NoIssue
    BY <1>2, OnlyCurrent
  <1>4. ASSUME labels' = labels, hasty \subseteq hasty' PROVE PickInv'
    BY <1>1, <1>4 DEF PickInv
  <1> USE DEF TypeOK, TriageTypeOK, TeamStateTypeOK
  <1>5. ASSUME NEW r \in GhReply, TriageList(b, r) PROVE FreshInv' /\ PickInv'
    <2>1. r = "ok"
      BY <1>5, Answer DEF TriageList
    <2>2. /\ UNCHANGED <<labels, tIssue, tNew, hasty>> /\ b \in tListing
          /\ tListing' = tListing \ {b}
          /\ tTodo' = [tTodo EXCEPT ![b] = {<<n, labels[n]>> : n \in issueOpen}]
      BY <1>5, <2>1 DEF TriageList
    <2>3. tIssue[b] = NoIssue
      BY <2>2 DEF FreshInv
    <2>4. \A i \in tTodo'[b] : i = <<i[1], labels[i[1]]>> /\ labels[i[1]] = i[2] /\ i[1] \in Issues
      BY <2>2
    <2>5. \A h \in Beats : h # b => tTodo'[h] = tTodo[h]
      BY <2>2
    <2>6. \A i, k \in tTodo'[b] : tIssue[b] # i[1] /\ (i[1] = k[1] => i = k)
      BY <2>3, <2>4, NoIssueIsNone
    <2>7. FreshInv'
      BY <2>2, <2>3, <2>4, <2>5, <2>6 DEF FreshInv
    <2> QED
      BY <1>4, <2>2, <2>7
  <1>6. ASSUME NEW i \in tTodo[b], TriagePasses(b, i) PROVE FreshInv' /\ PickInv'
    <2>1. /\ UNCHANGED <<labels, tListing, tIssue, tNew, hasty>>
          /\ \A h \in Beats : tTodo'[h] \subseteq tTodo[h]
      BY <1>6 DEF TriagePasses
    <2>2. FreshInv'
      BY <2>1 DEF FreshInv
    <2> QED
      BY <1>4, <2>1, <2>2
  <1>7. ASSUME NEW i \in tTodo[b], NEW a \in Answers, TriageAnswered(b, i, a)
        PROVE  FreshInv' /\ PickInv'
    <2>1. /\ UNCHANGED <<labels, tListing>> /\ ~Triaged(i[2])
          /\ tTodo' = [tTodo EXCEPT ![b] = @ \ {i}]
          /\ tIssue' = [tIssue EXCEPT ![b] = i[1]]
          /\ tNew' = [tNew EXCEPT ![b] = NewLabels(i[2], a)]
      BY <1>7 DEF TriageAnswered
    <2>2. /\ hasty \subseteq hasty'
          /\ i[1] \notin hasty' => ~Hasty(NewLabels(i[2], a))
      BY <1>7 DEF TriageAnswered
    <2>3. i[1] \in Issues /\ (i[1] \notin hasty' => labels[i[1]] = i[2])
      BY <2>1, <2>2 DEF FreshInv
    <2>4. tIssue'[b] = i[1] /\ tNew'[b] = NewLabels(i[2], a)
      BY <2>1
    <2>5. \A j \in tTodo'[b] : j \in tTodo[b] /\ j[1] # i[1]
      BY <2>1 DEF FreshInv
    <2>6. \A h \in Beats : h # b => tTodo'[h] = {} /\ tIssue'[h] = NoIssue
      BY <1>3, <2>1
    <2>7. b \notin tListing
      BY <1>7 DEF FreshInv
    <2>8. FreshInv'
      <3>1. \A n \in Issues \ hasty' : ~Hasty(labels'[n])
        BY <2>1, <2>2 DEF FreshInv
      <3>2. ASSUME NEW h \in Beats
            PROVE  /\ h \in tListing' => tIssue'[h] = NoIssue /\ tTodo'[h] = {}
                   /\ \A j \in tTodo'[h] : /\ tIssue'[h] # j[1]
                                           /\ \A k \in tTodo'[h] : j[1] = k[1] => j = k
                   /\ \A j \in tTodo'[h] :
                        j[1] \notin hasty' /\ ~Triaged(j[2]) => labels'[j[1]] = j[2]
                   /\ tIssue'[h] \in Issues \ hasty' =>
                        ~Triaged(labels'[tIssue'[h]]) /\ ~Hasty(tNew'[h])
        <4>1. CASE h = b
          <5>1. \A j, k \in tTodo'[b] : tIssue'[b] # j[1] /\ (j[1] = k[1] => j = k)
            BY <2>4, <2>5 DEF FreshInv
          <5>2. \A j \in tTodo'[b] : j[1] \notin hasty' /\ ~Triaged(j[2]) => labels'[j[1]] = j[2]
            BY <2>1, <2>2, <2>5 DEF FreshInv
          <5>3. tIssue'[b] \notin hasty' => ~Triaged(labels'[tIssue'[b]]) /\ ~Hasty(tNew'[b])
            BY <2>1, <2>2, <2>3, <2>4
          <5> QED
            BY <2>1, <2>7, <4>1, <5>1, <5>2, <5>3
        <4>2. CASE h # b
          BY <2>6, <4>2, NoIssueIsNone
        <4> QED
          BY <4>1, <4>2
      <3> QED
        BY <3>1, <3>2 DEF FreshInv
    <2> QED
      BY <1>4, <2>1, <2>2, <2>8
  <1>8. ASSUME NEW r \in GhReply, TriageWrite(b, r) PROVE FreshInv' /\ PickInv'
    <2>1. r = "ok"
      BY <1>8, Answer DEF TriageWrite
    <2>2. PICK n \in Issues, t \in SUBSET Label : n = tIssue[b] /\ t = tNew[b]
      BY <1>8 DEF TriageWrite
    <2>3. /\ labels' = [labels EXCEPT ![n] = t] /\ UNCHANGED <<tListing, tTodo, hasty>>
          /\ tIssue' = [tIssue EXCEPT ![b] = NoIssue]
      BY <1>8, <2>1, <2>2 DEF TriageWrite, GhExecuted, SetIssueLabels
    <2>4. n \notin hasty => ~Triaged(labels[n]) /\ ~Hasty(t)
      BY <2>2 DEF FreshInv
    <2>5. \A h \in Beats : tIssue'[h] = NoIssue
      BY <1>3, <2>3
    <2>6. \A m \in Issues : labels'[m] = IF m = n THEN t ELSE labels[m]
      BY <2>3
    <2>7. ASSUME NEW h \in Beats, NEW i \in tTodo[h]
          PROVE  /\ i[1] # NoIssue
                 /\ i[1] \notin hasty /\ ~Triaged(i[2]) => labels'[i[1]] = i[2]
      <3>1. h = b
        BY <1>3, <2>7
      <3>2. i[1] # n /\ i[1] \in Issues
        BY <2>2, <2>7, <3>1 DEF FreshInv
      <3>3. i[1] \notin hasty /\ ~Triaged(i[2]) => labels[i[1]] = i[2]
        BY <2>7 DEF FreshInv
      <3> QED
        BY <2>6, <3>2, <3>3, NoIssueIsNone
    <2>8. FreshInv'
      <3>1. \A m \in Issues \ hasty : ~Hasty(labels'[m])
        BY <2>4, <2>6 DEF FreshInv
      <3>2. \A h \in Beats : h \in tListing => tTodo[h] = {}
        BY DEF FreshInv
      <3>3. \A h \in Beats : \A i, k \in tTodo[h] : i[1] = k[1] => i = k
        BY DEF FreshInv
      <3> QED
        BY <2>3, <2>5, <2>7, <3>1, <3>2, <3>3, NoIssueIsNone DEF FreshInv
    <2>9. n \notin hasty => picks[n] # 1
      BY <2>4 DEF PickInv
    <2>10. PickInv'
      BY <1>1, <2>3, <2>6, <2>9 DEF PickInv
    <2> QED
      BY <2>8, <2>10
  <1> QED
    BY <1>5, <1>6, <1>7, <1>8 DEF Triages, TriageStep

\* What a label call of the backend agent does to the labels of its issue.
LEMMA FreshStable ==
    ASSUME TypeOK, FreshInv, NEW n \in Issues, NEW s,
           n \notin hasty => Triaged(labels[n]) /\ Triaged(s),
           labels' = [labels EXCEPT ![n] = s], UNCHANGED triageVars
    PROVE  FreshInv'
  <1> USE DEF TypeOK, TriageTypeOK, TeamStateTypeOK
  <1>1. \A m \in Issues : labels'[m] = IF m = n THEN s ELSE labels[m]
    OBVIOUS
  <1>2. \A m \in Issues \ hasty : ~Hasty(labels'[m])
    BY <1>1 DEF FreshInv, Hasty
  <1>3. ASSUME NEW b \in Beats, NEW i \in tTodo[b], i[1] \notin hasty, ~Triaged(i[2])
        PROVE  labels'[i[1]] = i[2]
    <2>1. i[1] \in Issues /\ labels[i[1]] = i[2]
      BY <1>3 DEF FreshInv
    <2>2. i[1] # n
      BY <1>3, <2>1
    <2> QED
      BY <1>1, <2>1, <2>2
  <1>4. ASSUME NEW b \in Beats, tIssue[b] \in Issues \ hasty
        PROVE  ~Triaged(labels'[tIssue[b]]) /\ ~Hasty(tNew[b])
    <2>1. ~Triaged(labels[tIssue[b]]) /\ ~Hasty(tNew[b])
      BY <1>4 DEF FreshInv
    <2>2. tIssue[b] # n
      BY <1>4, <2>1
    <2> QED
      BY <1>1, <1>4, <2>1, <2>2
  <1> QED
    BY <1>2, <1>3, <1>4 DEF FreshInv

\* A step of the heartbeat at work on issue n, which keeps the issue triaged and
\* either labelled as taken or between two label calls.
LEMMA PickStable ==
    ASSUME TypeOK, PickInv, NEW b \in Beats, NEW n \in Issues, NEW s,
           bIssue[b] = n, labels' = [labels EXCEPT ![n] = s], UNCHANGED <<picks, hasty>>,
           \A h \in Beats : h # b => bIssue'[h] = bIssue[h] /\ bPc'[h] = bPc[h],
           bIssue'[b] \in {n, NoIssue},
           n \notin hasty =>
               Triaged(s) /\ (s \cap Taken # {} \/ (bIssue'[b] = n /\ bPc'[b] \in BetweenLabels))
    PROVE  PickInv'
  <1> USE DEF TypeOK, TeamStateTypeOK
  <1>1. \A m \in Issues : labels'[m] = IF m = n THEN s ELSE labels[m]
    OBVIOUS
  <1>2. ASSUME NEW m \in Issues \ hasty, picks[m] = 1
        PROVE  /\ Triaged(labels'[m])
               /\ \/ labels'[m] \cap Taken # {}
                  \/ \E h \in Beats : bIssue'[h] = m /\ bPc'[h] \in BetweenLabels
    <2>1. CASE m = n
      BY <1>1, <2>1
    <2>2. CASE m # n
      <3>1. labels'[m] = labels[m] /\ Triaged(labels[m])
        BY <1>1, <1>2, <2>2 DEF PickInv
      <3>2. CASE labels[m] \cap Taken # {}
        BY <3>1, <3>2
      <3>3. ASSUME NEW h \in Beats, bIssue[h] = m, bPc[h] \in BetweenLabels
            PROVE  bIssue'[h] = m /\ bPc'[h] \in BetweenLabels
        BY <2>2, <3>3
      <3> QED
        BY <1>2, <3>1, <3>2, <3>3 DEF PickInv
    <2> QED
      BY <2>1, <2>2
  <1>3. ASSUME NEW h \in Beats, bIssue'[h] \in Issues \ hasty PROVE picks[bIssue'[h]] = 1
    BY <1>3, NoIssueIsNone DEF PickInv
  <1>4. \A m \in Issues \ hasty : picks[m] <= 1
    BY DEF PickInv
  <1> QED
    BY <1>2, <1>3, <1>4 DEF PickInv

\* The issue a heartbeat is at work on is triaged, and labelled as taken save in
\* between two label calls.
LEMMA AtWork ==
    ASSUME NEW b \in Beats, TypeOK, SoloInv, PickInv, bPc[b] \notin {"idle", "list"}
    PROVE  /\ bIssue[b] \in Issues
           /\ bIssue[b] \notin hasty =>
                /\ Triaged(labels[bIssue[b]])
                /\ bPc[b] \in BetweenLabels \/ labels[bIssue[b]] \cap Taken # {}
  <1>1. bIssue[b] \in Issues
    BY DEF TypeOK, BackendTypeOK
  <1>2. \A h \in Beats : h # b => bPc[h] = "idle"
    BY OnlyCurrent DEF Resting, BackendIdle
  <1>3. ASSUME bIssue[b] \notin hasty
        PROVE  /\ Triaged(labels[bIssue[b]])
               /\ bPc[b] \in BetweenLabels \/ labels[bIssue[b]] \cap Taken # {}
    <2>1. picks[bIssue[b]] = 1
      BY <1>1, <1>3 DEF PickInv
    <2>2. /\ Triaged(labels[bIssue[b]])
          /\ \/ labels[bIssue[b]] \cap Taken # {}
             \/ \E h \in Beats : bIssue[h] = bIssue[b] /\ bPc[h] \in BetweenLabels
      BY <1>1, <1>3, <2>1 DEF PickInv
    <2> QED
      BY <1>2, <2>2 DEF BetweenLabels
  <1> QED
    BY <1>1, <1>3

\* The pick: a candidate has not been picked before.
LEMMA OncePick ==
    ASSUME NEW b \in Beats, TypeOK, SoloInv, FreshInv, PickInv, bPc[b] = "list",
           NEW n \in Issues, Candidate(n), UNCHANGED <<labels, triageVars>>,
           bPc' = [bPc EXCEPT ![b] = "claim"], bIssue' = [bIssue EXCEPT ![b] = n],
           picks' = [picks EXCEPT ![n] = IF @ < 2 THEN @ + 1 ELSE @]
    PROVE  FreshInv' /\ PickInv'
  <1> USE DEF TypeOK, BackendTypeOK
  <1>1. \A h \in Beats : bIssue[h] = NoIssue
    <2>1. \A h \in Beats : h # b => bPc[h] = "idle"
      BY OnlyCurrent DEF Resting, BackendIdle
    <2> QED
      BY <2>1
  <1>2. labels[n] \cap Taken = {} /\ (n \notin hasty => Triaged(labels[n]))
    BY DEF Candidate, Taken, FreshInv, Hasty
  <1>3. n \notin hasty => picks[n] = 0
    <2>1. n \notin hasty => picks[n] # 1
      BY <1>1, <1>2, NoIssueIsNone DEF PickInv
    <2>2. picks[n] \in 0..2 /\ (n \notin hasty => picks[n] <= 1)
      BY DEF PickInv
    <2> QED
      BY <2>1, <2>2
  <1>4. /\ n \notin hasty => picks'[n] = 1
        /\ \A m \in Issues : m # n => picks'[m] = picks[m]
    BY <1>3
  <1>5. bIssue'[b] = n /\ bPc'[b] = "claim" /\ \A h \in Beats : h # b => bIssue'[h] = NoIssue
    BY <1>1
  <1>6. ASSUME NEW m \in Issues \ hasty, picks'[m] = 1
        PROVE  /\ Triaged(labels'[m])
               /\ \/ labels'[m] \cap Taken # {}
                  \/ \E h \in Beats : bIssue'[h] = m /\ bPc'[h] \in BetweenLabels
    <2>1. CASE m = n
      BY <1>2, <1>5, <2>1 DEF BetweenLabels
    <2>2. CASE m # n
      BY <1>1, <1>4, <1>6, <2>2, NoIssueIsNone DEF PickInv
    <2> QED
      BY <2>1, <2>2
  <1>7. PickInv'
    <2>1. \A m \in Issues \ hasty : picks'[m] <= 1
      BY <1>4 DEF PickInv
    <2>2. \A h \in Beats : bIssue'[h] \in Issues \ hasty => picks'[bIssue'[h]] = 1
      BY <1>4, <1>5, NoIssueIsNone
    <2> QED
      BY <1>6, <2>1, <2>2 DEF PickInv
  <1>8. FreshInv'
    BY DEF FreshInv
  <1> QED
    BY <1>7, <1>8

\* Nor does a step of the backend agent.
LEMMA OnceBackend ==
    ASSUME NEW b \in Beats, TypeOK, SoloInv, FreshInv, PickInv, Works(b), ghErrors' = 0, failed' = {}
    PROVE  FreshInv' /\ PickInv'
  <1> USE DEF TypeOK, BackendTypeOK, Goto, BackendEnds
  <1>1. ASSUME NEW r \in GhReply, BackendList(b, r) PROVE FreshInv' /\ PickInv'
    <2>1. r = "ok" /\ bPc[b] = "list" /\ UNCHANGED <<labels, triageVars>>
      BY <1>1, Answer DEF BackendList
    <2>2. CASE \E n \in Issues : Candidate(n)
      <3>1. PICK n \in Issues : /\ Candidate(n)
                                /\ bPc' = [bPc EXCEPT ![b] = "claim"]
                                /\ bIssue' = [bIssue EXCEPT ![b] = n]
                                /\ picks' = [picks EXCEPT ![n] = IF @ < 2 THEN @ + 1 ELSE @]
        BY <1>1, <2>1, <2>2 DEF BackendList
      <3> QED
        BY <2>1, <3>1, OncePick
    <2>3. CASE ~\E n \in Issues : Candidate(n)
      <3>1. /\ bPc' = [bPc EXCEPT ![b] = "idle"] /\ bIssue' = [bIssue EXCEPT ![b] = NoIssue]
            /\ UNCHANGED picks
        BY <1>1, <2>1, <2>3 DEF BackendList
      <3>2. bIssue' = bIssue
        BY <2>1, <3>1
      <3>3. FreshInv'
        BY <2>1 DEF FreshInv
      <3>4. PickInv'
        BY <2>1, <3>1, <3>2, NoIssueIsNone DEF PickInv, BetweenLabels
      <3> QED
        BY <3>3, <3>4
    <2> QED
      BY <2>2, <2>3
  \* The other steps are on the issue of the heartbeat.
  <1>2. ASSUME NEW s, bPc[b] \notin {"idle", "list"}, UNCHANGED <<picks, triageVars>>,
               labels' = [labels EXCEPT ![bIssue[b]] = s],
               NEW pc \in BackendPcs, bPc' = [bPc EXCEPT ![b] = pc],
               bIssue' = bIssue \/ bIssue' = [bIssue EXCEPT ![b] = NoIssue],
               bIssue[b] \notin hasty =>
                   Triaged(s) /\ (s \cap Taken # {} \/ (bIssue' = bIssue /\ pc \in BetweenLabels))
        PROVE  FreshInv' /\ PickInv'
    <2>1. PICK n \in Issues : n = bIssue[b] /\ (n \notin hasty => Triaged(labels[n]))
      BY <1>2, AtWork
    <2>2. FreshInv'
      BY <1>2, <2>1, FreshStable
    <2>3. /\ \A h \in Beats : h # b => bIssue'[h] = bIssue[h] /\ bPc'[h] = bPc[h]
          /\ bPc'[b] = pc /\ bIssue'[b] \in {n, NoIssue}
          /\ bIssue' = bIssue => bIssue'[b] = n
      BY <1>2, <2>1
    <2>4. PickInv'
      BY <1>2, <2>1, <2>3, PickStable
    <2> QED
      BY <2>2, <2>4
  \* A step that changes no label, outside of the label calls.
  <1>3. ASSUME bPc[b] \notin {"idle", "list"}, bPc[b] \notin BetweenLabels,
               UNCHANGED <<picks, triageVars, labels>>,
               NEW pc \in BackendPcs, bPc' = [bPc EXCEPT ![b] = pc],
               bIssue' = bIssue \/ bIssue' = [bIssue EXCEPT ![b] = NoIssue]
        PROVE  FreshInv' /\ PickInv'
    <2>1. PICK s : s = labels[bIssue[b]]
      OBVIOUS
    <2>2. bIssue[b] \notin hasty => Triaged(s) /\ s \cap Taken # {}
      BY <1>3, <2>1, AtWork
    <2>3. labels' = [labels EXCEPT ![bIssue[b]] = s]
      BY <1>3, <2>1 DEF TeamStateTypeOK
    <2> QED
      BY <1>2, <1>3, <2>2, <2>3
  <1> USE DEF BackendPcs, BetweenLabels
  <1> HIDE DEF TypeOK, BackendTypeOK
  <1>4. ASSUME NEW r \in GhReply, BackendClaim(b, r) PROVE FreshInv' /\ PickInv'
    <2>1. PICK s : s = labels[bIssue[b]] \cup {"in-progress-by-backend"}
      OBVIOUS
    <2>2. r = "ok" /\ bPc[b] = "claim"
      BY <1>4, Answer DEF BackendClaim
    <2>3. /\ labels' = [labels EXCEPT ![bIssue[b]] = s] /\ bPc' = [bPc EXCEPT ![b] = "setup"]
          /\ UNCHANGED <<picks, triageVars, bIssue>>
      BY <1>4, <2>1, <2>2, AtWork DEF BackendClaim, GhExecuted, AddLabels
    <2>4. bIssue[b] \notin hasty => Triaged(s) /\ s \cap Taken # {}
      BY <2>1, <2>2, AtWork, TriagedStable DEF Taken
    <2> QED
      BY <1>2, <2>2, <2>3, <2>4
  <1>5. ASSUME NEW r \in GhReply, OpenPr(b, r) PROVE FreshInv' /\ PickInv'
    <2>1. bPc[b] = "open" /\ UNCHANGED <<picks, triageVars, labels, bIssue>>
      BY <1>5 DEF OpenPr
    <2>2. PICK pc \in {"blockAgain", "flag", "unclaim"} : bPc' = [bPc EXCEPT ![b] = pc]
      BY <1>5 DEF OpenPr
    <2> QED
      BY <1>3, <2>1, <2>2
  <1>6. ASSUME NEW r \in GhReply, FlagPr(b, r) PROVE FreshInv' /\ PickInv'
    <2>1. bPc[b] = "flag" /\ UNCHANGED <<picks, triageVars, labels, bIssue>>
      BY <1>6 DEF FlagPr
    <2>2. PICK pc \in {"blockAgain", "unclaim"} : bPc' = [bPc EXCEPT ![b] = pc]
      BY <1>6 DEF FlagPr
    <2> QED
      BY <1>3, <2>1, <2>2
  <1>7. ASSUME NEW r \in GhReply, Unclaim(b, r) PROVE FreshInv' /\ PickInv'
    <2>1. PICK s : s = labels[bIssue[b]] \ {"in-progress-by-backend"}
      OBVIOUS
    <2>2. r = "ok" /\ bPc[b] = "unclaim"
      BY <1>7, Answer DEF Unclaim
    <2>3. /\ labels' = [labels EXCEPT ![bIssue[b]] = s] /\ bPc' = [bPc EXCEPT ![b] = "done"]
          /\ UNCHANGED <<picks, triageVars, bIssue>>
      BY <1>7, <2>1, <2>2 DEF Unclaim, GhExecuted, RemoveLabel
    <2>4. bIssue[b] \notin hasty => Triaged(s)
      BY <2>1, <2>2, AtWork, TriagedStable
    <2> QED
      BY <1>2, <2>2, <2>3, <2>4
  <1>8. ASSUME NEW r \in GhReply, MarkDone(b, r) PROVE FreshInv' /\ PickInv'
    <2>1. PICK s : s = labels[bIssue[b]] \cup {"worked-by-backend"}
      OBVIOUS
    <2>2. r = "ok" /\ bPc[b] = "done"
      BY <1>8, Answer DEF MarkDone
    <2>3. /\ labels' = [labels EXCEPT ![bIssue[b]] = s] /\ bPc' = [bPc EXCEPT ![b] = "remove"]
          /\ UNCHANGED <<picks, triageVars, bIssue>>
      BY <1>8, <2>1, <2>2 DEF MarkDone, GhExecuted, AddLabels
    <2>4. bIssue[b] \notin hasty => Triaged(s) /\ s \cap Taken # {}
      BY <2>1, <2>2, AtWork, TriagedStable DEF Taken
    <2> QED
      BY <1>2, <2>2, <2>3, <2>4
  <1>9. ASSUME NEW r \in GhReply, BlockSilent(b, r) PROVE FALSE
    BY <1>9, Answer DEF BlockSilent
  <1>10. ASSUME NEW r \in GhReply, BlockUnclaim(b, r) PROVE FreshInv' /\ PickInv'
    <2>1. PICK s : s = labels[bIssue[b]] \ {"in-progress-by-backend"}
      OBVIOUS
    <2>2. r = "ok" /\ bPc[b] \in {"block", "blockAgain", "blockSetup"}
      BY <1>10, Answer DEF BlockUnclaim
    <2>3. /\ labels' = [labels EXCEPT ![bIssue[b]] = s] /\ UNCHANGED <<picks, triageVars, bIssue>>
      BY <1>10, <2>1, <2>2 DEF BlockUnclaim, GhExecuted, NotCaught, RemoveLabel
    <2>4. PICK pc \in {"markBlocked", "markBlockedAgain", "markBlockedSetup"} :
             bPc' = [bPc EXCEPT ![b] = pc]
      BY <1>10, <2>2 DEF BlockUnclaim, NotCaught
    <2>5. bIssue[b] \notin hasty => Triaged(s)
      BY <2>1, <2>2, AtWork, TriagedStable
    <2> QED
      BY <1>2, <2>2, <2>3, <2>4, <2>5
  <1>11. ASSUME NEW r \in GhReply, BlockMark(b, r) PROVE FreshInv' /\ PickInv'
    <2>1. PICK s : s = labels[bIssue[b]] \cup {"blocked-by-backend"}
      OBVIOUS
    <2>2. r = "ok" /\ bPc[b] \in {"markBlocked", "markBlockedAgain", "markBlockedSetup"}
      BY <1>11, Answer DEF BlockMark
    <2>3. /\ labels' = [labels EXCEPT ![bIssue[b]] = s] /\ UNCHANGED <<picks, triageVars>>
      BY <1>11, <2>1, <2>2 DEF BlockMark, GhExecuted, NotCaught, AddLabels
    <2>4. \/ bPc' = [bPc EXCEPT ![b] = "idle"] /\ bIssue' = [bIssue EXCEPT ![b] = NoIssue]
          \/ bPc' = [bPc EXCEPT ![b] = "remove"] /\ bIssue' = bIssue
      BY <1>11, <2>2 DEF BlockMark, NotCaught
    <2>5. bIssue[b] \notin hasty => Triaged(s) /\ s \cap Taken # {}
      BY <2>1, <2>2, AtWork, TriagedStable DEF Taken
    <2> QED
      BY <1>2, <2>2, <2>3, <2>4, <2>5
  <1>12. ASSUME NEW outcome \in {"ok", "fetch", "hook", "early", "late"}, Setup(b, outcome)
         PROVE  FreshInv' /\ PickInv'
    <2>1. ~Escapes(b)
      BY DEF Escapes
    <2>2. bPc[b] = "setup" /\ UNCHANGED <<picks, triageVars, labels, bIssue>>
      BY <1>12, <2>1 DEF Setup
    <2>3. PICK pc \in {"generate", "blockSetup"} : bPc' = [bPc EXCEPT ![b] = pc]
      BY <1>12, <2>1 DEF Setup
    <2> QED
      BY <1>3, <2>2, <2>3
  <1>13. ASSUME NEW outcome \in {"usable", "unusable", "raised"}, Generate(b, outcome)
         PROVE  FreshInv' /\ PickInv'
    <2>1. bPc[b] = "generate" /\ UNCHANGED <<picks, triageVars, labels, bIssue>>
      BY <1>13 DEF Generate
    <2>2. PICK pc \in {"test", "block", "blockAgain"} : bPc' = [bPc EXCEPT ![b] = pc]
      BY <1>13 DEF Generate
    <2> QED
      BY <1>3, <2>1, <2>2
  <1>14. ASSUME NEW result \in {"green", "red", "raised"}, RunTests(b, result)
         PROVE  FreshInv' /\ PickInv'
    <2>1. bPc[b] = "test" /\ UNCHANGED <<picks, triageVars, labels, bIssue>>
      BY <1>14 DEF RunTests
    <2>2. PICK pc \in {"push", "blockAgain"} : bPc' = [bPc EXCEPT ![b] = pc]
      BY <1>14 DEF RunTests
    <2> QED
      BY <1>3, <2>1, <2>2
  <1>15. ASSUME NEW grade \in Grades \cup {"none", "raised"}, Push(b, grade)
         PROVE  FreshInv' /\ PickInv'
    <2>1. bPc[b] = "push" /\ UNCHANGED <<picks, triageVars, labels, bIssue>>
      BY <1>15 DEF Push
    <2>2. PICK pc \in {"open", "block", "blockAgain"} : bPc' = [bPc EXCEPT ![b] = pc]
      BY <1>15 DEF Push
    <2> QED
      BY <1>3, <2>1, <2>2
  <1>16. ASSUME NEW removed \in BOOLEAN, RemoveWorktree(b, removed) PROVE FreshInv' /\ PickInv'
    <2>1. /\ bPc[b] \in {"remove", "removeEscape"} /\ UNCHANGED <<picks, triageVars, labels>>
          /\ bPc' = [bPc EXCEPT ![b] = "idle"] /\ bIssue' = [bIssue EXCEPT ![b] = NoIssue]
      BY <1>16 DEF RemoveWorktree
    <2> QED
      BY <1>3, <2>1
  <1> HIDE DEF Goto, BackendEnds, BackendPcs
  <1> QED
    BY <1>1, <1>4, <1>5, <1>6, <1>7, <1>8, <1>9, <1>10, <1>11, <1>12, <1>13, <1>14, <1>15, <1>16
    DEF Works, BackendStep

\* The CEO agent leaves alone what this is about.
LEMMA OnceCeo ==
    ASSUME NEW b \in Beats, FreshInv, PickInv, CeoStep(b) PROVE FreshInv' /\ PickInv'
  <1>1. UNCHANGED <<labels, triageVars, backendVars>>
    BY DEF CeoStep, CeoList, ReadFiles, ReadStatus, ClosePr, MergePr, FlagReview, Unflag
  <1> QED
    BY <1>1 DEF FreshInv, PickInv

\* A heartbeat starts with nothing to write, and with no issue.
LEMMA OnceLoop ==
    ASSUME TypeOK, FreshInv, PickInv,
           (\E b \in Beats : Tick(b)) \/ TickEnds \/ (\E n \in Issues : Checks(n))
    PROVE  FreshInv' /\ PickInv'
  <1>1. ASSUME NEW b \in Beats, Tick(b) PROVE FreshInv' /\ PickInv'
    <2>1. /\ UNCHANGED <<labels, tTodo, tIssue, tNew, hasty, bIssue, picks>>
          /\ tListing' = tListing \cup {b} /\ tTodo[b] = {} /\ tIssue[b] = NoIssue
          /\ bPc[b] = "idle" /\ bPc' = [bPc EXCEPT ![b] = "list"]
      BY <1>1 DEF Tick, Resting, TriageIdle, BackendIdle
    <2>2. \A h \in Beats : bPc'[h] = IF h = b THEN "list" ELSE bPc[h]
      BY <2>1 DEF TypeOK, BackendTypeOK
    <2>3. FreshInv'
      BY <2>1 DEF FreshInv
    <2>4. \A h \in Beats : bPc[h] \in BetweenLabels => bPc'[h] \in BetweenLabels
      BY <2>1, <2>2 DEF BetweenLabels
    <2>5. PickInv'
      BY <2>1, <2>4 DEF PickInv
    <2> QED
      BY <2>3, <2>5
  <1>2. CASE TickEnds \/ \E n \in Issues : Checks(n)
    BY <1>2 DEF TickEnds, Checks, CheckRuns, FreshInv, PickInv
  <1> QED
    BY <1>1, <1>2

\* No step takes a failed call back.
LEMMA ErrorsStay == TypeOK /\ [Next]_vars /\ ghErrors' = 0 => ghErrors = 0
  <1> SUFFICES ASSUME TypeOK, [Next]_vars, ghErrors' = 0 PROVE ghErrors = 0
    OBVIOUS
  <1>1. ASSUME NEW r \in GhReply, GhCall(r) PROVE ghErrors = 0
    BY <1>1, Answer
  <1>2. ASSUME NEW b \in Beats, Triages(b) PROVE ghErrors = 0
    BY <1>1, <1>2 DEF Triages, TriageStep, TriageList, TriagePasses, TriageAnswered, TriageWrite
  <1>3. ASSUME NEW b \in Beats, Works(b) PROVE ghErrors = 0
    BY <1>1, <1>3 DEF Works, BackendStep, BackendList, BackendClaim, OpenPr, FlagPr, Unclaim, MarkDone,
                BlockSilent, BlockUnclaim, BlockMark, Setup, Generate, RunTests, Push, RemoveWorktree
  <1>4. ASSUME NEW b \in Beats, CeoStep(b) PROVE ghErrors = 0
    BY <1>1, <1>4 DEF CeoStep, CeoList, ReadFiles, ReadStatus, ClosePr, MergePr, FlagReview, Unflag
  <1> QED
    BY <1>2, <1>3, <1>4 DEF Next, Tick, TickEnds, Checks, CheckRuns, vars

\* Every step keeps OnceInv.
LEMMA OnceNext == TypeOK /\ OrderlyInv /\ OnceInv /\ [Next]_vars => OnceInv'
  <1> SUFFICES ASSUME TypeOK, OrderlyInv, OnceInv, [Next]_vars, ghErrors' = 0, failed' = {}
               PROVE  FreshInv' /\ PickInv'
    BY DEF OnceInv
  <1>1. failed = {}
    BY FailedGrows
  <1>2. FreshInv /\ PickInv /\ SoloInv
    BY <1>1, ErrorsStay DEF OnceInv, OrderlyInv
  <1>3. CASE UNCHANGED vars
    BY <1>2, <1>3 DEF vars, FreshInv, PickInv
  <1> QED
    BY <1>2, <1>3, OnceTriage, OnceBackend, OnceCeo, OnceLoop DEF Next

\* As long as no call and no heartbeat has failed, an issue is picked at most
\* once, however the heartbeats and the label calls of the triage and backend
\* agents interleave and whatever the LLM answers, valid or not, save an issue
\* that an answer made ready without an area or a kind.
THEOREM PickedOnlyOnce == Spec => []PickedOnce
  <1>1. Init => OnceInv
    BY NoIssueIsNone DEF Init, TeamStateInit, TriageInit, BackendInit, OnceInv, FreshInv, PickInv,
                         Triaged, Hasty
  <1>2. OnceInv => PickedOnce
    BY DEF OnceInv, PickInv, PickedOnce
  <1> QED
    BY <1>1, <1>2, OnceNext, Orderly, TeamTypeCorrect, PTL DEF Spec

==============================================================================
