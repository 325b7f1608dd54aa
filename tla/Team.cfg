SPECIFICATION FairSpec

CONSTANTS
    Issues = {1}
    Beats = {b1}
    NoBeat = NoBeat
    MaxGitHubErrors = 2
    Answers <- ReadyAnswers
    ClaimWithinInterval = TRUE

INVARIANTS
    TypeOK
    OnePrPerIssue
    MergedIsReviewed
    PickedOnce
    WorkedHasPr

PROPERTIES
    ClaimEnds
