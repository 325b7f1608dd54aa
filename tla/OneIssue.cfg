SPECIFICATION Spec

CONSTANTS
    Issues = {1, 2}
    Beats = {b1, b2}
    NoBeat = NoBeat
    MaxGitHubErrors = 1
    Answers <- CompleteAnswers
    ClaimWithinInterval = TRUE

INVARIANTS
    OneIssueAtATime
