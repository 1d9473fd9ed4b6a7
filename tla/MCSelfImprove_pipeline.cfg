SPECIFICATION Spec
CONSTANTS
    Files <- MCFiles
    Tracked <- MCTracked
    Ignored <- MCIgnored
    Allowed <- MCAllowed
    Tested <- MCTested
    Drafts <- MCDrafts
    MaxRetries = 2
    MaxRuns = 2
    MaxTroubles = 1
INVARIANTS NoTrace CommitHasContent
PROPERTIES Promoted
CHECK_DEADLOCK FALSE
