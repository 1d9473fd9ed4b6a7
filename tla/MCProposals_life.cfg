SPECIFICATION Spec
CONSTANTS
    N = 2
    Modes = {"auto", "review"}
    MaxPending = 1
    FailLimit = 1
    PauseAge = 1
    ResetAge = 1
    StaleAge = 2
    KeepRecent = 1
    RedLookback = 2
    RedThreshold = 2
    MaxAttempts = 2
    MaxQueued = 1
    MaxCrashes = 1
INVARIANTS PromotedOnce
PROPERTIES CompletedKept RedHeeded Settles
