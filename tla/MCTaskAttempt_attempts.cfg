SPECIFICATION Spec
CONSTANTS
    MaxAttempts = 2
    TaskCost = 1
    TierTurns = 4
    Budget = 7
    Multiplier = 2
    MaxCalls = 4
    KeepPairs = 2
    SummaryAfter = 2
    Recent = 3
    Dense = 2
    Few = 1
    MaxBatch = 2
    Workers = {w1, w2, w3}
    CallNames = {read, edit}
    CallArgs = {x, y}
    OracleTurns = 5
    Interval = 3
    MaxCheckpoints = 3
    Cooldown = 1
    Price = 3
    Effects = {e1, e2}
    Goals = {g1, g2}
    TheGoal = g1
    Judged = {g1, g2}
    MaxOpen = 2
    MaxHarness = 4
    InARow = 3
    MaxAnswer = 1
INVARIANTS FirstCallValid BudgetsKept Backed CompletionProven LogComplete
PROPERTIES Ends
CHECK_DEADLOCK FALSE
