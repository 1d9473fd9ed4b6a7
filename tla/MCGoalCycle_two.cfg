SPECIFICATION FairSpec
CONSTANTS
  NTiers = 3
  Drafts <- OneDraft
  MaxSteps = 2
  MaxNew = 1
  MaxRetries = 1
  MaxRecomps = 1
  LogLimit = 1
  NSubGoals = 2
  NGoals = 2
  Goal <- GoalChain
  DependsOn <- TwoFree
  MaxActive = 1
  MaxDecompose = 2
  Verdicts = {}
INVARIANTS
  DoneIsEarned
PROPERTIES
  PlanResolves
