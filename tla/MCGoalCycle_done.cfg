SPECIFICATION Spec
CONSTANTS
  NTiers = 3
  Drafts <- OneDraft
  MaxSteps = 1
  MaxNew = 1
  MaxRetries = 1
  MaxRecomps = 1
  LogLimit = 1
  NSubGoals = 2
  NGoals = 2
  Goal <- GoalChain
  DependsOn <- ChainDeps
  MaxActive = 2
  MaxDecompose = 2
  Verdicts = {}
PROPERTIES
  DoneKept
