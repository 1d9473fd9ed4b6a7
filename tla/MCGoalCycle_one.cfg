SPECIFICATION Spec
CONSTANTS
  NTiers = 3
  Drafts <- TwoDrafts
  MaxSteps = 2
  MaxNew = 1
  MaxRetries = 2
  MaxRecomps = 1
  LogLimit = 3
  NSubGoals = 1
  NGoals = 1
  Goal <- GoalOne
  DependsOn <- NoDeps
  MaxActive = 1
  MaxDecompose = 2
  Verdicts = {"open", "blocked", "done"}
INVARIANTS
  StepsInOrder
  RecoveryBudget
  PlansSettled
PROPERTIES
  WorkKept
  EscalationEarned
