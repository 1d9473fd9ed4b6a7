SPECIFICATION FairSpec
CONSTANTS
  Instances = {"a", "b"}
  NTasks = 2
  DependsOn <- Chain
  TaskRoles <- Roled
  Role <- Builder
  Generalist = "any"
  LongRuns = TRUE
INVARIANTS
  DependencyRespected
PROPERTIES
  ClaimsFreed
  Leased
