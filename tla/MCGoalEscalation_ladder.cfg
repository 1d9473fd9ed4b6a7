SPECIFICATION FairSpec
CONSTANTS
  NGoals = 2
  NSubGoals = 3
  Goal <- TwoAndOne
  MaxActive = 1
  MaxSnapshots = 5
  StallThreshold = 2
  Cooldown = 2
  MaxDiagnoses = 2
  MaxRedecompositions = 1
  Verdicts = {}
INVARIANTS
  LadderInOrder
PROPERTIES
  CooldownKept
  StallNoticed
