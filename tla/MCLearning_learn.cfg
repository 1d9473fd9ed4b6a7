SPECIFICATION Spec
CONSTANTS
    Goals <- MCGoals
    Evidence <- MCEvidence
    DefaultLevel = 1
    Cooldown = 2
    MaxHistory = 2
    Categories = {"code"}
    Texts = {"a", "b"}
    PerCategory = 1
    MaxTotal = 2
    Injected = 1
    Kinds = {"k1", "k2"}
    NoKind = "none"
    ShortMax = 4
    LongMax = 1
    MinCount = 3
    Every = 2
    Restarts = 1
PROPERTIES CooldownKept AutonomyEarned LevelFollowsTrust Forgotten Recalled
