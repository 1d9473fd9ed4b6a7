SPECIFICATION Spec
CONSTANTS
  mail = mail
  notes = notes
  None = None
  Feeds = {mail}
  Files = {notes}
  Cooldown = 2
  MaxBatch = 2
  Window = 2
  LogLimit = 4
  MaxRecords = 1
  Lives = 2
  Configs <- MCConfigs
  Plans <- MCPlans
INVARIANTS NoPhantomEvent SkipEarned VerdictFair
PROPERTIES DeadReplaced StopsClean
CHECK_DEADLOCK FALSE
