SPECIFICATION FairSpec
CONSTANTS
  NEntries = 2
  AutoEntries = {2}
  StaleAge = 1
  MaxAge = 2
  MaxEntries = 1
INVARIANTS
  OnlyGranted
  AtMostOnce
PROPERTIES
  Settled
  Lived
