SPECIFICATION Spec
CONSTANTS
  NEntries = 1
  AutoEntries = {}
  StaleAge = 1
  MaxAge = 1
  MaxEntries = 1
PROPERTIES
  DecisionStands
