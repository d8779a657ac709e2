SPECIFICATION Spec
CONSTANTS
  None = None
  Foreign = {}
INVARIANT
  StagesFromHistory
CHECK_DEADLOCK FALSE
