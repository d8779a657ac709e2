SPECIFICATION FairSpec
CONSTANTS
  None = None
  MaxSkew = 0
  WorkersPresent = TRUE
PROPERTY
  FailureCreatesOutcome
CHECK_DEADLOCK FALSE
