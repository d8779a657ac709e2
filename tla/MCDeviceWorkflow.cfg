SPECIFICATION FairSpec
CONSTANTS
  None = None
  MaxSkew = 1
  WorkersPresent = FALSE
INVARIANTS
  OutcomeIsConstructible
  FitsExecutionTimeout
  CompletedMeansDelivered
  RetriesAsPromised
PROPERTY
  EveryExecutionCloses
CHECK_DEADLOCK FALSE
