SPECIFICATION AnswersSpec
CONSTANTS
  None = None
  MaxChecks = 16
  Intents <- MCIntents
  Port <- MCPort
  Address = {"x", "y", "z"}
  Listed <- MCListed
  Neighbors <- MCNeighbors
  InterfaceLimit = 2
  LinkLimit = 2
  Subjects = {{"cables"}, {"addresses"}}
  Connectable <- MCConnectable
  Cabled <- MCCabled
  Assignable <- MCAssignable
  Foreign = {audit}
INVARIANTS
  OneExpectation
  JudgesAgree
  GraphIsPossible
  SteadyLinkIsDrawn
  OverviewAgreesWithTopology
  ClosedReadIsExact
  SuccessIsProved
PROPERTY
  FinalTimelineShown
CHECK_DEADLOCK FALSE
