SPECIFICATION BridgeSpec
CONSTANTS
  RenderTopic = render
  DeploymentTopic = deployment
  EventId = {e1}
  MaxLog = 2
  MaxCrash = 2
  HeartbeatInterval = 10
  ProbeTimeout = 10
  StartTimeout = 10
  CommitTime = 5
  HealthWindow = 60
  MaxOutages = 1
INVARIANTS
  IInv
  NoRequestLost
  AtMostOneExecution
  NeverReadsAhead
  HealthyWhileBrokerAnswers
PROPERTIES
  CommitsNeverRegress
  ImplementsIntake
  EveryRecordSettled
  UnhealthyWhileBrokerAway
  StopsIfSuspended
CHECK_DEADLOCK FALSE
