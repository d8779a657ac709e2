SPECIFICATION FairSpec
CONSTANTS
  HeartbeatInterval = 10
  ProbeTimeout = 10
  StartTimeout = 10
  CommitTime = 5
  HealthWindow = 60
  MaxOutages = 0
PROPERTY
  GracefulTermination
CHECK_DEADLOCK FALSE
