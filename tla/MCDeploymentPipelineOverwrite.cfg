SPECIFICATION Spec
CONSTANTS
  Deployments = {d1}
  Renders = {r1}
  Loads <- MCOverwrite
  Nothing = Nothing
  MaxVersion = 2
  MaxAttempts = 2
INVARIANT
  OverwriteFailsBeforeMutation
CHECK_DEADLOCK FALSE
