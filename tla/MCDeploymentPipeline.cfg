SPECIFICATION Spec
CONSTANTS
  Deployments = {d1, d2}
  Renders = {r1}
  Loads <- MCLoads
  Nothing = Nothing
  MaxVersion = 2
  MaxAttempts = 2
SYMMETRY Symmetry
INVARIANTS
  SetCarriesPrepared
  PreparedBindsOneRead
  CompletedMeansOwnSet
  NoFalseMismatch
  IInv
CHECK_DEADLOCK FALSE
