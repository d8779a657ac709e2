SPECIFICATION Spec
CONSTANTS
  Request <- MCRequest
  Scenarios <- MCScenarios
  Probes = {"nautobot", "temporal"}
  Nobody = Nobody
  Probe = 1
  Overview = 3
  Live = 3
INVARIANT
  FailureStaysLocal
