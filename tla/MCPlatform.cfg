SPECIFICATION Spec
CONSTANTS
  Clusters = {"m", "n", "r"}
  RedisClusters = {"r"}
  Appids = {"a"}
  Scenarios <- MCScenarios
  MaxNodes = 2
  MaxFaults = 1
  MaxRetry = 2
  None = None
CHECK_DEADLOCK FALSE
INVARIANTS PortsDistinct AppidsAgree DoneIsDeployed
PROPERTIES JobsSettle
