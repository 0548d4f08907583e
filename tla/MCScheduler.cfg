SPECIFICATION Spec
CONSTANTS
  Hosts = {1, 2}
  Clusters = {"m", "r"}
  RedisClusters = {"r"}
  Scenarios <- MCScenarios
  MaxRetry = 1
  FailCap = 1
  MaxId = 4
  MaxFaults = 1
  None = None
CHECK_DEADLOCK FALSE
INVARIANTS   StateCurrent
PROPERTIES EveryJobTried
