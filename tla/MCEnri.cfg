SPECIFICATION Spec
CONSTANTS
  Nodes = {1, 2, 3, 4, 5, 6}
  HostOf <- MCHostOf
  Slots = {0, 1, 2, 3, 4}
  Runs <- MCRuns
  MaxFaults = 2
  None = None
CHECK_DEADLOCK FALSE
INVARIANTS SlotsServed Outcome NoStall
