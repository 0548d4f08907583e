SPECIFICATION FairSpec
CONSTANTS
  none = none
  raw = raw
  error = error
  None <- none
  Raw <- raw
  Error <- error
  Fronts <- MCFronts
  MaxSent = 3
  Concurrent = 2
  MaxConcurrent = 4
INVARIANTS OwnAnswers PanicsOnlyUnforwarded
PROPERTIES HeldUntouched EveryRequestEnds
CHECK_DEADLOCK FALSE
