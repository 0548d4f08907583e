SPECIFICATION Spec
CONSTANTS
  Streams <- UsualStreams
  InitLen = 4
PROPERTY DecodedInStep
CHECK_DEADLOCK FALSE
