SPECIFICATION Spec
CONSTANTS
  MaxReqs = 5
  BatchMax = 2
  NoReply = NoReply
  Junk = Junk
INVARIANT OwnUnlessMixed
CHECK_DEADLOCK FALSE
