SPECIFICATION FairSpec
CONSTANTS
  m1 = m1
  m2 = m2
  c1 = c1
  c2 = c2
  r1 = r1
  r2 = r2
  r3 = r3
  None = None
  Error = Error
  Msgs = {m1, m2}
  Reqs = {r1, r2, r3}
  Conns = {c1, c2}
  ConnOf <- MCConnOf
  QueueCap = 1
  BatchMax = 2
  MayClose = TRUE
INVARIANTS ReplyIsOwn HeldOnce DoneIsOwed
PROPERTIES KeepsPromise DoneOrAbandoned SafeOnceDrained
CHECK_DEADLOCK FALSE
