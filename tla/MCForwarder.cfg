SPECIFICATION FairSpec
CONSTANTS
  a1 = a1
  a2 = a2
  a3 = a3
  n1 = n1
  n2 = n2
  h1 = h1
  h2 = h2
  Addrs = {a1, a2, a3}
  Setups <- MCSetups
  MaxGens = 3
  PingFailLimit = 2
INVARIANTS PipesMatchConfig RefusedOnlyWhenOvertaken
PROPERTIES EjectedAfterLimit RingFollowsNodes
CHECK_DEADLOCK FALSE
