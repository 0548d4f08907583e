SPECIFICATION FairSpec
CONSTANTS
  a1 = a1
  a2 = a2
  a3 = a3
  h1 = h1
  NoAddr = NoAddr
  Addrs = {a1, a2, a3}
  Slots = {0, 1}
  Seeds = {a1, a2}
  Setups <- MCSetups
  MaxChanges = 2
INVARIANTS PipesMatchTable ServedSlotsRouted
PROPERTIES EventsHeard TableCatchesUp
CHECK_DEADLOCK FALSE
