SPECIFICATION Spec
CONSTANTS
  Nodes = {n1, n2, n3}
  NoNode = NoNode
  MaxRedirects = 5
  MaxChanges = 6
INVARIANTS ExecutedOnce RedirectOnlyUnderChurn
