SPECIFICATION Spec
CONSTANTS
  Plans <- MCPlans
  Slots = 16
  MaxLinks = 8
INVARIANTS ReplicaElsewhere FillFits SlotsDivided
PROPERTIES PairingEnds
