SPECIFICATION DeliveryFairSpec
CONSTANTS
  m1 = m1
  m2 = m2
  e1 = e1
  e2 = e2
  foreign = foreign
  Sides = {"write", "read"}
  Members <- TwoMembers
  Events <- TwoEvents
  RuleBreakers <- Breaking
  Triggers <- Starting
  Foreign <- OneForeign
  InitialTopic <- MixedLog
  ConsumerMaxAttempts = 2
  MaxDeliveryFaults = 3
  MaxMemberCrashes = 1
  MaxReplays = 1
CHECK_DEADLOCK FALSE
INVARIANTS
    AppliedOnce
    NothingDroppedOrSkipped
    AsideOnlyAfterBudget
PROPERTIES
    PartitionMovesOn
