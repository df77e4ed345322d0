SPECIFICATION Spec
CONSTANTS
  Published <- Bundles
  Patched <- Led
  Count = {0, 1, 2, 500, 999, 1000, 1001}
  Name = {"beta"}
  Targeting <- SomeTargets
INVARIANTS ExactShare PositionsInvertShuffle
PROPERTIES RolloutOnlyGrows
CHECK_DEADLOCK FALSE
