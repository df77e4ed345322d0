SPECIFICATION FairSpec
CONSTANTS
  d1 = d1
  Device = {d1}
  Bundle <- SomeBundles
  LastId = 4
  Floor <- Native
  NoReply = NoReply
INVARIANTS FleetInv NoFlapping
PROPERTIES NeverBelowFloor Converges
