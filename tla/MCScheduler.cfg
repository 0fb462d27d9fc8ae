SPECIFICATION FairSpec
CONSTANTS
  p1 = p1 p2 = p2 w1 = w1 w2 = w2 w3 = w3 main = main
  Closer = main
  NArtifacts = 4
  Media <- FirstThree
  Producers <- TwoProducers
  Workers <- ThreeWorkers
  Capacity = 2
  ConfiguredSlots = 0
  AbruptClose = TRUE
INVARIANTS
  CountersExact
  NoLostWakeup
  FifoPerClass
  LightSlotKept
PROPERTY
  AllServed
