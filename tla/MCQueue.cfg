SPECIFICATION FairSpec
CONSTANTS
  k1 = k1
  k2 = k2
  k3 = k3
  t1 = t1
  t2 = t2
  t3 = t3
  t4 = t4
  NoTask = NoTask
  Keys <- ThreeKeys
  Tasks <- ThreeTasks
  MaxChains = 2
  EvictThreshold = 1
  IdleSecs = 1
  MaxTime = 1
INVARIANTS
  TypeOK
  SerialWhileFitting
  QuiescentBounded
PROPERTIES
  ImplementsLine
  EveryCallReturns
