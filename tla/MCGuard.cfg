SPECIFICATION Spec
CONSTANTS
  u1 = u1
  u2 = u2
  u3 = u3
  c1 = c1
  c2 = c2
  c3 = c3
  c4 = c4
  Users <- ThreeUsers
  Calls <- FourCalls
  Cooldown = 2
  MaxEntries = 2
  EvictThreshold = 1
  MaxTime = 4
SYMMETRY Symmetry
INVARIANTS
  TypeOK
  Bounded
  
  SpacedNotices
