SPECIFICATION MCSpec
CONSTANTS
  r1 = r1
  r2 = r2
  r3 = r3
  r4 = r4
  Requests <- FourRequests
  Ops <- OneOfEach
  RateLimit = 1
  RateWindow = 2
  MaxEntries = 1
  MaxHold = 1
  MaxTime = 5
SYMMETRY Symmetry
INVARIANTS
  TypeOK
  OnlyTheKeyIsCounted
  EffectsAuthorized
  
  
