SPECIFICATION FairRateSpec
CONSTANTS
  r1 = r1
  r2 = r2
  r3 = r3
  r4 = r4
  r5 = r5
  Requests <- FiveRequests
  MaxRpm = 2
  Minute = 5
INVARIANTS
  RateTypeOK
  WindowBound
PROPERTIES
  EveryRequestAdmitted
