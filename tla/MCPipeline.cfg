SPECIFICATION FairSpec
CONSTANTS
  a = a
  b = b
  h1 = h1
  h2 = h2
  h3 = h3
  Blank = Blank
  NoModel = NoModel
  NoId = NoId
  Bases <- TwoBases
  Handlers <- ThreeHandlers
  Models <- OneModel
  Msgs <- TurnMsgs
  MaxSessions = 1
  SessionTtl = 1
  MaxMessages = 4
  MaxRetries = 1
  LocalHistory = TRUE
INVARIANTS
  TypeOK
  
  RecordedOnce
  WholeTurns

  
