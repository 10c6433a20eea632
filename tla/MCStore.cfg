SPECIFICATION Spec
CONSTANTS
  a = a
  b = b
  c1 = c1
  c2 = c2
  m1 = m1
  text = text
  Blank = Blank
  NoModel = NoModel
  NoFile = NoFile
  Empty = Empty
  Garbled = Garbled
  NoState = NoState
  NoId = NoId
  FlushTask = FlushTask
  Calls <- TwoCalls
  Msgs <- AllMsgs
  Bases <- TwoBases
  Models <- OneModel
  Turns <- FullTurn
  MaxSessions = 1
  SessionTtl = 1
  MaxMessages = 1
  MaxTime = 2
  MaxOps = 4
  MaxRestarts = 1
SYMMETRY Symmetry
INVARIANTS
  TypeOK
  StateCoherent
  DurableUnlessRaced
  FileWhole
PROPERTIES
  BumpStartsEmpty
