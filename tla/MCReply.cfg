SPECIFICATION ReplySpec
CONSTANTS
  Kinds <- AllKinds
  MaxLines = 4
  Capacity = 1
  FlushLen = 4
  DrainAt = 2
  DrainLen = 5
  LocalHistory = TRUE
  NoTurn = NoTurn
  MaxChars = 6
  MaxLimit = 4
INVARIANTS
  ReplyTypeOK
  ChunksDoNotMatter
  NothingLost
  ThoughtsHidden
  NothingDropped
PROPERTIES
  
  SplitEnds
