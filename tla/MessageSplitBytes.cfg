SPECIFICATION SplitSpec
CONSTANTS
  MaxChars = 5
  MaxLimit = 4
INVARIANTS
  CutsBetweenCharacters
