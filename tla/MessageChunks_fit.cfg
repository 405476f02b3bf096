SPECIFICATION ChunksSpec
CONSTANTS
  Limit = 10
  LineLengths = {0, 2, 5, 7, 9, 11, 21}
  FenceLengths = {0, 2, 8}
  MaxLines = 4
  UnitLimit = 5
  MaxLetters = 8
CHECK_DEADLOCK FALSE
INVARIANT ChunksFit
