CONSTANTS
  Size <- TwoBlocks
  MaxName = 0
  Chunk = 2
  WriteMax = 1
SPECIFICATION Spec
PROPERTIES CompleteSpec
