CONSTANTS
  Size <- Varying
  MaxName = 1
  Chunk = 1
  WriteMax = 1
SPECIFICATION Spec
INVARIANTS TypeOK
PROPERTIES CompleteSpec NoStaleBytes DoneMeansCopied
