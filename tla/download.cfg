CONSTANTS
  w1 = w1
  w2 = w2
  Workers <- OneWorker
  MaxName = 1
  Size <- Varying
SPECIFICATION Spec
INVARIANTS TypeOK
PROPERTIES AtomicSpec NoClobber NoStaleBytes DoneMeansCopied
