CONSTANTS
  a = a
  b = b
  Names <- Both
  TreeNames <- OnlyB
  Stalling <- NoNames
  OrphanNames <- OnlyA
  MaxJobs = 2
  MaxSeq = 2
  MaxParallel = 2
  MaxAttempts = 2
  MaxUser = 3
  MaxRestarts = 1
SPECIFICATION Spec
INVARIANTS TypeOK OneTaskPerJob NoSharedId FileRetryBudget
PROPERTIES StoppedStays PromotesWithinLimit
