CONSTANTS
  a = a
  b = b
  Names <- Both
  TreeNames <- OnlyB
  Stalling <- FirstOfA
  OrphanNames <- NoNames
  MaxJobs = 3
  MaxSeq = 2
  MaxParallel = 1
  MaxAttempts = 2
  MaxUser = 3
  MaxRestarts = 1
SPECIFICATION FairSpec
PROPERTIES WaitingServed PausedStops FailedRetried
