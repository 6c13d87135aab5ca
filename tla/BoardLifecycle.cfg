SPECIFICATION FairSpec
CONSTANT MaxRuns = 2
INVARIANTS
  DevicesOutliveUsers
  LendersOutliveBorrowers
  ReleasedWhole
PROPERTY CleanupConverges
CHECK_DEADLOCK FALSE
