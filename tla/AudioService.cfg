SPECIFICATION FairSpec
CONSTANTS
  Chunk = 3
  MaxNoProgress = 2
  MayTimeOut = TRUE
INVARIANTS WorkerMemory CleanupIsWhole
PROPERTIES StopIsSeen
