SPECIFICATION FairSpec
CONSTANTS
  MaxFrames = 3
  MaxUpdates = 2
  MaxRuns = 2
  StripErrors = {"PLATFORM_ERROR", "TIMEOUT"}
  CallErrors = {"BUSY", "TIMEOUT", "INVALID_STATE"}
INVARIANT Safety
PROPERTIES KeepsContract CloseReturns
CHECK_DEADLOCK FALSE
