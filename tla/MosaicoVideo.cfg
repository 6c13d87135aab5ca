SPECIFICATION FairSpec
CONSTANTS
  FrameCount = 3
  Rows = 2
  DrawBuffers = 2
  Errors = {"ESP_ERR_TIMEOUT", "ESP_FAIL"}
  MaxFrames = 3
  MayTimeOut = TRUE
  Misuse = FALSE
INVARIANTS
  Safety
  NoTearing
PROPERTIES
  ErrorsReported
  ImplementsContract
  AcceptedIsReleased
  CallsReturn
