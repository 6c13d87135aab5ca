SPECIFICATION Spec
CONSTANTS
  FrameCount = 3
  Rows = 2
  DrawBuffers = 2
  Errors = {"ESP_FAIL"}
  MaxFrames = 3
  MayTimeOut = TRUE
  Misuse = FALSE
INVARIANTS
  NotReadyBeforeFirstAccept
