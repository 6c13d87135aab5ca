SPECIFICATION Spec
CONSTANTS
  None = None
  Fingers = {f, g}
  Tracks = {0, 1}
  Matching = FALSE
INVARIANT NothingTouchingNothingHeld
CHECK_DEADLOCK FALSE
