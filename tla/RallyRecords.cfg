SPECIFICATION Spec
CONSTANTS
  Courses = 2
  Times = {1, 2}
  Faults = FALSE
  TargetLaps = 2
INVARIANT RecordsKept
CHECK_DEADLOCK FALSE
