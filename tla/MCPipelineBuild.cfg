SPECIFICATION Spec
CONSTANTS
  MaxLength = 3
  Limits = {0, 3}
  FrameBytes = 3
  MaxSize = 2
  MaxFates = 2
INVARIANT BuildErrorIsLocal
CHECK_DEADLOCK FALSE
