SPECIFICATION Spec
CONSTANTS
  Data = {d}
  Control = {h}
  Heartbeats = {h}
  ReplayNever = {}
  MaxAttempts = 2
  MaxRetries = 1
INVARIANT AtMostOnce
CHECK_DEADLOCK FALSE
