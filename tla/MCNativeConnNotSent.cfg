SPECIFICATION Spec
CONSTANTS
  Data = {d}
  Control = {c}
  Heartbeats = {}
  ReplayNever = {d}
  MaxAttempts = 2
  MaxRetries = 1
INVARIANT NotSentIsTrue
CHECK_DEADLOCK FALSE
