SPECIFICATION Spec
CONSTANTS
  Data = {d}
  Control = {h}
  Heartbeats = {h}
  ReplayNever = {}
  MaxAttempts = 1
  MaxRetries = 1
PROPERTY EveryRequestReturns
CHECK_DEADLOCK FALSE
