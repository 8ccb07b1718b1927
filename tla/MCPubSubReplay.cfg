SPECIFICATION PubSubSpec
CONSTANTS
  Subscribers = {s}
  Readers = {p}
  Targets = {ch, pt}
  Kinds = {message}
  Executors = {e1}
  ReconnectMaxRetries = 1
  BufferCapacity = 1
  MaxGen = 3
  MaxEvents = 1
INVARIANT ExistingReplayedFirst
CHECK_DEADLOCK FALSE
