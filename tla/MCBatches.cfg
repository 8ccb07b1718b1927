SPECIFICATION MCSpec
CONSTANTS
  Commands = {c1, c2}
  Flushes = {f}
  QueueSize = 2
  MaxSize = 2
  Keys <- MCKeys
  Leaders <- MCLeaders
  Layout <- MCLayout
  Pipelines <- MCPipelines
  MaxEpoch = 3
  Longest = 3
  key1 = key1
  key2 = key2
  leader1 = leader1
  leader2 = leader2
  NoRoute = NoRoute
  MaxPlanning = 1
  MaxTasks = 2
  Writers = {w1, w2, w3}
  Size <- MCSize
  MaxCommands = 2
  BufferBytes = 2
  Flushers = {fl1, fl2}
  Posted = {p1, p2}
  Home = home
  Elsewhere = elsewhere
  MaxHops = 4
  MaxBatchCommands = 2
INVARIANT AcceptedAnswered
INVARIANT WaitingIsTrue
INVARIANT PipelinesInOrder
INVARIANT BatchesKept
INVARIANT CredentialsStayHome
PROPERTY NobodyHangs
PROPERTY ImplementsDelivery
CHECK_DEADLOCK FALSE
