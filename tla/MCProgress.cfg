SPECIFICATION MCSpec
CONSTANTS
  Callers = {goroutine, second, third}
  goroutine = goroutine
  Workers = {w}
  Jobs = {j, k}
  States <- MCStates
  Steps = {x}
  Policies = {"retry"}
  BatchSize = 2
  Concurrency = 1
  Stoppable = {w}
  MaxFence = 2
  MaxNet = 1
  queuer = queuer
  caller = caller
  loopProc = loopProc
  nodeA = nodeA
  nodeB = nodeB
INVARIANT Exclusion
INVARIANT NoLostWakeup
PROPERTY EveryCallReturns
CHECK_DEADLOCK FALSE
