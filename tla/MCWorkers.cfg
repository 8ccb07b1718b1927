SPECIFICATION MCSpec
CONSTANTS
  Workers = {w1, w2}
  Jobs = {job}
  States <- MCStates
  Steps = {step}
  Policies = {"retry", "fail", "return"}
  BatchSize = 1
  Concurrency = 1
  Stoppable = {}
  MaxFence = 3
  MaxNet = 2
  Queuers = {q1, q2}
  QueueJobs = {j, k}
  QueuePolicies = {"retry", "fail", "return"}
  QueueBatchSize = 2
  QueueConcurrency = 2
  Stoppables = {}
  MaxClaims = 2
SYMMETRY Symmetry
INVARIANT StepCommittedOnce
INVARIANT ReplayNotRerun
INVARIANT OutcomeOnLatestClaim
INVARIANT SuccessesCompleted
INVARIANT WireRoundTrips
CHECK_DEADLOCK FALSE
