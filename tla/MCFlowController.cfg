SPECIFICATION Spec
CONSTANTS
  Requests = {r1, r2, r3}
  Lanes = {a, b}
  ConnLimits = {0, 1, 2}
  LaneLimits = {1, 2}
  LaneQueueLimit = 2
  MaxQueued = 2
INVARIANT CreditsConserved
INVARIANT QueuesConsistent
INVARIANT NoStrandedWaiter
PROPERTY NoOvertaking
PROPERTY EveryWaiterServed
