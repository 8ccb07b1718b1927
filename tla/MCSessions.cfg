SPECIFICATION MCSpec
CONSTANTS
  Callers = {p, q}
  Txs = {x}
  MaxSessions = 2
  MaxConns = 2
  MaxWire = 2
  MaxQueue = 1
  Subscribers = {s}
  Readers = {r1, r2}
  Targets = {ch, pt}
  Kinds = {message, native}
  Executors = {e1, e2}
  ReconnectMaxRetries = 1
  BufferCapacity = 1
  MaxGen = 5
  MaxEvents = 3
  FirstReader = r1
  FirstKind = message
  FewConnections = 3
  FewEvents = 2
SYMMETRY Symmetry
INVARIANT SessionStateContained
INVARIANT SessionHasOneOwner
INVARIANT ClientAgreesWithServer
INVARIANT StampMeansSubscribed
INVARIANT EventsReachCallers
CHECK_DEADLOCK FALSE
