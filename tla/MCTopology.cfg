SPECIFICATION MCSpec
CONSTANTS
  nodeA = nodeA
  nodeB = nodeB
  Callers = {c}
  ReplayNever = {}
  Flights = {1, 2}
  EventLoop = loop
  Endpoints = {nodeA, nodeB}
  Seeds = {nodeA}
  Adapters = {1, 2, 3, 4}
  Layout <- MCLayout
  MaxPlanning = 2
  MaxCalls = 2
INVARIANT NoLeakedAdapter
INVARIANT AppliedOnce
INVARIANT KeysAndTimesFound
INVARIANT BuiltAsAsked
INVARIANT RoutedToItsFlow
PROPERTY LayoutsMoveForward
PROPERTY RoutedByCurrent
CHECK_DEADLOCK FALSE
