SPECIFICATION Spec
CONSTANTS
  Messages = {p1, p2}
  QueueCapacity = 2
INVARIANT ZeroAwaitingMeansNoneAwaited
CHECK_DEADLOCK FALSE
