SPECIFICATION BusySpec
CONSTANTS
  Calls = {c1, c2, c3}
  MaxRetries = 0
  QueueCapacity = 2
  Confirming = {}
  RaisingCallback = {}
  Persistent = {c1, c2, c3}
  Faulty = {}
  MinCallbacks = 10
  MaxErrorPercent = 10
  Backends = {"confluent_kafka"}
  MayShutDown = FALSE
PROPERTY FullQueueClears
CHECK_DEADLOCK FALSE
