SPECIFICATION Spec
CONSTANTS
  Calls = {c1, c2, c3}
  MaxRetries = 1
  QueueCapacity = 1
  Confirming = {c2, c3}
  RaisingCallback = {c3}
  Persistent = {}
  Faulty = {c1, c2, c3}
  MinCallbacks = 2
  MaxErrorPercent = 40
  Backends = {"confluent_kafka", "kafka_python"}
  MayShutDown = TRUE
INVARIANTS SuccessIsEarned PlainRetryNeverDuplicates
PROPERTY UnhealthySendsNoMore
CHECK_DEADLOCK FALSE
