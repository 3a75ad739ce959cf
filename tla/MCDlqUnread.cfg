\* One message per call through a producer that reports a failure by returning
\* it, as SingletonProducer.send does.
CONSTANTS
  Calls = {c1, c2}
  Interruptible = {}
  FailuresReturned = TRUE
  LateCalls = {}
  DlqSettings = {TRUE}
  MaxConcurrentSends = 2
  MaxRetries = 1
  FailureThreshold = 2
  SuccessThreshold = 1
  HealthWindowSize = 1
  UnhealthyPercent = 10
  NoCall = NoCall

SPECIFICATION Spec

INVARIANTS
  SuccessMeansDelivered
