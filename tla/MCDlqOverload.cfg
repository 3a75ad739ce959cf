\* Three calls with a retry each over two slots, one of them interruptible; the
\* second failure in a row opens the circuit, which two probes close.
CONSTANTS
  Calls = {c1, c2, c3}
  Interruptible = {c1}
  FailuresReturned = FALSE
  LateCalls = {}
  DlqSettings = {TRUE}
  MaxConcurrentSends = 2
  MaxRetries = 1
  FailureThreshold = 2
  SuccessThreshold = 2
  HealthWindowSize = 1
  UnhealthyPercent = 10
  NoCall = NoCall

SPECIFICATION FairSpec

PROPERTIES
  BegunCallsReturn
