\* Two calls with a retry each contend for the breaker; one of them can be
\* interrupted, and producers may also return their failures.
CONSTANTS
  Calls = {c1, c2}
  Interruptible = {c1}
  FailuresReturned = TRUE
  LateCalls = {c1}
  DlqSettings = {TRUE, FALSE}
  MaxConcurrentSends = 2
  MaxRetries = 1
  FailureThreshold = 2
  SuccessThreshold = 1
  HealthWindowSize = 1
  UnhealthyPercent = 10
  NoCall = NoCall

SPECIFICATION Spec

INVARIANTS
  TypeOK
  SuccessIsConfirmedOrUnread
  FailureMeetsDlq
  QuietMeansReleased

PROPERTIES
  KeepsContract
