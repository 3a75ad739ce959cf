\* Four calls over three slots; three failures open and two probes close the
\* circuit; a window of four in a history of eight.
CONSTANTS
  Calls = {c1, c2, c3, c4}
  MaxConcurrentSends = 3
  FailureThreshold = 3
  SuccessThreshold = 2
  NoCall = NoCall
  HealthWindowSize = 4
  UnhealthyPercent = 25
  MaxOperations = 8

SPECIFICATION Spec

\* The history of the health monitor is bounded.
CHECK_DEADLOCK FALSE

INVARIANTS
  ActiveWithinCap
  NoOverdueTransition
  ShutGateMeansBlackout
  VerdictFollowsLatest

PROPERTIES
  IsResourcePool
  OpensOnThresholdFailures
  ClosesOnThresholdSuccesses
  EachTripWaits
