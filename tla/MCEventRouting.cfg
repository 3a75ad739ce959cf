SPECIFICATION Spec
CONSTANTS
  Names = {"a", "b"}
  MaxCount = 2
INVARIANTS RoutedByTheTable TrustIsJustified SentIffSound
CHECK_DEADLOCK FALSE
