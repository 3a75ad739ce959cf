\* Two members of a group, two records, two faults.
CONSTANTS
  Consumers = {c1, c2}
  NoConsumer = NoConsumer
  Lessons = {"poll_commit", "manual_commit", "manual_store"}
  MaxRecords = 2
  MaxMessages = 2
  MaxEmptyPolls = 2
  MaxFaults = 2

SPECIFICATION FairSpec

INVARIANTS
  NothingSkipped
  RepeatsNeedFaults

PROPERTIES
  KeepsDeliveryContract
  RunsEnd
  OrdersAreReached
