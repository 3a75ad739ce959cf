\* Three messages, one of which the client will not have, over a queue of one;
\* two interrupts; two resets between the calls of three threads.
SPECIFICATION FairSpec
CONSTANTS
  Messages = {p1, p2, p3}
  QueueCapacity = 1
  RejectedMessages = {p3}
  SampleSize = 1
  MaxInterrupts = 2
  NoEvent = NoEvent
  NoSummary = NoSummary
  MayWait = TRUE
  MayCloseEarly = TRUE
  Threads = {t1, t2, t3}
  MaxResets = 2
INVARIANTS ConfirmedMeansDelivered HonestReport CountsAreExact DrainedForGood
           OneInstance ServedMeansReady
PROPERTIES KeepsPublishContract CallsEnd
CHECK_DEADLOCK FALSE
