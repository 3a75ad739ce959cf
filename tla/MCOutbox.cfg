\* Two sends per event before quarantine, one replay, one restart; the first
\* failure opens a relay's circuit.
CONSTANTS
  Events = {e1, e2}
  Tokens = {t1, t2, t3, t4, t5}
  NoToken = NoToken
  NoLease = NoLease
  NoCopy = NoCopy
  MaxAttempts = 2
  AttemptBound = 3
  MaxRequeues = 1
  Relays = {r1, r2}
  QueueCapacity = 1
  MaxRestarts = 1
  Threshold = 1
  FirstRelay = r1
  FirstEvent = e1

SPECIFICATION FairSpec

INVARIANTS
  OneLease
  AttemptsCoverSends
  OneProbe
  PublishedMeansMirrored

PROPERTIES
  KeepsOutboxContract
  LeaseIsRespected
  EventsAreSettled
