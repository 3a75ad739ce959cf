\* One probe ticket that is never given back is enough.
CONSTANTS
  Events = {e1, e2}
  Tokens = {t1, t2, t3, t4, t5}
  NoToken = NoToken
  NoLease = NoLease
  NoCopy = NoCopy
  MaxAttempts = 2
  AttemptBound = 3
  MaxRequeues = 1
  Relays = {r1, r2}
  QueueCapacity = 1
  MaxRestarts = 1
  Threshold = 1
  FirstRelay = r1
  FirstEvent = e1

SPECIFICATION Spec

INVARIANT
  ProbeInFlightIsReal
