\* Two callers, a credential good for two ticks, three fetches.
CONSTANTS
  Callers = {p1, p2}
  TTL = 2
  MaxFetches = 3
  MaxTime = 3
SPECIFICATION CacheFairSpec
INVARIANT SingleFlight
INVARIANT TTLKept
INVARIANT RejectedNotReused
PROPERTY CallsReturn
CHECK_DEADLOCK FALSE
