SPECIFICATION LimitersSpec
CONSTANTS
  Requests = {r1, r2, r3}
  PerSecond = 2
  Seconds = 2
  Limit = 2
  Window = 5
  Lag = 0
  MaxTime = 11
  MaxCalls = 3
  MaxFaults = 1
  Logins = {l1, l2}
  MaxFailures = 3
  Lockout = 3
  MaxMishaps = 1
INVARIANTS CeilingHolds ResetsAccounted SlidingBurstBounded LoginGuessesBounded
PROPERTIES GlobalKeepsAdmitting LoginLockEnds
