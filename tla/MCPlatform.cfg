SPECIFICATION PlatformSpec
CONSTANTS
  Callers = {c1, c2, c3, c4}
  FailureThreshold = 3
  OpenTimeout = 2
  HalfOpenMax = 2
  Outcomes <- Everything
  Instances = {i1, i2}
  Goroutines = {g1, g2}
  TTL = 1
  MaxWrites = 1
  MaxFaults = 1
PROPERTIES OpensOnRun FullTimeout BreakerRecovers PolicyCatchesUp
