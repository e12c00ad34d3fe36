SPECIFICATION WorkerSpec
CONSTANTS
  None = None
  Replicas = {i1, i2, i3}
  MaxFaults = 2
  Relays = {r1, r2}
  Workers = {w1, w2}
  NumEvents = 2
  BatchSize = 2
  Poison = {bad}
  PipelineFaults = 1
INVARIANTS OneAtATime LeaseHonoured WorkOncePerPeriod NothingLost DuplicatesCostFaults
PROPERTIES JobKeepsFiring AtLeastOnce
