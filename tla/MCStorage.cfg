SPECIFICATION StorageSpec
CONSTANTS
  Ids = {n1}
  Bodies = {b1, b2}
  Requests = {r1, r2, r3}
  MaxVersion = 4
  MaxFaults = 2
  Instances = {i1, i2}
  Callers = {c1, c2}
  L1TTL = 2
  L2TTL = 1
  HasL2 = TRUE
  MaxFlight = 1
  MaxWrites = 1
  MaxMisses = 1
SYMMETRY AnyRequest
INVARIANTS EventsInOrder CacheStaleBounded
PROPERTY ImplementsStore
