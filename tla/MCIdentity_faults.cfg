\* Two requests, every operation, with expiry, Redis outages and fair scheduling.
CONSTANTS
  Requests = {r1, r2}
  Sessions = {s1, s2, s3}
  s1 = s1
  MaxCodes = 4
  MaxFailures = 1
  Roles <- MCRoles
  Ops <- EveryOp
  TimePasses = TRUE
  RedisMayFail = TRUE
  None = None
  InitSessions <- OneSession
  InitCodes <- OneEach
SPECIFICATION FairSpec
PROPERTY RequestsFinish
