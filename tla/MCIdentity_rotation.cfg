CONSTANTS
  Requests = {r1, r2}
  Sessions = {s1, s2, s3}
  s1 = s1
  MaxCodes = 0
  MaxFailures = 1
  Roles <- MCRoles
  Ops <- RefreshOps
  TimePasses = FALSE
  RedisMayFail = FALSE
  None = None
  InitSessions <- OneSession
  InitCodes <- NoCodes
SPECIFICATION Spec
INVARIANTS SecondUserThrownOut
