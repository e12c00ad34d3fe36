\* Three requests, every operation: any three use cases in any interleaving.
CONSTANTS
  Requests = {r1, r2, r3}
  Sessions = {s1, s2, s3, s4}
  s1 = s1
  MaxCodes = 5
  MaxFailures = 1
  Roles <- MCRoles
  Ops <- EveryOp
  TimePasses = FALSE
  RedisMayFail = FALSE
  None = None
  InitSessions <- OneSession
  InitCodes <- OneEach
SYMMETRY RequestSymmetry
SPECIFICATION Spec
INVARIANTS PasswordTrail ParentRevoked ResetCodeSingleUse
PROPERTIES RoleWritesAnnounced EarlierSessionsDie
