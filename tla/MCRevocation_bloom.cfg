SPECIFICATION RevocationSpec
CONSTANTS
  t1 = t1
  t2 = t2
  g1 = g1
  Tokens = {t1, t2}
  Gateways = {g1, g2}
  Requests = {r1}
  Bits = {1, 2}
  Positions <- Overlapping
  TTL = 2
  MaxFaults = 1
  Clients = {c1, c2}
  Roles <- MCRoles
  MaxWrites = 2
  Faults = TRUE
  None = None
INVARIANT NoFalseNegatives
