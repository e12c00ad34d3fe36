SPECIFICATION PathSpec
CONSTANTS
  c1 = c1
  c2 = c2
  ann = ann
  bob = bob
  root = root
  Calls = {c1, c2}
  Principals = {ann, bob, root}
  NoOne = NoOne
  Admins = {root}
  Shapes <- CallShapes
  PolicySets <- RuleSets
  Writers = {w1, w2}
  HandlerTimeout = 1
  WriteTimeout = 2
  MaxFrames = 2
  Processes = {"gateway", "server", "worker"}
  Work = {j1, j2, j3}
INVARIANTS ActsAsTokenOwner DenyOverrides WritersUnshared ProxiedOutcomeTrue LifeNeverCut LifeAllReleased
PROPERTIES KeepsContract EveryCallEnds ProxiedPumpsEnd LifeExits
CHECK_DEADLOCK FALSE
