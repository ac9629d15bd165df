CONSTANTS
  r1 = r1
  Workers = {w1}
  Admins = {a1}
  Releases = {r1}
  Gated = {r1}
  Deliveries = {d1, d2}
  Hosts = 1
  BatchSize = 1
  Targets <- MCTargets
  NoTarget = NoTarget
  MaxJobs = 2
  MaxApprovals = 2
  MaxCI = 2
  MaxTimeouts = 0
  MaxCrashes = 0
SPECIFICATION Safety
SYMMETRY MCDeliveries
INVARIANTS
  TypeOK
  ForcedApprovalRespected
  GateRespected
  QueuedByOneDelivery
CHECK_DEADLOCK FALSE
