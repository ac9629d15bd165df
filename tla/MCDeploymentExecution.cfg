CONSTANTS
  r1 = r1
  Workers = {w1, w2}
  Admins = {}
  Releases = {r1}
  Gated = {r1}
  Deliveries = {d1}
  Hosts = 3
  BatchSize = 2
  Targets <- MCTargets
  NoTarget = NoTarget
  MaxJobs = 2
  MaxApprovals = 2
  MaxCI = 1
  MaxTimeouts = 2
  MaxCrashes = 1
SPECIFICATION Safety
SYMMETRY MCWorkers
INVARIANTS
  StatusTellsHosts
  GuardProposes
PROPERTIES
  BlockedStands
CHECK_DEADLOCK FALSE
