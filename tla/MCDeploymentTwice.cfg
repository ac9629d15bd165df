CONSTANTS
  r1 = r1
  Workers = {w1, w2}
  Admins = {}
  Releases = {r1}
  Gated = {r1}
  Deliveries = {d1}
  Hosts = 2
  BatchSize = 1
  Targets <- MCTargets
  NoTarget = NoTarget
  MaxJobs = 2
  MaxApprovals = 2
  MaxCI = 1
  MaxTimeouts = 0
  MaxCrashes = 0
SPECIFICATION Safety
INVARIANT DeployedByOne
CHECK_DEADLOCK FALSE
