CONSTANTS
  a1 = a1
  a2 = a2
  rb = rb
  cmd = cmd
  undo = undo
  adhoc = adhoc
  Workers = {w1}
  Admins = {a1, a2}
  Direct = {}
  Runbook = {}
  Adhoc = {adhoc}
  Targets = {}
  Requester <- MCRequester
  RollbackOf <- MCRollbackOf
  Retries = 0
  NoTarget = NoTarget
  MaxJobs = 2
  MaxCrashes = 0
SPECIFICATION Safety
INVARIANT ApprovalExecutesOnce
CHECK_DEADLOCK FALSE
