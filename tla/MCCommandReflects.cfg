CONSTANTS
  a1 = a1
  a2 = a2
  rb = rb
  cmd = cmd
  undo = undo
  adhoc = adhoc
  Workers = {w1, w2}
  Admins = {a1}
  Direct = {}
  Runbook = {rb}
  Adhoc = {}
  Targets = {rb}
  Requester <- MCRequester
  RollbackOf <- MCRollbackOf
  Retries = 0
  NoTarget = NoTarget
  MaxJobs = 1
  MaxCrashes = 0
SPECIFICATION Safety
INVARIANT ApprovalReflectsResult
CHECK_DEADLOCK FALSE
