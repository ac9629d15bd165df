CONSTANTS
  a1 = a1
  a2 = a2
  rb = rb
  cmd = cmd
  undo = undo
  adhoc = adhoc
  Workers = {w1, w2}
  Admins = {a1}
  Direct = {cmd}
  Runbook = {rb}
  Adhoc = {adhoc}
  Targets = {cmd, rb}
  Requester <- MCRequester
  RollbackOf <- MCRollbackOf
  Retries = 1
  NoTarget = NoTarget
  MaxJobs = 1
  MaxCrashes = 1
SPECIFICATION Spec
PROPERTIES
  CommandsConclude
  ExpiryConcludes
CHECK_DEADLOCK FALSE
