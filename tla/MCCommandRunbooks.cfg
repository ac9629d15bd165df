CONSTANTS
  a1 = a1
  a2 = a2
  rb = rb
  cmd = cmd
  undo = undo
  adhoc = adhoc
  Workers = {w1, w2}
  Admins = {a1, a2}
  Direct = {}
  Runbook = {rb, undo}
  Adhoc = {}
  Targets = {rb, undo}
  Requester <- MCRequester
  RollbackOf <- MCRollbackOf
  Retries = 0
  NoTarget = NoTarget
  MaxJobs = 2
  MaxCrashes = 0
SPECIFICATION Safety
SYMMETRY MCSymmetry
INVARIANTS
  NoReplay
  SoleExecutor
  OnlyGranted
  RollbackOnEvidence
PROPERTIES
  EvidenceIsFinal
  OutcomeStands
CHECK_DEADLOCK FALSE
