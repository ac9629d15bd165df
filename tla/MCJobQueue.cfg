CONSTANTS
  Workers = {w1, w2}
  Targets = {t1}
  NoTarget = NoTarget
  MaxJobs = 3
  ClaimBatch = 2
  SweepBatch = 1
  MaxCrashes = 1
SPECIFICATION JobSpec
INVARIANTS
  ExclusiveWork
  ClaimedOnce
PROPERTIES
  SettledForGood
  ImplementsWorkQueue
  RowsSettle
