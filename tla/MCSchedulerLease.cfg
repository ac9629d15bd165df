CONSTANTS
  Schedulers = {s1, s2}
  Registry = 2
  Lease = 2
  Interval <- MCInterval
  MaxTime = 6
  MaxCrashes = 1
SPECIFICATION Spec
INVARIANTS
  OverlapOnlyAfterLease
  LiveRunIsRecorded
PROPERTIES
  ExpiredIsRetaken
CHECK_DEADLOCK FALSE
