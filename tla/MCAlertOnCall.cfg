CONSTANTS
  Reporters = {r1}
  Operators = {o1}
  Scanners = {n1, n2}
  Services = {v1}
  NoService = NoService
  MaxAlerts = 1
  MaxCrashes = 1
SPECIFICATION Spec
INVARIANTS
  TypeOK
  BackupOnce
PROPERTIES
  EscalatesOnlyOpen
  SettledStands
  DueSettles
  ClaimedSettles
CHECK_DEADLOCK FALSE
