SPECIFICATION Spec
CONSTANTS
  Users = {u1, u2, u3}
  Requests = {q1, q2}
  Nobody = Nobody
  MaxRevisions = 1
  MaxVersions = 2
  MaxCrashes = 1
INVARIANTS
  ThreePersons
  OnePublisher
  NoChangeLost
PROPERTIES
  ClaimSettles
CHECK_DEADLOCK FALSE
