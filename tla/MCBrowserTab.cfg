SPECIFICATION TabSpec
CONSTANTS
  PrometheusIds = {p1, p2}
  AlertmanagerIds = {m1}
  Keywords = {cpu}
  Kinds = {"targets", "alerts"}
  None = None
  MaxPanels = 2
  MaxVersions = 3
  MaxLoads = 2
  MaxOutstanding = 1
  DashboardIds = {d1, d2}
  NoSource = NoSource
  MaxRequests = 4
  LoadSlots = {s1, s2, s3}
  Investigations = {i1, i2, i3}
  Nobody = Nobody
  MaxRequestId = 4
SYMMETRY MCSources
INVARIANTS
  AnswersBelong
  SpinnerHasCause
  DashboardNeverBlank
  OnePoller
  PollingGoesOn
  LatestOpenWins
  FeedbackBelongs
CHECK_DEADLOCK FALSE
