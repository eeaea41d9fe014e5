SPECIFICATION Spec
CONSTANTS
  m1 = m1
  m2 = m2
  s1 = s1
  s2 = s2
  w1 = w1
  w2 = w2
  i1 = i1
  Monitor = {m1, m2}
  NoMonitor = NoMonitor
  Site = {s1, s2}
  Identity = {i1}
  Worker = {w1, w2}
  Interval = {1}
  ClaimSeconds = 1
  RenewalSeconds = 1
  Retention = 1
  MaxLag = 0
  Stalling = {w1, w2}
  MaxRepeat = 2
  MaxTime = 2
  MaxEvents = 2
  MaxClaims = 2
CHECK_DEADLOCK FALSE
INVARIANTS TypeOK SnapshotsInClaimOrder RevokedNeverSaves HistoryTellsStatus
PROPERTIES AcknowledgementSticks RecentHistoryKept
SYMMETRY MonitorAndWorkerSymmetry
