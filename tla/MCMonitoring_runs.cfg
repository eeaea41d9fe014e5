SPECIFICATION Spec
CONSTANTS
  m1 = m1
  m2 = m2
  w1 = w1
  w2 = w2
  Monitor = {m1, m2}
  NoMonitor = NoMonitor
  Site = {s1}
  s1 = s1
  Identity = {}
  Worker = {w1, w2}
  Interval = {1}
  ClaimSeconds = 4
  RenewalSeconds = 1
  Retention = 9
  MaxLag = 1
  Stalling = {w2}
  MaxRepeat = 0
  MaxTime = 6
  MaxEvents = 3
  MaxClaims = 2
SYMMETRY MonitorSymmetry
CHECK_DEADLOCK FALSE
INVARIANT LiveRunKeepsClaim
PROPERTY LeasesHonoured
