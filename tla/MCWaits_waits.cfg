SPECIFICATION WaitsSpec
CONSTANTS
  k1 = k1
  k2 = k2
  k3 = k3
  Caller = {k1, k2, k3}
  MaxCrashes = 1
  m1 = m1
  m2 = m2
  m3 = m3
  s1 = s1
  r1 = r1
  None = None
  Dead = Dead
  Monitor = {m1, m2, m3}
  Scheduler = {s1}
  Requester = {r1}
  MaxDeaths = 1
  l1 = l1
  l2 = l2
  l3 = l3
  NoConnection = NoConnection
  Connection = {l1, l2, l3}
  c1 = c1
  c2 = c2
  NoCall = NoCall
  p1 = p1
  a = a
  NoRecord = NoRecord
  Call = {c1, c2}
  Provider = {p1}
  Listing = {a}
  MaxTokens = 2
  MaxAuths = 0
INVARIANTS OneAudit BusyIsTrue OneValidatedCode
PROPERTIES SlotFreed CallersAnswered DueMonitorsComplete WaiterReturns CallsEnd
CHECK_DEADLOCK FALSE
