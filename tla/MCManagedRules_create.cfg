SPECIFICATION Spec
CONSTANTS
  c1 = c1
  c2 = c2
  p1 = p1
  p2 = p2
  k = k
  a = a
  b = b
  Foreign = Foreign
  NoCall = NoCall
  Call = {c1, c2}
  Body = {a, b}
  Process = {p1, p2}
  Key = {k}
  MaxId = 3
  MaxForeign = 1
  MaxLate = 1
INVARIANTS OwnersRules
SYMMETRY Sym
CHECK_DEADLOCK FALSE
