SPECIFICATION Spec
CONSTANTS
  c1 = c1
  c2 = c2
  p1 = p1
  k = k
  l = l
  a = a
  b = b
  Foreign = Foreign
  NoCall = NoCall
  Call = {c1, c2}
  Body = {a, b}
  Process = {p1}
  Key = {k, l}
  MaxId = 3
  MaxForeign = 1
  MaxLate = 2
INVARIANTS ForeignKept OneManagedRule ReceiptsTrue
SYMMETRY Sym
CHECK_DEADLOCK FALSE
