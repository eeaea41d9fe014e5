SPECIFICATION TokenSpec
CONSTANTS
  c1 = c1
  c2 = c2
  NoCall = NoCall
  p1 = p1
  p2 = p2
  a = a
  b = b
  NoRecord = NoRecord
  Call = {c1, c2}
  Provider = {p1, p2}
  Listing = {a, b}
  MaxTokens = 3
  MaxAuths = 1
SYMMETRY Symmetry
CHECK_DEADLOCK FALSE
INVARIANTS RotationKept
PROPERTIES DeletedAfterRevocation
