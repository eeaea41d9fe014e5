SPECIFICATION Spec
CONSTANTS
  root = root
  a = a
  b = b
  c = c
  v = v
  x = x
  s1 = s1
  t = t
  None = None
  Url = {root, a, b, c}
  Root = root
  Variant = {}
  Of <- MCOf
  Poison = {}
  Sitemap = {s1}
  Default = s1
  Title = {t}
  MaxPages = 4
  MaxDepth = 1
  MaxLinks = 3
  MaxSitemaps = 1
  MaxIssues = 3
  MaxListed = 1
  MaxFound = 3
  MaxFaults = 1
INVARIANTS OrphansAreUnlinked
CHECK_DEADLOCK FALSE
