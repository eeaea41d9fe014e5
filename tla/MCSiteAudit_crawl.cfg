SPECIFICATION Spec
CONSTANTS
  root = root
  a = a
  b = b
  c = c
  v = v
  x = x
  s1 = s1
  s2 = s2
  s3 = s3
  t = t
  None = None
  Url = {root, a, b, c}
  Root = root
  Variant = {v, x}
  Of <- MCOf
  Poison = {x, s3}
  Sitemap = {s1, s2, s3}
  Default = s1
  Title = {t}
  MaxPages = 4
  MaxDepth = 2
  MaxLinks = 1
  MaxSitemaps = 2
  MaxIssues = 3
  MaxListed = 1
  MaxFound = 3
  MaxFaults = 1
INVARIANTS FetchedOnce ShortestDepth CompleteWithinLimits NothingDropped OrphansExplained
CHECK_DEADLOCK FALSE
