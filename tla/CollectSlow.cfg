SPECIFICATION CollectSpec
CONSTANTS
  p1 = p1  p2 = p2  p3 = p3  s1 = s1  s2 = s2
  r1 = r1  n1 = n1  n2 = n2
  w1 = w1  k1 = k1
  None = None
  Paths = {p1, p2}
  Sessions = {s1, s2}
  SessionOf <- TwoSessions
  Slow = {p2}
  Torn = {p2}
  Inodes = {n1, n2}
  Lines <- OneLine
  Reqs = {r1}
  Calls = {}
  MaxOut = 1
  Watchers = {}
  Collectors = {k1}
  Apps = {k1}
  Batch = 1
  MaxLines = 1
  MaxMoves = 0
  MaxFaults = 0
PROPERTY PruneDropsOnlyGone
CHECK_DEADLOCK FALSE
