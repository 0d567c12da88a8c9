SPECIFICATION Spec
CONSTANTS
  p1 = p1  p2 = p2  s1 = s1
  r1 = r1  c1 = c1
  n1 = n1  n2 = n2
  w1 = w1  k1 = k1
  None = None
  Paths = {p1, p2}
  Sessions = {s1}
  SessionOf <- TwoPaths
  Slow = {p2}
  Torn = {p1}
  Inodes = {n1, n2}
  Lines <- MCLines
  Reqs = {r1}
  Calls = {c1}
  MaxOut = 1
  Watchers = {}
  Collectors = {k1}
  Batch = 1
  MaxLines = 2
  MaxMoves = 1
  MaxFaults = 1
INVARIANTS CursorCovers
CHECK_DEADLOCK FALSE
