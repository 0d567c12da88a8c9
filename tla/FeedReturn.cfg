SPECIFICATION TreeOnly
CONSTANTS
  r1 = r1  r2 = r2  d1 = d1  d2 = d2  f1 = f1  f2 = f2  f3 = f3
  Roots = {r1, r2}
  Subdirs = {d1, d2}
  Files = {f1, f2, f3}
  In <- Tree
  Transcripts = {f1, f2, f3}
  MaxWrites = 1
  NotedCap = 1
  MaxErrors = 1
  MayReturn = {d1}
  MaxRemovals = 1
  MaxRefused = 0
  WslRoots = {r2}
  Seeded = {f1, f2}
  TailCap = 1
  Never = Never
  MaxGrowth = 2
  MaxHours = 1
  MaxFailures = 1
INVARIANT SeenFromHereOn
CHECK_DEADLOCK FALSE
