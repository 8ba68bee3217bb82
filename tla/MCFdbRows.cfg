SPECIFICATION Spec
CONSTANTS
  f1 = f1
  f2 = f2
  f3 = f3
  d0 = d0
  d1 = d1
  Files = {f1, f2, f3}
  Dirs = {d0, d1}
  Root = d0
  Entries <- MCEntries
  PathLen <- MCPathLen
  Workers = {w1, w2}
  Junk = Junk
  NoFile = NoFile
  Failures = {}
  MaxRuns = 1
INVARIANT RowDescribesItsFile
