SPECIFICATION Spec
CONSTANTS
  f1 = f1
  f2 = f2
  f3 = f3
  d0 = d0
  d1 = d1
  Files = {f2, f3}
  Dirs = {d0, d1}
  Root = d0
  Entries <- MCEntries
  PathLen <- MCPathLen
  Workers = {w1, w2}
  Junk = Junk
  NoFile = NoFile
  Failures = {"access", "open", "create", "codes", "allocator", "pool", "push", "cancel", "sqlite", "kill"}
  MaxRuns = 2
INVARIANTS
  TypeOK
  NoUseAfterClose
  OneRowPerName
  CountersNeverAhead
PROPERTIES
  ImplementsTable
