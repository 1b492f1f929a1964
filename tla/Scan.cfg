SPECIFICATION FairSpec
CONSTANTS
  root = root
  d1 = d1
  d2 = d2
  f0 = f0
  f2 = f2
  Roots = {root}
  Directories = {d1, d2}
  Files = {f0, f2}
  Parent <- Tree
  Noscan = {d2}
  Scans = {a1}
  Seeds = {b1}
  BatchSize = 1
  MaxFaults = 1
INVARIANTS
  TypeOK
  KnownIsRecordedUnlessLate
PROPERTIES
  RecordedInTheEnd
