SPECIFICATION FairSpec
CONSTANTS
  f1 = f1
  f2 = f2
  Files = {f1, f2}
  Noscan = {f2}
  Tagged = {f1}
  Bad = {}
  Unwanted = {f1}
  r1 = r1
  r2 = r2
  Runs = {r1, r2}
  MaxWorkers = 2
  MaxTroubles = 1
  SlowTransfers = FALSE
  NoRun = NoRun
INVARIANTS
  
  DownloadedIsWhole
PROPERTIES
  NoRowIsStuck
