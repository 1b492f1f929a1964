\* Two shows of two seasons; a request, an import in each mode and the syncs; one failure.
CONSTANTS
  s1 = s1
  s2 = s2
  Shows = {s1, s2}
  Seasons = 2
  None = None
  Creates = {c1}
  Imports = {i1}
  Syncs = {y1}
  Lists <- Paths
  Modes = {"full", "shows_only", "episodes_only"}
  MaxFaults = 1
CHECK_DEADLOCK FALSE
SPECIFICATION FairSpec
INVARIANTS TypeOK  
PROPERTY CatalogueHeals
