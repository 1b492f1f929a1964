SPECIFICATION Spec
CONSTANTS
  Files = {f1, f2}
  Paths = {p1}
  Keys = {k1, k2}
  Users = {u1}
  None = None
  MaxRequests = 2
  MaxRematches = 1
SYMMETRY Symmetry
CHECK_DEADLOCK FALSE
INVARIANTS
  TypeOK
  
  
PROPERTIES
  ReplacementKeepsTracking
