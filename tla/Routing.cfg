SPECIFICATION FairSpec
CONSTANTS
  f1 = f1
  f2 = f2
  s1 = s1
  s2 = s2
  Files = {f1, f2}
  Slots = {s1, s2}
  FirstSlot <- OneHomeless
  NoSlot = NoSlot
  Foreign = Foreign
  Occupied = {s2}
  KnownSize = {f1, f2}
  MaxSuffix = 4
  Runs = {r1}
  TrackingRaises = TRUE
  MaxLost = 2
  MaxRequests = 2
  Nothing = Nothing
  NoFile = NoFile
  NoPlace = NoPlace
PROPERTIES RetryFindsTheMoveUnlessVacated RoutingEnds
INVARIANTS
  TypeOK
  ContentKept
  RoutedHoldsOwnUnlessVacated
CHECK_DEADLOCK FALSE
