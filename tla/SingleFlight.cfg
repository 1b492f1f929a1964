SPECIFICATION FairFlightSpec
CONSTANTS
  Callers = {b1, b2, n1}
  Bypassing = {b1, b2}
  Foreign = {x1}
  MaxRounds = 2
  MaxTroubles = 1
  NoCaller = NoCaller
CHECK_DEADLOCK FALSE
INVARIANTS
  OneProducer
  WaitersAreServed
  BypassIsFreshUnlessCareless
PROPERTIES
  FailFastIsEarned
  CallsEnd
