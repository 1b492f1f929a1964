\* Two subscriptions and a feed; two publishes, two edits, one failure.
CONSTANTS
  Names = {n1, n2}
  Feeds = {f1}
  None = None
  Torn = Torn
  Down = Down
  Imports = {}
  Publishes = {p1, p2}
  StopCommand = TRUE
  MaxEdits = 2
  MaxFaults = 1
CHECK_DEADLOCK FALSE
SPECIFICATION FairSpec
INVARIANTS TypeOK  
PROPERTY DelugeComesBack
