\* Three shows, one odd and one gone; two places in a run; a free entry.
CONSTANTS
  odd = odd
  gone = gone
  plain = plain
  spare = spare
  N = 3
  Entries = {odd, gone, plain, spare}
  Home <- AtHome
  Odd = {odd}
  Zero = {gone}
  Gone = {gone}
  Cards = {2, 3}
  Rss = {1}
  Old = {}
  Limit = 2
  StaleDays = 2
  AiringDays = 2
  EndedDays = 3
  MaxAge = 3
  MaxFaults = 1
  MaxChanges = 1
  MaxRequests = 1
CHECK_DEADLOCK FALSE
SPECIFICATION FairRefreshSpec
INVARIANTS RefreshTypeOK
PROPERTIES  MetadataHeals
