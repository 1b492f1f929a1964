\* No user requests: dispatch, redelivery and time limits only.
SPECIFICATION FairSpec
CONSTANTS
  Tasks = {t1, t2}
  Clients = {}
  Dispatchers = {d1}
  Kinds = {"reuse", "beat"}
  MaxLost = 2
  LostReplies = FALSE
  NoTask = NoTask
INVARIANTS
  SettledWorkIsOver
  
PROPERTIES
  BoardSpec
  
CHECK_DEADLOCK FALSE
