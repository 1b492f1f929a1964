\* Users cancel and delete while dispatchers and workers run.
SPECIFICATION Spec
CONSTANTS
  Tasks = {t1}
  Clients = {c1, c2}
  Dispatchers = {d1}
  Kinds = {"trigger", "beat"}
  MaxLost = 2
  LostReplies = TRUE
  NoTask = NoTask

  
PROPERTIES
  FinalUnlessRaced
CHECK_DEADLOCK FALSE
