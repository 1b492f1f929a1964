SPECIFICATION Spec
CONSTANTS
  s1 = s1
  e1 = e1
  Runs = {task, sync}
  Reporting = {task}
  Users = {u1}
  Files = {f1, f2}
  Shows = {s1, m1}
  Episodes = {e1}
  ShowOf <- MCShowOf
  Movies = {m1}
  None = None
  MaxRequests = 1
  MaxLoads = 2
  MaxAborts = 1
SYMMETRY Symmetry
CHECK_DEADLOCK FALSE
INVARIANTS
  TypeOK
  EpisodeOfItsShowUnlessRaced
PROPERTIES
  DecisionsLast
