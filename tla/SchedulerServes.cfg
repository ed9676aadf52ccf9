CONSTANTS
  c1 = c1
  c2 = c2
  w1 = w1
  w2 = w2
  Clients = {c1}
  Workers = {w1, w2}
  QueueCap = 1
  MaxTasks = 5
  MaxParents = 2
  Stoppers = {c1}
SPECIFICATION FairSpec
INVARIANTS
  ActiveCount
  RunOnce
PROPERTIES
  ResultsReported
  TasksComplete
  CallsReturn
  WorkersTerminate
CHECK_DEADLOCK FALSE
