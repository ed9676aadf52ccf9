CONSTANTS
  c1 = c1
  c2 = c2
  c3 = c3
  l1 = l1
  l2 = l2
  t1 = t1
  Clients = {c1, c2}
  Loops = {l1}
  Types = {t1}
  Capacity = 1
  MaxOps = 3
  CallsOf <- LateOnCalls
  Registered = {}
  NoMessage = NoMessage
SPECIFICATION FairSpec
PROPERTY SendsReturn
CHECK_DEADLOCK FALSE
