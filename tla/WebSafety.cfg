CONSTANTS
  Keys = {k1}
  k1 = k1
  Limit = 1
  Win = 2
  MaxHits = 5
  MaxTime = 1
  MaxLimiterTime = 5
  Numbers = {"7"}
  Uuids = {"u"}
  Scripts <- MCScripts
  Requests <- MCRequests
  Prefixed <- MCPrefixed
  Goroutines = {g1, g2}
  g1 = g1
  g2 = g2
  c1 = c1
  c2 = c2
  c3 = c3
  b1 = b1
  b2 = b2
  Clients = {c1, c2, c3}
  Id <- MCIds
  Casts = {b1, b2}
  Capacity = 1
SPECIFICATION MCSpec
INVARIANTS RoutesRight RepliesRight LimitExact SocketsRight
PROPERTY BroadcastsReturn
CHECK_DEADLOCK FALSE
