CONSTANTS
  p1 = p1
  p2 = p2
  NoCall = NoCall
  Garbage = Garbage
  Callers = {p1}
  MaxConns = 2
  Shutdowns = 2
  IdSpace = 2
SPECIFICATION FairSpec
PROPERTIES
  CallsReturn
  LoopsGoOn
CHECK_DEADLOCK FALSE
