CONSTANTS
  p1 = p1
  p2 = p2
  NoCall = NoCall
  Garbage = Garbage
  Callers = {p1, p2}
  MaxConns = 2
  Shutdowns = 1
  IdSpace = 4
SPECIFICATION Spec
INVARIANT AnswersOwn
CHECK_DEADLOCK FALSE
