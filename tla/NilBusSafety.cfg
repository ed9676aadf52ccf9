CONSTANTS
  p1 = p1
  p2 = p2
  NoCall = NoCall
  Garbage = Garbage
  Callers = {p1, p2}
  MaxConns = 1
  Shutdowns = 1
  IdSpace = 4
SPECIFICATION Spec
INVARIANTS
  PendingInProgress
  AnswersOwn
  SuccessPosted
CHECK_DEADLOCK FALSE
SYMMETRY Symmetry
