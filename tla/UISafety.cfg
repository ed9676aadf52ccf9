CONSTANTS
  Threads = {t1, t2, t3}
  t1 = t1
  t2 = t2
  t3 = t3
  Programs <- MCPrograms
  MaxHandles = 1
  MaxVMs = 2
  Setters = {p1, p2}
  p1 = p1
  p2 = p2
  Listeners = {l1, l2, ui}
  l1 = l1
  l2 = l2
  ui = ui
  Component = ui
  MaxSets = 2
  LastFirst = TRUE
  Trees <- MCTrees
  Pixel = 60
  Screens <- MCScreens
  Scripts <- MCScripts
SPECIFICATION MCSpec
INVARIANTS
  TreesWhole
  ListenersServed
  ComponentFollows
  TouchTopmost
  ChildrenFit
PROPERTIES PatchesRight CallsReturn
CHECK_DEADLOCK FALSE
