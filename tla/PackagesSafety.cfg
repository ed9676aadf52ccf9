CONSTANTS
  Processes = {p1, p2}
  p1 = p1
  p2 = p2
  Names <- MCNames
  Versions <- MCVersions
  Manifests <- MCManifests
  Locks <- MCLocks
  MaxRuns = 3
  Absent = Absent
SPECIFICATION Spec
INVARIANTS
  LockCurrent
  EditsExact
SYMMETRY Symmetry
CHECK_DEADLOCK FALSE
