SPECIFICATION Spec
CONSTANTS
  Procs = {p1, p2}
  Every = 2
  MaxEvents = 3
  MaxCrashes = 1
INVARIANTS
  NoLostCommit
