\* Two processes, three lines, a snapshot after the second and one crash: an
\* event after the snapshot, an unfinished line that another runs into, and two
\* claims of the same stale lock.
SPECIFICATION FairSpec
CONSTANTS
  Procs = {p1, p2}
  Every = 2
  MaxEvents = 3
  MaxCrashes = 1
INVARIANTS
  TypeOK
  Exclusion
  NoGaps
  NoDuplicates
  SnapshotFaithful
  CommittedKept
PROPERTIES
  LockReclaimed
