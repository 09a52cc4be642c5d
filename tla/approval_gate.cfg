\* Two processes, two dual approvals, one append: blocks of both kinds race for the
\* tail, and tokens and locks expire while a process waits.
SPECIFICATION Spec
CONSTANTS
  None = None
  Procs = {p1, p2}
  Duals = {d1, d2}
  TTL = 1
  MaxTime = 1
  MaxAppends = 1
SYMMETRY Symmetry
INVARIANTS
  TypeOK
  SpentOnce
  DeployExclusion
  ChainIntact
PROPERTIES
  RevokedStaysRevoked
