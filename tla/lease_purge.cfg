\* Two processes and one resource; five tokens are as many as can be referred to at
\* once, so that uuid4 never runs dry.
SPECIFICATION Spec
CONSTANTS
  None = None
  Procs = {p1, p2}
  Resources = {r1}
  Tokens = {t1, t2, t3, t4, t5}
  TTL = 1
  MaxDelay = 1
PROPERTIES
  PurgeTakesOnlyExpired
