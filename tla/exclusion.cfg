SPECIFICATION Spec
CONSTANTS
  None = None
  Keys <- MCKeys
  Threads <- MCThreads
  HolderOf <- MCHolderOf
  LockTTL = 1
  LockMaxAge = 1
  Capacity <- MCCapacity
  Channels <- MCChannels
  RoomTTL = 2
  Procs <- MCProcs
  SectionTTL = 2
  Refractory = 1
  SectionMaxAge = 1
  MaxBlock = 2
  Processes <- MCProcs
  N = 2
  PipeTTL = 1
INVARIANTS
  GrantsHold
  RunsOnce
PROPERTY
  ImplementLease
