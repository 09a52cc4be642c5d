\* Two phases, so that one is done when the other fails.
SPECIFICATION Spec
CONSTANTS
  N = 2
  None = None
INVARIANTS
  NoPartialCommit
