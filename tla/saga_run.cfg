\* Four phases: one that fails, one that crashes, and a DONE phase before and
\* after which the order of the undo chain shows.
SPECIFICATION FairSpec
CONSTANTS
  N = 4
  None = None
INVARIANTS
  TypeOK
  DoneMeansAll
  CompensatedMeansNone
  UndoFailureReported
  ReverseOrder
  RepeatedOnlyByExecute
PROPERTIES
  StartedInOrder
  Settles
