\* Two producers, two event ids and two publications: of different events or of the
\* same one twice, by the same process or by both.
SPECIFICATION FairSpec
CONSTANTS
  None = None
  Producers = {p1, p2}
  Events = {e1, e2}
  MaxSeq = 2
  MaxRetries = 3
INVARIANTS
  TypeOK
  AckMeansHandled
  HandledTwiceOnlyIfUncertain
  DlqMeansMaxRetries
PROPERTIES
  NoOverwrite
  EventuallyResolved
