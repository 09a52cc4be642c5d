\* Two producers, and one event that is published once: whatever the handler is
\* given after the dead letter is the file the dead letter was made from.
SPECIFICATION Spec
CONSTANTS
  None = None
  Producers = {p1, p2}
  Events = {e1}
  MaxSeq = 1
  MaxRetries = 3
PROPERTIES
  DlqIsFinal
