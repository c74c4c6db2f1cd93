\* Both modes, the default number of retries.
SPECIFICATION FairSpec
CONSTANTS
  Modes = {"poll", "stream"}
  Retries = 2
INVARIANTS
  ResultIsFinal
  PollAbortPropagates
PROPERTIES
  CallEnds
CHECK_DEADLOCK FALSE
