\* Two tasks, two messages, three operations, one failed write and one crash.
SPECIFICATION Spec
CONSTANTS
  Tasks = {1, 2}
  i1 = i1
  i2 = i2
  m0 = m0
  m1 = m1
  Instances = {i1, i2}
  Messages = {m0, m1}
  Tables <- MCTables
  MaxOps = 3
  MaxFails = 1
  MaxCrashes = 1
INVARIANTS
  TableTrailsLive
  AcceptedOnce
  UntouchedNeverMissed
PROPERTIES
  FirstInputStays
CHECK_DEADLOCK FALSE
