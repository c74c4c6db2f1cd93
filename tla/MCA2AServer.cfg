\* Safety: two tasks, two request slots, two message ids, quota of one run, one
\* restart.
SPECIFICATION Spec
CONSTANTS
  MaxTasks = 2
  MessageIds = {m1, m2}
  EmptyId = EmptyId
  AbsentId = AbsentId
  Calls = {c1, c2}
  MaxConcurrentTasks = 1
  TaskTimeout = TRUE
  Reportable <- MCReportable
  Wire <- MCWire
  MaxRestarts = 1
SYMMETRY MCSymmetry
INVARIANTS
  Idempotent
  QuotaRespected
  NoStrandedWaiter
  ErrorTellsWhy
PROPERTIES
  TerminalIsFinal
  OnlyRestartOrphans
  OneExecutorPerTask
  NoEarlyRelease
  ImplementsContract
CHECK_DEADLOCK FALSE
