\* Liveness: executors may hang, the timeout does not.  Ids that are no
\* idempotency keys.
SPECIFICATION FairSpec
CONSTANTS
  MaxTasks = 2
  MessageIds = {m1}
  EmptyId = EmptyId
  AbsentId = AbsentId
  Calls = {c1, c2}
  MaxConcurrentTasks = 1
  TaskTimeout = TRUE
  Reportable <- MCReportable
  Wire <- MCWireLive
  MaxRestarts = 0
INVARIANTS
  TypeOK
PROPERTIES
  CallersAnswered
  ImplementsFairContract
CHECK_DEADLOCK FALSE
