\* One context: two turns, one of them abortable, and a delegation; a session
\* closed by hand, an unload by two executors.
SPECIFICATION FairSpec
CONSTANTS
  Contexts = {x1}
  NoContext = NoContext
  NoTurn = NoTurn
  Turns = {a, b}
  Delegations = {d}
  Abortable = {a}
  MaxHandles = 3
  MaxCloses = 1
  Rounds = 2
INVARIANTS
  TurnsInOrder
  OneOpenSession
  TeardownComplete
PROPERTIES
  CallersEnd
CHECK_DEADLOCK FALSE
