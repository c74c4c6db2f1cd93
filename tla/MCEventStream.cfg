\* Three turns, a log of three frames, one client that comes and goes, starts turns
\* and resumes with its cursor or without.
SPECIFICATION Spec
CONSTANTS
  Clients = {c1}
  MaxLog = 3
  MaxEvents = 6
  MaxTurns = 3
INVARIANTS
  StatusFaithful
  ArtifactFaithfulInTurn
CHECK_DEADLOCK FALSE
