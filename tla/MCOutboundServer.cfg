\* Two operations at a time, a restart.
SPECIFICATION FairSpec
CONSTANTS
  Ops = {o1, o2}
  Kinds = {"add", "toggle", "refresh", "edit", "remove"}
  MaxConns = 4
  MaxGens = 2
  MaxBegun = 4
  MaxRestarts = 1
INVARIANTS
  ConnectedHasTools
  QuietIsConsistent
PROPERTIES
  OpsEnd
CHECK_DEADLOCK FALSE
