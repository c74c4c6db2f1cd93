\* Two operations at a time, a restart.
SPECIFICATION FairSpec
CONSTANTS
  Ops = {o1, o2}
  MaxGens = 6
  MaxBegun = 5
  MaxRestarts = 1
INVARIANTS
  DisposedIsGone
  InstanceMatchesRecord
PROPERTIES
  OpsEnd
CHECK_DEADLOCK FALSE
