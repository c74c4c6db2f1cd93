\* One page, five versions, one click, one restart.
SPECIFICATION UpdateSpec
CONSTANTS
  Panels = {p1}
  Ascending <- MCAscending
  Manifests <- MCManifests
  Odd = Odd
  Absent = Absent
  Ttl = 2
  MaxClock = 3
  MaxClicks = 1
  MaxRestarts = 1
INVARIANTS
  UpdateHonest
  AnswersFresh
PROPERTIES
  ChecksEnd
CHECK_DEADLOCK FALSE
