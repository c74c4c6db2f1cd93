\* Two servers, two tasks, two peers, three requests, of which two wait, two edits;
\* an instance runs one task at a time.
SPECIFICATION Spec
CONSTANTS
  Servers = {1, 2}
  t1 = t1
  t2 = t2
  p1 = p1
  p2 = p2
  c1 = c1
  c2 = c2
  Tasks = {t1, t2}
  Peers = {p1, p2}
  Calls = {c1, c2}
  MaxConcurrent = 1
  MaxRequests = 3
  MaxEdits = 2
SYMMETRY Symmetry
INVARIANTS
  WaitersReached
  StreamsCounted
PROPERTIES
  SettledByOneInstance
CHECK_DEADLOCK FALSE
