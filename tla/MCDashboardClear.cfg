\* One page, one inbound server with a token, two submissions.
SPECIFICATION Spec
CONSTANTS
  Pages = {p1}
  Tokens = {"t2"}
  Created <- MCCreated
  MaxIds = 2
  MaxJobs = 2
INVARIANTS
  TokenAsAsked
CHECK_DEADLOCK FALSE
