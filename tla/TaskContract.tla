---------------------------- MODULE TaskContract ----------------------------
(***************************************************************************)
(* What the A2A endpoint promises about tasks, and nothing of how: a task  *)
(* is born working (or already failed, when it is over quota), may pause   *)
(* for input and be taken up again by a further message, and settles once  *)
(* and for all.  A client message id belongs to the task that accepted it: *)
(* it never creates a second task and never gives a task a second turn.    *)
(***************************************************************************)
EXTENDS A2AProtocol

CONSTANTS Task,      \* task ids
          MessageId  \* client message ids (idempotency keys)

VARIABLES state,     \* state[t]: the lifecycle state of task t
          accepted   \* accepted[t]: the message ids task t has accepted

vars == <<state, accepted>>

-----------------------------------------------------------------------------
Init == /\ state = [t \in Task |-> ABSENT]
        /\ accepted = [t \in Task |-> {}]

\* A turn begins, or fails at once.
Begin(t) == \E s \in {"WORKING", "FAILED"} : state' = [state EXCEPT ![t] = s]

\* ids is the singleton of the message's id, or empty when it carries none.
Ids == {{}} \cup {{m} : m \in MessageId}

Create(t) == /\ state[t] = ABSENT
             /\ Begin(t)
             /\ \E ids \in Ids :
                   /\ \A u \in Task : ids \cap accepted[u] = {}
                   /\ accepted' = [accepted EXCEPT ![t] = ids]

Continue(t) == /\ state[t] \in ActiveStates \cup INTERRUPTED_STATES
               /\ Begin(t)
               /\ \E ids \in Ids :
                     /\ ids \cap accepted[t] = {}
                     /\ accepted' = [accepted EXCEPT ![t] = @ \cup ids]

\* The task reports a status of its own.
Report(t) == /\ state[t] \in ActiveStates \cup INTERRUPTED_STATES
             /\ \E s \in ActiveStates \cup INTERRUPTED_STATES :
                   state' = [state EXCEPT ![t] = s]
             /\ UNCHANGED accepted

Settle(t) == /\ state[t] \in ActiveStates \cup INTERRUPTED_STATES
             /\ \E s \in TERMINAL_STATES : state' = [state EXCEPT ![t] = s]
             /\ UNCHANGED accepted

\* An active task stops being active: it settles or asks for input.
Pause(t) == /\ state[t] \in ActiveStates
            /\ \E s \in TERMINAL_STATES \cup INTERRUPTED_STATES :
                  state' = [state EXCEPT ![t] = s]
            /\ UNCHANGED accepted

Next == \E t \in Task : Create(t) \/ Continue(t) \/ Report(t) \/ Settle(t)

Spec == Init /\ [][Next]_vars

\* While the process lives, an active task does not stay active for ever.
FairSpec == Spec /\ \A t \in Task : WF_vars(Pause(t))
=============================================================================
