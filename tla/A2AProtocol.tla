----------------------------- MODULE A2AProtocol -----------------------------
(***************************************************************************)
(* The task lifecycle states of src/protocol.ts, shared by every module    *)
(* that speaks of tasks.  A state is the enum member's name; ABSENT stands *)
(* for a task id the store does not hold.                                  *)
(***************************************************************************)

ABSENT == "ABSENT"

TERMINAL_STATES == {"COMPLETED", "FAILED", "CANCELED", "REJECTED"}

INTERRUPTED_STATES == {"INPUT_REQUIRED", "AUTH_REQUIRED"}

ActiveStates == {"SUBMITTED", "WORKING"}

TaskState == ActiveStates \cup INTERRUPTED_STATES \cup TERMINAL_STATES

IsTerminal(s) == s \in TERMINAL_STATES

\* What waitTerminal() takes for an answer: the task settled or asks for input.
IsSettled(s) == s \in TERMINAL_STATES \cup INTERRUPTED_STATES
=============================================================================
