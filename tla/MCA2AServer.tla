----------------------------- MODULE MCA2AServer -----------------------------
(***************************************************************************)
(* Small instances of A2AServer.  Request slots and message ids are        *)
(* interchangeable; tasks are not, they are named in order of creation.    *)
(***************************************************************************)
EXTENDS A2AServer, TLC

MCSymmetry == Permutations(Calls) \cup Permutations(MessageIds)

\* Every state an executor's status event may carry.
MCReportable == {"WORKING", "INPUT_REQUIRED"}

\* Blocking and streaming messages, new ones and continuations.
MCWire ==
  [kind : {"send", "stream"}, target : Tasks \cup {NoTask}, id : MessageIds]

\* A streaming client that retries by id, a blocking one without ids that also
\* continues the first task, and one that continues it and waits for nothing.
MCWireLive ==
  [kind : {"stream"}, target : {NoTask}, id : MessageIds]
    \cup [kind : {"send"}, target : {NoTask, 1}, id : {EmptyId}]
    \cup [kind : {"immediate"}, target : {1}, id : {AbsentId}]
=============================================================================
