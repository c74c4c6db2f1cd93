--------------------------- MODULE A2AServerProofs ---------------------------
(***************************************************************************)
(* Proofs about A2AServer, for every number of tasks, requests and message *)
(* ids, every quota and any number of restarts.                            *)
(***************************************************************************)
EXTENDS A2AServer, FiniteSetTheorems, TLAPS

-----------------------------------------------------------------------------
(* Type correctness *)

\* What every segment that answers or blocks a request does to the calls.
LEMMA LeaveType ==
  ASSUME TypeOK, NEW c \in Calls, NEW p \in Phases, NEW t \in Tasks \cup {NoTask},
         NEW S, Leave(c, p, t, S)
  PROVE  /\ phase' \in [Calls -> Phases]
         /\ onTask' \in [Calls -> Tasks \cup {NoTask}]
         /\ request' \in [Calls -> Requests]
BY DEF TypeOK, Leave, Phases, NoTask, NoRequest, Requests, Ids

LEMMA WakeType ==
  ASSUME TypeOK, NEW S, Wake(S)
  PROVE  phase' \in [Calls -> Phases]
BY DEF TypeOK, Wake, Phases

LEMMA RememberType ==
  ASSUME TypeOK, NEW id \in Ids, NEW t \in Tasks, Remember(id, t)
  PROVE  /\ messageIds' \in [Tasks -> SUBSET MessageIds]
         /\ turns' \in [Tasks -> [MessageIds -> Nat]]
BY DEF TypeOK, Remember

LEMMA DecideType ==
  ASSUME TypeOK, NEW t \in Tasks, NEW r \in Races, Decide(t, r)
  PROVE  race' \in [Tasks -> Races]
BY DEF TypeOK, Decide, Races

LEMMA StartRunType ==
  ASSUME TypeOK, NEW c \in Calls, NEW t \in Tasks, StartRun(c, t)
  PROVE  /\ state' \in [Tasks -> TaskState \cup {ABSENT}]
         /\ error' \in [Tasks -> ErrorCodes]
         /\ running' \in SUBSET Tasks
         /\ race' \in [Tasks -> Races]
         /\ executing' \in SUBSET Tasks
         /\ phase' \in [Calls -> Phases]
         /\ onTask' \in [Calls -> Tasks \cup {NoTask}]
         /\ request' \in [Calls -> Requests]
<1>1. ASSUME NEW code \in {"quota", "executor"}, FailAtOnce(c, t, code)
      PROVE  /\ state' \in [Tasks -> TaskState \cup {ABSENT}]
             /\ error' \in [Tasks -> ErrorCodes]
             /\ UNCHANGED run
             /\ phase' \in [Calls -> Phases]
             /\ onTask' \in [Calls -> Tasks \cup {NoTask}]
             /\ request' \in [Calls -> Requests]
  <2>1. PICK p \in {"idle", "woken"} : Leave(c, p, t, Waiters(t))
    BY <1>1 DEF FailAtOnce
  <2>2. p \in Phases
    BY <2>1 DEF Phases
  <2>. QED
    BY <1>1, <2>1, <2>2, LeaveType
       DEF FailAtOnce, TypeOK, TaskState, TERMINAL_STATES, ErrorCodes
<1>2. CASE Launch(c, t)
  <2>1. AfterLaunch(request[c].kind) \in Phases
    BY DEF AfterLaunch, Phases
  <2>. QED
    BY <1>2, <2>1, LeaveType
       DEF Launch, TypeOK, TaskState, ActiveStates, ErrorCodes, Races
<1>. QED
  BY <1>1, <1>2 DEF StartRun, TypeOK, run

\* The type invariant.
THEOREM TypeCorrect == Spec => []TypeOK
<1>1. Init => TypeOK
  BY DEF Init, TypeOK, Phases, Races, ErrorCodes, NoRequest, Requests, Ids, NoTask
<1>2. TypeOK /\ [Next]_vars => TypeOK'
  <2>. SUFFICES ASSUME TypeOK, [Next]_vars PROVE TypeOK'
    OBVIOUS
  <2>. USE DEF record, run, calls, history
  <2>1. ASSUME NEW c \in Calls, Receive(c) PROVE TypeOK'
    BY <2>1, WireAssumption DEF Receive, TypeOK, Phases
  <2>2. ASSUME NEW c \in Calls, Refuse(c) PROVE TypeOK'
    <3>1. "rejected" \in Phases
      BY DEF Phases
    <3>. QED BY <2>2, <3>1, LeaveType DEF Refuse, TypeOK
  <2>3. ASSUME NEW c \in Calls, Replay(c) PROVE TypeOK'
    <3>1. PICK t \in Tasks, p \in {"idle", "woken", "waiting"} : Leave(c, p, t, {})
      BY <2>3 DEF Replay, WaitTerminal, AcceptedBy
    <3>2. p \in Phases
      BY <3>1 DEF Phases
    <3>. QED BY <2>3, <3>1, <3>2, LeaveType DEF Replay, TypeOK
  <2>4. ASSUME NEW c \in Calls, RejectContinuation(c) PROVE TypeOK'
    <3>1. "rejected" \in Phases
      BY DEF Phases
    <3>. QED BY <2>4, <3>1, LeaveType DEF RejectContinuation, TypeOK
  <2>5. ASSUME NEW c \in Calls, CrashContinuation(c) PROVE TypeOK'
    <3>1. "crashed" \in Phases
      BY DEF Phases
    <3>. QED BY <2>5, <3>1, LeaveType DEF CrashContinuation, TypeOK
  <2>6. ASSUME NEW c \in Calls, ContinueTask(c) PROVE TypeOK'
    <3>1. request[c].id \in Ids /\ request[c].target \in Tasks
      BY <2>6 DEF ContinueTask, TypeOK, Requests
    <3>. QED
      BY <2>6, <3>1, RememberType, StartRunType DEF ContinueTask, TypeOK
  <2>7. ASSUME NEW c \in Calls, CreateTask(c) PROVE TypeOK'
    <3>1. request[c].id \in Ids
      BY DEF TypeOK, Requests
    <3>2. PICK t \in Tasks : /\ Remember(request[c].id, t)
                             /\ origin' = [origin EXCEPT ![t] = request[c].id]
                             /\ StartRun(c, t)
      BY <2>7 DEF CreateTask
    <3>. QED
      BY <2>7, <3>1, <3>2, RememberType, StartRunType DEF CreateTask, TypeOK
  <2>8. ASSUME NEW c \in Calls, Subscribe(c) PROVE TypeOK'
    <3>1. PICK t \in Tasks, p \in {"woken", "waiting"} : Leave(c, p, t, {})
      BY <2>8 DEF Subscribe, WaitTerminal
    <3>2. p \in Phases
      BY <3>1 DEF Phases
    <3>. QED BY <2>8, <3>1, <3>2, LeaveType DEF Subscribe, TypeOK
  <2>9. ASSUME NEW c \in Calls, Reply(c) PROVE TypeOK'
    BY <2>9 DEF Reply, TypeOK, Phases
  <2>10. ASSUME NEW t \in Tasks, ReportStatus(t) PROVE TypeOK'
    BY <2>10, ReportableAssumption DEF ReportStatus, TypeOK, TaskState, ErrorCodes
  <2>11. ASSUME NEW t \in Tasks, ReportArtifact(t) PROVE TypeOK'
    BY <2>11 DEF ReportArtifact, TypeOK
  <2>12. ASSUME NEW t \in Tasks, ExecutorReturns(t) PROVE TypeOK'
    <3>1. "output" \in Races
      BY DEF Races
    <3>. QED BY <2>12, <3>1, DecideType DEF ExecutorReturns, TypeOK
  <2>13. ASSUME NEW t \in Tasks, ExecutorThrows(t) PROVE TypeOK'
    <3>1. "failed" \in Races
      BY DEF Races
    <3>. QED BY <2>13, <3>1, DecideType DEF ExecutorThrows, TypeOK
  <2>14. ASSUME NEW t \in Tasks, TimerFires(t) PROVE TypeOK'
    <3>1. "timedOut" \in Races
      BY DEF Races
    <3>. QED BY <2>14, <3>1, DecideType DEF TimerFires, TypeOK
  <2>15. ASSUME NEW t \in Tasks, CancelTask(t) PROVE TypeOK'
    <3>1. "aborted" \in Races
      BY DEF Races
    <3>. QED
      BY <2>15, <3>1, DecideType, WakeType
         DEF CancelTask, Abort, TypeOK, TaskState, TERMINAL_STATES, ErrorCodes
  <2>16. ASSUME NEW t \in Tasks, FinishRun(t) PROVE TypeOK'
    <3>1. /\ state' \in [Tasks -> TaskState \cup {ABSENT}]
          /\ error' \in [Tasks -> ErrorCodes]
          /\ artifact' \in [Tasks -> {"none", "partial", "final"}]
      BY <2>16 DEF FinishRun, Settlement, Conclude, FailRun, AskCode, TypeOK,
                   TaskState, TERMINAL_STATES, INTERRUPTED_STATES, ErrorCodes
    <3>. QED BY <2>16, <3>1, WakeType DEF FinishRun, TypeOK, Races
  <2>17. CASE Restart
    BY <2>17 DEF Restart, TypeOK, Races, Phases, NoRequest, Requests, Ids, NoTask
  <2>18. CASE UNCHANGED vars
    BY <2>18 DEF vars, TypeOK
  <2>. QED
    BY <2>1, <2>2, <2>3, <2>4, <2>5, <2>6, <2>7, <2>8, <2>9, <2>10, <2>11,
       <2>12, <2>13, <2>14, <2>15, <2>16, <2>17, <2>18
       DEF Next, CallStep, TaskStep
<1>. QED
  BY <1>1, <1>2, PTL DEF Spec
-----------------------------------------------------------------------------
(* Runs, settled tasks and abandoned executors *)

\* The start of a run, over quota or not, keeps runs and records in step: the
\* task has neither a run nor an unsettled executor when it begins.
LEMMA StartRunRuns ==
  ASSUME TypeOK, RunInvariant, NEW c \in Calls, NEW t \in Tasks, StartRun(c, t),
         t \notin running, t \notin executing
  PROVE  RunInvariant'
<1>1. CASE Launch(c, t)
  <2>1. /\ state' = [state EXCEPT ![t] = "WORKING"]
        /\ running' = running \cup {t}
        /\ race' = [race EXCEPT ![t] = "pending"]
        /\ executing' = executing \cup {t}
    BY <1>1 DEF Launch
  <2>. QED
    BY <2>1 DEF RunInvariant, TypeOK, IsTerminal, TERMINAL_STATES, ABSENT
<1>2. ASSUME NEW code, FailAtOnce(c, t, code) PROVE RunInvariant'
  <2>1. state' = [state EXCEPT ![t] = "FAILED"] /\ UNCHANGED run
    BY <1>2 DEF FailAtOnce
  <2>. QED
    BY <2>1 DEF RunInvariant, TypeOK, IsTerminal, TERMINAL_STATES, run
<1>. QED
  BY <1>1, <1>2 DEF StartRun

\* A task that may be continued has no run and no executor left.
LEMMA ContinuableIsQuiet ==
  ASSUME RunInvariant, NEW t \in Tasks, CanContinue(t)
  PROVE  t \notin running /\ t \notin executing
BY DEF RunInvariant, CanContinue

\* Neither has a task that does not exist.
LEMMA AbsentIsQuiet ==
  ASSUME RunInvariant, NEW t \in Tasks, state[t] = ABSENT
  PROVE  t \notin running /\ t \notin executing
BY DEF RunInvariant, IsTerminal, TERMINAL_STATES, ABSENT

LEMMA RunInvariantStep ==
  ASSUME TypeOK, RunInvariant, [Next]_vars
  PROVE  RunInvariant'
<1>. USE DEF record, run, calls, history
<1>1. CASE UNCHANGED <<state, run>>
  BY <1>1 DEF RunInvariant
<1>2. ASSUME NEW c \in Calls, CallStep(c) PROVE RunInvariant'
  <2>1. CASE ContinueTask(c)
    <3>1. request[c].target \in Tasks
      BY <2>1 DEF ContinueTask, TypeOK, Requests
    <3>. QED
      BY <2>1, <3>1, ContinuableIsQuiet, StartRunRuns DEF ContinueTask
  <2>2. CASE CreateTask(c)
    <3>1. PICK t \in Tasks : state[t] = ABSENT /\ StartRun(c, t)
      BY <2>2 DEF CreateTask
    <3>. QED
      BY <3>1, AbsentIsQuiet, StartRunRuns
  <2>3. CASE ~ContinueTask(c) /\ ~CreateTask(c)
    <3>1. UNCHANGED <<state, run>>
      BY <1>2, <2>3
         DEF CallStep, Receive, Refuse, Replay, RejectContinuation,
             CrashContinuation, Subscribe, Reply
    <3>. QED BY <3>1, <1>1
  <2>. QED BY <2>1, <2>2, <2>3
<1>3. ASSUME NEW t \in Tasks, TaskStep(t) PROVE RunInvariant'
  <2>1. CASE ReportStatus(t)
    BY <2>1, ReportableAssumption
       DEF ReportStatus, Sinks, RunInvariant, TypeOK, IsTerminal, ActiveStates,
           INTERRUPTED_STATES, TERMINAL_STATES, ABSENT
  <2>2. CASE ReportArtifact(t)
    BY <2>2, <1>1 DEF ReportArtifact
  <2>3. CASE ExecutorReturns(t) \/ ExecutorThrows(t)
    <3>1. PICK r \in {"output", "failed"} :
             /\ race' = [race EXCEPT ![t] = IF @ = "pending" THEN r ELSE @]
             /\ executing' = executing \ {t}
             /\ UNCHANGED <<state, running>>
      BY <2>3 DEF ExecutorReturns, ExecutorThrows, Decide
    <3>. QED
      BY <3>1 DEF RunInvariant, TypeOK
  <2>4. CASE TimerFires(t)
    BY <2>4 DEF TimerFires, Decide, RunInvariant, TypeOK
  <2>5. CASE CancelTask(t)
    BY <2>5 DEF CancelTask, Abort, Decide, RunInvariant, TypeOK, IsTerminal,
                TERMINAL_STATES, ABSENT
  <2>6. CASE FinishRun(t)
    <3>1. /\ running' = running \ {t}
          /\ race' = [race EXCEPT ![t] = "none"]
          /\ executing' = executing
          /\ race[t] \notin {"none", "pending"}
      BY <2>6 DEF FinishRun, RunInvariant
    <3>2. CASE UNCHANGED state /\ state[t] = "CANCELED"
      BY <3>1, <3>2 DEF RunInvariant, TypeOK, IsTerminal, TERMINAL_STATES
    <3>3. CASE state[t] # "CANCELED" /\ race[t] = "output" /\ Conclude(t)
      <4>1. PICK s \in INTERRUPTED_STATES \cup {"COMPLETED"} :
               state' = [state EXCEPT ![t] = s]
        BY <3>3 DEF Conclude, TypeOK
      <4>. QED
        BY <3>1, <3>3, <4>1
           DEF RunInvariant, TypeOK, IsTerminal, TERMINAL_STATES, INTERRUPTED_STATES, ABSENT
    <3>4. CASE state[t] # "CANCELED" /\ race[t] # "output" /\ FailRun(t)
      BY <3>1, <3>4
         DEF FailRun, RunInvariant, TypeOK, IsTerminal, TERMINAL_STATES, ABSENT
    <3>. QED
      BY <2>6, <3>2, <3>3, <3>4 DEF FinishRun, Settlement
  <2>. QED
    BY <1>3, <2>1, <2>2, <2>3, <2>4, <2>5, <2>6 DEF TaskStep
<1>4. CASE Restart
  BY <1>4 DEF Restart, RunInvariant, TypeOK
<1>. QED
  BY <1>1, <1>2, <1>3, <1>4 DEF Next, vars
-----------------------------------------------------------------------------
\* What a run writes when it finishes goes to a task that is not settled yet,
\* or nowhere.
LEMMA SettlementOfSettled ==
  ASSUME RunInvariant, NEW t \in Tasks, t \in running, IsTerminal(state[t]), Settlement(t)
  PROVE  UNCHANGED <<state, error, artifact>>
BY DEF RunInvariant, Settlement

LEMMA SettlementLocal ==
  ASSUME TypeOK, NEW t \in Tasks, Settlement(t), NEW u \in Tasks, u # t
  PROVE  state'[u] = state[u] /\ error'[u] = error[u] /\ artifact'[u] = artifact[u]
BY DEF TypeOK, Settlement, Conclude, FailRun

LEMMA StartRunLocal ==
  ASSUME TypeOK, NEW c \in Calls, NEW t \in Tasks, StartRun(c, t),
         NEW u \in Tasks, u # t
  PROVE  state'[u] = state[u] /\ error'[u] = error[u]
BY DEF TypeOK, StartRun, FailAtOnce, Launch

\* No step writes a settled task.
LEMMA SettledStep ==
  ASSUME TypeOK, RunInvariant, [Next]_vars, NEW t \in Tasks, IsTerminal(state[t])
  PROVE  state'[t] = state[t] /\ error'[t] = error[t] /\ artifact'[t] = artifact[t]
<1>. USE DEF record, run, calls, history
<1>1. CASE UNCHANGED <<state, error, artifact>>
  BY <1>1
<1>2. ASSUME NEW c \in Calls, CallStep(c), ~UNCHANGED <<state, error, artifact>>
      PROVE  state'[t] = state[t] /\ error'[t] = error[t] /\ artifact'[t] = artifact[t]
  <2>1. CASE ContinueTask(c)
    <3>1. request[c].target \in Tasks /\ request[c].target # t
      BY <2>1 DEF ContinueTask, CanContinue, TypeOK, Requests
    <3>. QED
      BY <2>1, <3>1, StartRunLocal DEF ContinueTask
  <2>2. CASE CreateTask(c)
    <3>1. PICK u \in Tasks : state[u] = ABSENT /\ StartRun(c, u)
      BY <2>2 DEF CreateTask
    <3>2. u # t
      BY <3>1 DEF IsTerminal, TERMINAL_STATES, ABSENT
    <3>. QED
      BY <2>2, <3>1, <3>2, StartRunLocal DEF CreateTask
  <2>. QED
    BY <1>2, <2>1, <2>2
       DEF CallStep, Receive, Refuse, Replay, RejectContinuation,
           CrashContinuation, Subscribe, Reply
<1>3. ASSUME NEW u \in Tasks, TaskStep(u)
      PROVE  state'[t] = state[t] /\ error'[t] = error[t] /\ artifact'[t] = artifact[t]
  <2>1. CASE ReportStatus(u) \/ ReportArtifact(u)
    BY <2>1 DEF ReportStatus, ReportArtifact, Sinks, TypeOK
  <2>2. CASE ExecutorReturns(u) \/ ExecutorThrows(u) \/ TimerFires(u)
    BY <2>2 DEF ExecutorReturns, ExecutorThrows, TimerFires
  <2>3. CASE CancelTask(u)
    BY <2>3 DEF CancelTask, TypeOK
  <2>4. CASE FinishRun(u)
    BY <2>4, SettlementOfSettled, SettlementLocal DEF FinishRun
  <2>. QED
    BY <1>3, <2>1, <2>2, <2>3, <2>4 DEF TaskStep
<1>4. CASE Restart
  BY <1>4 DEF Restart
<1>. QED
  BY <1>1, <1>2, <1>3, <1>4 DEF Next, vars

\* TypeOK and RunInvariant hold in every reachable state.
THEOREM RunsCorrect == Spec => []RunInvariant
<1>1. Init => RunInvariant
  BY DEF Init, RunInvariant
<1>2. TypeOK /\ TypeOK' /\ RunInvariant /\ [Next]_vars => RunInvariant'
  BY RunInvariantStep
<1>. QED
  BY <1>1, <1>2, TypeCorrect, PTL DEF Spec

\* A settled task is never written again, by whatever interleaving of runs,
\* cancels, timeouts, late executor events, messages and restarts.
THEOREM SettledForGood == Spec => TerminalIsFinal
<1>1. TypeOK /\ RunInvariant /\ [Next]_vars =>
        [\A t \in Tasks : IsTerminal(state[t]) =>
            /\ state'[t] = state[t]
            /\ error'[t] = error[t]
            /\ artifact'[t] = artifact[t]]_vars
  BY SettledStep
<1>. QED
  BY <1>1, TypeCorrect, RunsCorrect, PTL DEF Spec, TerminalIsFinal
-----------------------------------------------------------------------------
(* Records: tasks that do not exist, message ids, errors *)

\* A request's segment that neither creates nor continues a task writes none.
LEMMA OtherCallStep ==
  ASSUME NEW c \in Calls, CallStep(c), ~ContinueTask(c), ~CreateTask(c)
  PROVE  UNCHANGED <<record, run, history, restarts>>
BY DEF CallStep, Receive, Refuse, Replay, RejectContinuation, CrashContinuation,
       Subscribe, Reply, history

\* No executor, timer, cancel or end of a run touches message ids and turns.
LEMMA TaskStepKeepsIds ==
  ASSUME NEW t \in Tasks, TaskStep(t)
  PROVE  UNCHANGED <<messageIds, history, restarts>>
BY DEF TaskStep, ReportStatus, ReportArtifact, ExecutorReturns, ExecutorThrows,
       TimerFires, CancelTask, FinishRun, record

\* The first segment of a run leaves its task working or failed.
LEMMA StartRunState ==
  ASSUME TypeOK, NEW c \in Calls, NEW t \in Tasks, StartRun(c, t)
  PROVE  /\ \/ state' = [state EXCEPT ![t] = "WORKING"] /\ error' = [error EXCEPT ![t] = "none"]
            \/ /\ state' = [state EXCEPT ![t] = "FAILED"]
               /\ \E code \in {"quota", "executor"} : error' = [error EXCEPT ![t] = code]
         /\ executing' \in {executing, executing \cup {t}}
BY DEF StartRun, FailAtOnce, Launch, run

\* What starts a turn: a continuation or a new task, with the message's id new
\* to the tasks it could have been accepted by.
LEMMA TurnStarts ==
  ASSUME TypeOK, NEW c \in Calls, ContinueTask(c) \/ CreateTask(c)
  PROVE  \E t \in Tasks :
            /\ Remember(request[c].id, t)
            /\ request[c].id \in Ids /\ request[c].id \notin messageIds[t]
            /\ StartRun(c, t)
            /\ \/ /\ CanContinue(t) /\ UNCHANGED origin
               \/ /\ state[t] = ABSENT
                  /\ origin' = [origin EXCEPT ![t] = request[c].id]
                  /\ \A u \in Tasks : request[c].id \notin messageIds[u]
<1>1. request[c] \in Requests
  BY DEF TypeOK
<1>2. CASE ContinueTask(c)
  <2>1. request[c].target \in Tasks
    BY <1>1, <1>2 DEF ContinueTask, Requests
  <2>. QED
    BY <1>1, <1>2, <2>1 DEF ContinueTask, AcceptedBy, Requests
<1>3. CASE CreateTask(c)
  BY <1>1, <1>3 DEF CreateTask, AcceptedBy, Requests
<1>. QED
  BY <1>2, <1>3

\* A task that is there stays there.
LEMMA TaskStepKeepsTask ==
  ASSUME TypeOK, NEW t \in Tasks, TaskStep(t), state[t] # ABSENT
  PROVE  state'[t] # ABSENT
BY ReportableAssumption
   DEF TaskStep, ReportStatus, ReportArtifact, ExecutorReturns, ExecutorThrows,
       TimerFires, CancelTask, FinishRun, Settlement, Conclude, FailRun, TypeOK,
       ABSENT, ActiveStates, INTERRUPTED_STATES, record

\* What a step does to a task's existence: only a new task begins to be.
LEMMA AbsentStep ==
  ASSUME TypeOK, RunInvariant, AbsentInvariant, [Next]_vars
  PROVE  AbsentInvariant'
<1>. USE DEF record, run, calls, history
<1>1. ASSUME UNCHANGED <<state, error, messageIds, executing, history>> PROVE AbsentInvariant'
  BY <1>1 DEF AbsentInvariant
<1>2. ASSUME NEW c \in Calls, ContinueTask(c) \/ CreateTask(c) PROVE AbsentInvariant'
  <2>1. PICK t \in Tasks :
           /\ Remember(request[c].id, t) /\ StartRun(c, t)
           /\ UNCHANGED origin \/ origin' = [origin EXCEPT ![t] = request[c].id]
    BY <1>2, TurnStarts
  <2>2. state'[t] # ABSENT
    BY <2>1, StartRunState DEF TypeOK, ABSENT
  <2>3. ASSUME NEW u \in Tasks, u # t
        PROVE  /\ state'[u] = state[u] /\ error'[u] = error[u]
               /\ messageIds'[u] = messageIds[u] /\ origin'[u] = origin[u]
               /\ turns'[u] = turns[u] /\ (u \in executing' <=> u \in executing)
    BY <2>1, <2>3, StartRunState DEF TypeOK, Remember
  <2>. QED
    BY <2>2, <2>3 DEF AbsentInvariant
<1>3. ASSUME NEW t \in Tasks, TaskStep(t) PROVE AbsentInvariant'
  <2>1. UNCHANGED <<messageIds, history>>
    BY <1>3, TaskStepKeepsIds
  <2>2. executing' \subseteq executing
    BY <1>3 DEF TaskStep, ReportStatus, ReportArtifact, ExecutorReturns,
                ExecutorThrows, TimerFires, CancelTask, FinishRun
  <2>3. UNCHANGED <<state, error>> \/ state[t] # ABSENT
    BY <1>3 DEF TaskStep, ReportStatus, ReportArtifact, ExecutorReturns,
                ExecutorThrows, TimerFires, CancelTask, FinishRun, Sinks,
                AbsentInvariant, RunInvariant
  <2>4. \A u \in Tasks : u # t => state'[u] = state[u] /\ error'[u] = error[u]
    BY <1>3, SettlementLocal
       DEF TaskStep, ReportStatus, ReportArtifact, ExecutorReturns,
           ExecutorThrows, TimerFires, CancelTask, FinishRun, TypeOK
  <2>5. state[t] # ABSENT => state'[t] # ABSENT
    BY <1>3, TaskStepKeepsTask
  <2>. QED
    BY <2>1, <2>2, <2>3, <2>4, <2>5 DEF AbsentInvariant
<1>4. CASE Restart
  BY <1>4 DEF Restart, AbsentInvariant
<1>. QED
  BY <1>1, <1>2, <1>3, <1>4, OtherCallStep DEF Next, vars

\* A message id is remembered by the tasks it has a turn in, and a task by the
\* id it was created for; no other task was created for that.
LEMMA IdsStep ==
  ASSUME TypeOK, AbsentInvariant, IdsInvariant, Idempotent, [Next]_vars
  PROVE  IdsInvariant' /\ Idempotent'
<1>. USE DEF record, run, calls, history
<1>1. ASSUME UNCHANGED <<messageIds, history>> PROVE IdsInvariant' /\ Idempotent'
  BY <1>1 DEF IdsInvariant, Idempotent
<1>2. ASSUME NEW c \in Calls, ContinueTask(c) \/ CreateTask(c)
      PROVE  IdsInvariant' /\ Idempotent'
  <2> DEFINE id == request[c].id
  <2>1. PICK t \in Tasks :
           /\ Remember(id, t) /\ id \in Ids /\ id \notin messageIds[t]
           /\ \/ UNCHANGED origin
              \/ /\ origin' = [origin EXCEPT ![t] = id]
                 /\ \A u \in Tasks : id \notin messageIds[u]
    BY <1>2, TurnStarts
  <2>2. /\ messageIds' = [messageIds EXCEPT ![t] = @ \cup ({id} \cap MessageIds)]
        /\ \A m \in MessageIds : turns'[t][m] = IF m = id THEN turns[t][m] + 1 ELSE turns[t][m]
        /\ \A u \in Tasks \ {t} : turns'[u] = turns[u]
    BY <2>1 DEF Remember, TypeOK
  <2>3. \A u \in Tasks, m \in MessageIds : turns'[u][m] = IF m \in messageIds'[u] THEN 1 ELSE 0
    BY <2>1, <2>2 DEF IdsInvariant, TypeOK
  <2>4. \A u \in Tasks : messageIds[u] \subseteq messageIds'[u]
    BY <2>2 DEF TypeOK
  <2>5. IdsInvariant'
    BY <2>1, <2>2, <2>3, <2>4 DEF IdsInvariant, TypeOK
  <2>6. \A u, v \in Tasks : origin'[u] = origin'[v] /\ origin'[u] \in MessageIds => u = v
    BY <2>1 DEF Idempotent, IdsInvariant, TypeOK
  <2>. QED
    BY <2>3, <2>5, <2>6 DEF Idempotent
<1>3. ASSUME NEW t \in Tasks, TaskStep(t) PROVE IdsInvariant' /\ Idempotent'
  BY <1>3, <1>1, TaskStepKeepsIds
<1>4. CASE Restart
  BY <1>4, <1>1 DEF Restart
<1>. QED
  BY <1>1, <1>2, <1>3, <1>4, OtherCallStep DEF Next, vars

\* Whoever writes a state writes the error that belongs to it.
LEMMA ErrorStep ==
  ASSUME TypeOK, ErrorTellsWhy, [Next]_vars
  PROVE  ErrorTellsWhy'
<1>. USE DEF record, run, calls, history
<1>1. ASSUME UNCHANGED <<state, error>> PROVE ErrorTellsWhy'
  BY <1>1 DEF ErrorTellsWhy
<1>2. ASSUME NEW c \in Calls, ContinueTask(c) \/ CreateTask(c) PROVE ErrorTellsWhy'
  <2>1. PICK t \in Tasks : StartRun(c, t)
    BY <1>2, TurnStarts
  <2>. QED
    BY <2>1, StartRunState DEF ErrorTellsWhy, TypeOK
<1>3. ASSUME NEW t \in Tasks, TaskStep(t) PROVE ErrorTellsWhy'
  <2>1. CASE ReportStatus(t)
    BY <2>1, ReportableAssumption
       DEF ReportStatus, ErrorTellsWhy, TypeOK, ActiveStates, INTERRUPTED_STATES
  <2>2. CASE CancelTask(t)
    BY <2>2 DEF CancelTask, ErrorTellsWhy, TypeOK
  <2>3. CASE FinishRun(t)
    <3>1. CASE FailRun(t)
      BY <3>1 DEF FailRun, ErrorTellsWhy, TypeOK
    <3>2. CASE Conclude(t)
      BY <3>2 DEF Conclude, AskCode, INTERRUPTED_STATES, ErrorTellsWhy, TypeOK
    <3>. QED
      BY <2>3, <3>1, <3>2, <1>1 DEF FinishRun, Settlement
  <2>. QED
    BY <1>3, <1>1, <2>1, <2>2, <2>3
       DEF TaskStep, ReportArtifact, ExecutorReturns, ExecutorThrows, TimerFires
<1>4. CASE Restart
  BY <1>4, <1>1 DEF Restart
<1>. QED
  BY <1>1, <1>2, <1>3, <1>4, OtherCallStep DEF Next, vars
-----------------------------------------------------------------------------
(* The quota *)

\* A run is launched below the quota only, and nothing else adds to the map.
LEMMA QuotaStep ==
  ASSUME TypeOK, QuotaRespected, [Next]_vars
  PROVE  QuotaRespected'
<1>. USE DEF record, run, calls, history
<1>1. IsFiniteSet(running)
  <2>1. IsFiniteSet(Tasks)
    BY BoundsAssumption, FS_Interval DEF Tasks
  <2>. QED
    BY <2>1, FS_Subset DEF TypeOK
<1>2. ASSUME running' \subseteq running PROVE QuotaRespected'
  <2>1. Cardinality(running') <= Cardinality(running)
    BY <1>1, <1>2, FS_Subset
  <2>2. Cardinality(running) \in Nat /\ Cardinality(running') \in Nat
    BY <1>1, <1>2, FS_Subset, FS_CardinalityType
  <2>. QED
    BY <2>1, <2>2, BoundsAssumption DEF QuotaRespected
<1>3. ASSUME NEW c \in Calls, ContinueTask(c) \/ CreateTask(c) PROVE QuotaRespected'
  <2>1. PICK t \in Tasks : StartRun(c, t)
    BY <1>3, TurnStarts
  <2>2. ASSUME ~OverQuota, running' = running \cup {t} PROVE QuotaRespected'
    <3>1. Cardinality(running) \in Nat
      BY <1>1, FS_CardinalityType
    <3>2. Cardinality(running') \in {Cardinality(running), Cardinality(running) + 1}
      BY <1>1, <2>2, FS_AddElement
    <3>3. MaxConcurrentTasks > 0 => Cardinality(running) < MaxConcurrentTasks
      BY <2>2, <3>1, BoundsAssumption DEF OverQuota
    <3>. QED
      BY <3>1, <3>2, <3>3, BoundsAssumption DEF QuotaRespected
  <2>. QED
    BY <1>2, <2>1, <2>2 DEF StartRun, FailAtOnce, Launch
<1>4. ASSUME NEW t \in Tasks, TaskStep(t) PROVE QuotaRespected'
  BY <1>2, <1>4
     DEF TaskStep, ReportStatus, ReportArtifact, ExecutorReturns, ExecutorThrows,
         TimerFires, CancelTask, FinishRun
<1>5. CASE Restart
  BY <1>2, <1>5 DEF Restart
<1>. QED
  BY <1>2, <1>3, <1>4, <1>5, OtherCallStep DEF Next, vars
-----------------------------------------------------------------------------
(* Blocked callers *)

Blocked(c) == phase[c] \in {"waiting", "awaitRun"}

\* A caller that is blocked now and was so before is blocked on the same task.
StillBlocked(c) == Blocked(c) /\ phase'[c] = phase[c] /\ onTask'[c] = onTask[c]

LEMMA LeaveBlocks ==
  ASSUME TypeOK, NEW c \in Calls, NEW p \in Phases, NEW t \in Tasks \cup {NoTask},
         NEW S, Leave(c, p, t, S), NEW d \in Calls, Blocked(d)'
  PROVE  \/ d = c /\ phase'[d] = p /\ onTask'[d] = t
         \/ d # c /\ d \notin S /\ StillBlocked(d)
BY DEF TypeOK, Leave, Blocked, StillBlocked

\* A segment that starts no run blocks its caller on a task that is there and
\* has not settled, or on nothing.
LEMMA OtherCallBlocks ==
  ASSUME TypeOK, AbsentInvariant, NEW c \in Calls, CallStep(c), ~ContinueTask(c),
         ~CreateTask(c), NEW d \in Calls, Blocked(d)'
  PROVE  \/ StillBlocked(d)
         \/ /\ phase'[d] = "waiting" /\ onTask'[d] \in Tasks
            /\ state[onTask'[d]] # ABSENT /\ ~IsSettled(state[onTask'[d]])
<1>1. ASSUME NEW t \in Tasks, WaitTerminal(c, t), state[t] # ABSENT
      PROVE  \/ StillBlocked(d)
             \/ /\ phase'[d] = "waiting" /\ onTask'[d] \in Tasks
                /\ state[onTask'[d]] # ABSENT /\ ~IsSettled(state[onTask'[d]])
  <2>1. PICK p \in {"woken", "waiting"} :
           Leave(c, p, t, {}) /\ (p = "waiting" => ~IsSettled(state[t]))
    BY <1>1 DEF WaitTerminal
  <2>2. p \in Phases
    BY <2>1 DEF Phases
  <2>. QED
    BY <1>1, <2>1, <2>2, LeaveBlocks DEF Blocked
<1>2. ASSUME NEW p \in {"idle", "rejected", "crashed"}, NEW t \in Tasks \cup {NoTask},
             Leave(c, p, t, {})
      PROVE  StillBlocked(d)
  BY <1>2, LeaveBlocks DEF Blocked, Phases
<1>3. CASE Replay(c)
  <2>1. PICK t \in Tasks : /\ request[c].id \in messageIds[t]
                           /\ Leave(c, "idle", t, {}) \/ WaitTerminal(c, t)
    BY <1>3 DEF Replay, AcceptedBy
  <2>2. state[t] # ABSENT
    BY <2>1 DEF AbsentInvariant
  <2>. QED
    BY <1>1, <1>2, <2>1, <2>2
<1>4. CASE Subscribe(c)
  BY <1>1, <1>4 DEF Subscribe
<1>5. CASE Refuse(c) \/ RejectContinuation(c) \/ CrashContinuation(c)
  <2>1. \/ Leave(c, "rejected", NoTask, {})
        \/ Leave(c, "crashed", NoTask, {})
    BY <1>5 DEF Refuse, RejectContinuation, CrashContinuation
  <2>. QED
    BY <1>2, <2>1
<1>6. CASE Receive(c) \/ Reply(c)
  BY <1>6 DEF Receive, Reply, Blocked, StillBlocked, TypeOK
<1>. QED
  BY <1>3, <1>4, <1>5, <1>6 DEF CallStep

\* The start of a run blocks its caller on the running task, and leaves nobody
\* who waits for a task that failed at once.
LEMMA StartRunBlocks ==
  ASSUME TypeOK, NEW c \in Calls, NEW t \in Tasks, StartRun(c, t), NEW d \in Calls, Blocked(d)'
  PROVE  \/ onTask'[d] = t /\ t \in running'
         \/ /\ StillBlocked(d)
            /\ phase[d] = "waiting" /\ onTask[d] = t => t \in running'
<1>1. CASE Launch(c, t)
  <2>1. AfterLaunch(request[c].kind) \in Phases
    BY DEF AfterLaunch, Phases
  <2>. QED
    BY <1>1, <2>1, LeaveBlocks DEF Launch
<1>2. ASSUME NEW code, FailAtOnce(c, t, code)
      PROVE  StillBlocked(d) /\ ~(phase[d] = "waiting" /\ onTask[d] = t)
  <2>1. PICK p \in {"idle", "woken"} : Leave(c, p, t, Waiters(t))
    BY <1>2 DEF FailAtOnce
  <2>. QED
    BY <2>1, LeaveBlocks DEF Waiters, Blocked, Phases
<1>. QED
  BY <1>1, <1>2 DEF StartRun

\* A step of a task wakes its callers whenever it settles it or ends its run,
\* and blocks nobody.
LEMMA TaskStepBlocks ==
  ASSUME TypeOK, RunInvariant, NEW t \in Tasks, TaskStep(t), NEW d \in Calls, Blocked(d)'
  PROVE  /\ StillBlocked(d)
         /\ onTask[d] = t =>
              /\ t \in running => t \in running'
              /\ phase[d] = "waiting" => t \in running' \/ state'[t] = state[t]
<1>. USE DEF calls, run, record
<1>1. CASE ReportStatus(t)
  BY <1>1 DEF ReportStatus, Sinks, RunInvariant, Blocked, StillBlocked
<1>2. CASE ReportArtifact(t) \/ ExecutorReturns(t) \/ ExecutorThrows(t) \/ TimerFires(t)
  BY <1>2 DEF ReportArtifact, ExecutorReturns, ExecutorThrows, TimerFires,
              Blocked, StillBlocked
<1>3. CASE CancelTask(t)
  BY <1>3 DEF CancelTask, Wake, Waiters, Blocked, StillBlocked, TypeOK
<1>4. CASE FinishRun(t)
  BY <1>4 DEF FinishRun, Wake, Released, Waiters, RunAwaiters, Blocked, StillBlocked, TypeOK
<1>. QED
  BY <1>1, <1>2, <1>3, <1>4 DEF TaskStep

\* Every blocked caller names a task that is there, with a run or unsettled.
LEMMA WaiterStep ==
  ASSUME TypeOK, RunInvariant, AbsentInvariant, AbsentInvariant', CallsInvariant,
         NoStrandedWaiter, [Next]_vars
  PROVE  CallsInvariant' /\ NoStrandedWaiter'
<1>. USE DEF record, run, calls, history
<1>. SUFFICES ASSUME NEW d \in Calls, Blocked(d)'
              PROVE  /\ onTask'[d] \in Tasks /\ state'[onTask'[d]] # ABSENT
                     /\ phase'[d] = "waiting" =>
                          onTask'[d] \in running' \/ ~IsSettled(state'[onTask'[d]])
                     /\ phase'[d] = "awaitRun" => onTask'[d] \in running'
  BY DEF CallsInvariant, NoStrandedWaiter, Blocked
<1> DEFINE Fine == /\ onTask'[d] \in Tasks /\ state'[onTask'[d]] # ABSENT
                   /\ phase'[d] = "waiting" =>
                        onTask'[d] \in running' \/ ~IsSettled(state'[onTask'[d]])
                   /\ phase'[d] = "awaitRun" => onTask'[d] \in running'
<1>0. Blocked(d) =>
        /\ onTask[d] \in Tasks /\ state[onTask[d]] # ABSENT
        /\ phase[d] = "waiting" => onTask[d] \in running \/ ~IsSettled(state[onTask[d]])
        /\ phase[d] = "awaitRun" => onTask[d] \in running
  BY DEF CallsInvariant, NoStrandedWaiter, Blocked
<1>1. CASE UNCHANGED vars
  BY <1>0, <1>1 DEF vars, Blocked
<1>2. ASSUME NEW c \in Calls, CallStep(c), ~ContinueTask(c), ~CreateTask(c) PROVE Fine
  BY <1>0, <1>2, OtherCallStep, OtherCallBlocks DEF StillBlocked
<1>3. ASSUME NEW c \in Calls, ContinueTask(c) \/ CreateTask(c) PROVE Fine
  <2>1. PICK t \in Tasks : StartRun(c, t) /\ (CanContinue(t) \/ state[t] = ABSENT)
    BY <1>3, TurnStarts
  <2>2. t \notin running
    BY <2>1, AbsentIsQuiet DEF CanContinue
  <2>3. running \subseteq running' /\ state'[t] # ABSENT
    BY <2>1, StartRunState DEF StartRun, FailAtOnce, Launch, TypeOK, ABSENT
  <2>4. CASE onTask'[d] = t /\ t \in running'
    BY <2>3, <2>4
  <2>5. CASE StillBlocked(d) /\ onTask[d] = t
    BY <1>0, <2>1, <2>2, <2>3, <2>5, StartRunBlocks DEF StillBlocked, Blocked
  <2>6. CASE StillBlocked(d) /\ onTask[d] # t
    BY <1>0, <2>1, <2>3, <2>6, StartRunLocal DEF StillBlocked, Blocked
  <2>. QED
    BY <2>1, <2>4, <2>5, <2>6, StartRunBlocks
<1>4. ASSUME NEW t \in Tasks, TaskStep(t) PROVE Fine
  <2>1. /\ StillBlocked(d)
        /\ onTask[d] = t =>
             /\ t \in running => t \in running'
             /\ phase[d] = "waiting" => t \in running' \/ state'[t] = state[t]
    BY <1>4, TaskStepBlocks
  <2>2. \A u \in Tasks : u # t => state'[u] = state[u] /\ (u \in running => u \in running')
    BY <1>4, SettlementLocal
       DEF TaskStep, ReportStatus, ReportArtifact, ExecutorReturns,
           ExecutorThrows, TimerFires, CancelTask, FinishRun, TypeOK
  <2>3. state[t] # ABSENT => state'[t] # ABSENT
    BY <1>4, TaskStepKeepsTask
  <2>4. CASE onTask[d] # t
    BY <1>0, <2>1, <2>2, <2>4 DEF StillBlocked
  <2>5. CASE onTask[d] = t
    BY <1>0, <2>1, <2>3, <2>5 DEF StillBlocked
  <2>. QED
    BY <2>4, <2>5
<1>5. CASE Restart
  BY <1>5 DEF Restart, Blocked
<1>. QED
  BY <1>1, <1>2, <1>3, <1>4, <1>5 DEF Next
-----------------------------------------------------------------------------
(* The theorems *)

\* Everything IInv says holds in every reachable state, for any number of
\* tasks, requests and message ids, any quota and any number of restarts.
THEOREM InvariantCorrect == Spec => []IInv
<1>1. Init => IInv
  <2>1. Init => TypeOK
    BY DEF Init, TypeOK, Phases, Races, ErrorCodes, NoRequest, Requests, Ids, NoTask
  <2>2. Init => RunInvariant /\ AbsentInvariant /\ IdsInvariant /\ CallsInvariant
    BY IdsAssumption DEF Init, RunInvariant, AbsentInvariant, IdsInvariant, CallsInvariant
  <2>3. Init => Idempotent /\ QuotaRespected /\ NoStrandedWaiter /\ ErrorTellsWhy
    BY FS_EmptySet, BoundsAssumption, IdsAssumption
       DEF Init, Idempotent, QuotaRespected, NoStrandedWaiter, ErrorTellsWhy, ABSENT
  <2>. QED
    BY <2>1, <2>2, <2>3 DEF IInv
<1>2. IInv /\ TypeOK' /\ [Next]_vars => IInv'
  BY RunInvariantStep, AbsentStep, IdsStep, ErrorStep, QuotaStep, WaiterStep DEF IInv
<1>. QED
  BY <1>1, <1>2, TypeCorrect, PTL DEF Spec

\* Concurrent and repeated copies of a message start one turn, and one task
\* (ensureTask's look-ups).
THEOREM MessagesIdempotent == Spec => []Idempotent
<1>1. IInv => Idempotent
  BY DEF IInv
<1>. QED
  BY <1>1, InvariantCorrect, PTL

\* No interleaving of requests lets more runs be underway than the quota.
THEOREM QuotaHolds == Spec => []QuotaRespected
<1>1. IInv => QuotaRespected
  BY DEF IInv
<1>. QED
  BY <1>1, InvariantCorrect, PTL

\* Nobody waits for a settlement that has happened (waitTerminal, settle).
THEOREM WaitersNotStranded == Spec => []NoStrandedWaiter
<1>1. IInv => NoStrandedWaiter
  BY DEF IInv
<1>. QED
  BY <1>1, InvariantCorrect, PTL

\* The error code is the one of the task's last change of state.
THEOREM ErrorsTellWhy == Spec => []ErrorTellsWhy
<1>1. IInv => ErrorTellsWhy
  BY DEF IInv
<1>. QED
  BY <1>1, InvariantCorrect, PTL

\* A run begins only for a task that no earlier executor is still at work on.
THEOREM ExecutorsAlone == Spec => OneExecutorPerTask
<1> DEFINE Step == \A t \in running' \ running : t \notin executing
<1>1. TypeOK /\ RunInvariant /\ [Next]_vars => [Step]_vars
  <2>. SUFFICES ASSUME TypeOK, RunInvariant, Next PROVE Step
    OBVIOUS
  <2>1. ASSUME running' \subseteq running PROVE Step
    BY <2>1
  <2>2. ASSUME NEW c \in Calls, ContinueTask(c) \/ CreateTask(c) PROVE Step
    <3>1. PICK t \in Tasks : StartRun(c, t) /\ (CanContinue(t) \/ state[t] = ABSENT)
      BY <2>2, TurnStarts
    <3>2. t \notin executing /\ running' \subseteq running \cup {t}
      BY <3>1, AbsentIsQuiet, ContinuableIsQuiet DEF StartRun, FailAtOnce, Launch, run
    <3>. QED
      BY <3>2
  <2>3. ASSUME NEW t \in Tasks, TaskStep(t) PROVE Step
    BY <2>1, <2>3
       DEF TaskStep, ReportStatus, ReportArtifact, ExecutorReturns, ExecutorThrows,
           TimerFires, CancelTask, FinishRun, run
  <2>4. CASE Restart
    BY <2>1, <2>4 DEF Restart
  <2>. QED
    BY <2>1, <2>2, <2>3, <2>4, OtherCallStep DEF Next, run
<1>. QED
  BY <1>1, TypeCorrect, RunsCorrect, PTL DEF Spec, OneExecutorPerTask

\* What a run leaves its task in when it ends is settled or waits for input.
LEMMA SettlementSettles ==
  ASSUME TypeOK, NEW t \in Tasks, Settlement(t)
  PROVE  IsSettled(state'[t])
BY DEF Settlement, Conclude, FailRun, TypeOK, IsSettled, TERMINAL_STATES, INTERRUPTED_STATES

\* A blocked caller is released by what settles its own task, and by nothing
\* else (settle, and runTask's own promise).
THEOREM ReleasedWhenSettled == Spec => NoEarlyRelease
<1> DEFINE Step == \A c \in Calls :
             phase[c] \in {"waiting", "awaitRun"} /\ phase'[c] = "woken"
               => IsSettled(state'[onTask[c]])
<1>1. IInv /\ [Next]_vars => [Step]_vars
  <2>. SUFFICES ASSUME IInv, Next, NEW d \in Calls, Blocked(d), phase'[d] = "woken"
                PROVE  IsSettled(state'[onTask[d]])
    BY DEF Blocked
  <2>. USE DEF record, run, calls, history, IInv
  <2>0. onTask[d] \in Tasks
    BY DEF CallsInvariant, Blocked
  <2>1. ASSUME NEW c \in Calls, CallStep(c) PROVE IsSettled(state'[onTask[d]])
    <3>1. phase[c] \notin {"waiting", "awaitRun"}
      BY <2>1 DEF CallStep, Receive, Refuse, Replay, RejectContinuation,
                  CrashContinuation, ContinueTask, CreateTask, Subscribe, Reply
    <3>2. c # d
      BY <3>1 DEF Blocked
    <3>3. CASE ContinueTask(c) \/ CreateTask(c)
      <4>1. PICK t \in Tasks : StartRun(c, t)
        BY <3>3, TurnStarts
      <4>2. CASE Launch(c, t)
        BY <3>2, <4>2 DEF Launch, Leave, TypeOK, Blocked
      <4>3. ASSUME NEW code, FailAtOnce(c, t, code) PROVE IsSettled(state'[onTask[d]])
        <5>1. d \in Waiters(t)
          BY <3>2, <4>3 DEF FailAtOnce, Leave, TypeOK, Blocked
        <5>. QED
          BY <4>3, <5>1 DEF FailAtOnce, Waiters, TypeOK, IsSettled, TERMINAL_STATES
      <4>. QED
        BY <4>1, <4>2, <4>3 DEF StartRun
    <3>4. CASE ~ContinueTask(c) /\ ~CreateTask(c)
      <4>1. \A p, t : Leave(c, p, t, {}) => phase'[d] = phase[d]
        BY <3>2 DEF Leave
      <4>2. phase'[d] = phase[d]
        BY <2>1, <3>2, <3>4, <4>1
           DEF CallStep, Receive, Refuse, Replay, RejectContinuation,
               CrashContinuation, Subscribe, WaitTerminal, Reply, TypeOK
      <4>. QED
        BY <4>2 DEF Blocked
    <3>. QED
      BY <3>3, <3>4
  <2>2. ASSUME NEW t \in Tasks, TaskStep(t) PROVE IsSettled(state'[onTask[d]])
    <3>1. CASE CancelTask(t)
      <4>1. d \in Waiters(t)
        BY <3>1 DEF CancelTask, Wake, TypeOK, Blocked
      <4>. QED
        BY <3>1, <4>1 DEF CancelTask, Waiters, TypeOK, IsSettled, TERMINAL_STATES
    <3>2. CASE FinishRun(t)
      <4>1. d \in Released(t)
        BY <3>2 DEF FinishRun, Wake, TypeOK, Blocked
      <4>. QED
        BY <3>2, <4>1, SettlementSettles DEF FinishRun, Released, Waiters, RunAwaiters
    <3>. QED
      BY <2>2, <3>1, <3>2
         DEF TaskStep, ReportStatus, ReportArtifact, ExecutorReturns,
             ExecutorThrows, TimerFires, Blocked
  <2>3. CASE Restart
    BY <2>3 DEF Restart
  <2>. QED
    BY <2>1, <2>2, <2>3 DEF Next
<1>. QED
  BY <1>1, InvariantCorrect, PTL DEF Spec, NoEarlyRelease

\* No run ends, and no turn begins, that leaves a task underway with nothing
\* behind it: only a restart does (runTask's last segment).
THEOREM OrphansByRestart == Spec => OnlyRestartOrphans
<1> DEFINE Step == \A t \in Tasks : Orphan(t)' /\ ~Orphan(t) => restarts' # restarts
<1>1. TypeOK /\ RunInvariant /\ [Next]_vars => [Step]_vars
  <2>. SUFFICES ASSUME TypeOK, RunInvariant, Next, NEW u \in Tasks, Orphan(u)', ~Orphan(u)
                PROVE  restarts' # restarts
    OBVIOUS
  <2>. USE DEF record, run, calls, history
  <2>1. ASSUME state'[u] = state[u], u \in running => u \in running' PROVE FALSE
    BY <2>1 DEF Orphan
  <2>2. ASSUME NEW c \in Calls, ContinueTask(c) \/ CreateTask(c) PROVE FALSE
    <3>1. PICK t \in Tasks : StartRun(c, t)
      BY <2>2, TurnStarts
    <3>2. t \in running' \/ state'[t] = "FAILED"
      BY <3>1 DEF StartRun, FailAtOnce, Launch, TypeOK
    <3>3. u # t
      BY <3>2 DEF Orphan, ActiveStates
    <3>4. running \subseteq running'
      BY <3>1 DEF StartRun, FailAtOnce, Launch
    <3>. QED
      BY <2>1, <3>1, <3>3, <3>4, StartRunLocal
  <2>3. ASSUME NEW t \in Tasks, TaskStep(t) PROVE FALSE
    <3>1. CASE ReportStatus(t)
      BY <2>1, <3>1 DEF ReportStatus, Sinks, RunInvariant, TypeOK, Orphan
    <3>2. CASE CancelTask(t)
      BY <2>1, <3>2 DEF CancelTask, TypeOK, Orphan, ActiveStates
    <3>3. CASE FinishRun(t)
      <4>1. u # t
        BY <3>3, SettlementSettles
           DEF FinishRun, Orphan, IsSettled, ActiveStates, TERMINAL_STATES, INTERRUPTED_STATES
      <4>. QED
        BY <2>1, <3>3, <4>1, SettlementLocal DEF FinishRun
    <3>. QED
      BY <2>1, <2>3, <3>1, <3>2, <3>3
         DEF TaskStep, ReportArtifact, ExecutorReturns, ExecutorThrows, TimerFires
  <2>4. CASE Restart
    BY <2>4 DEF Restart, TypeOK
  <2>. QED
    BY <2>1, <2>2, <2>3, <2>4, OtherCallStep DEF Next
<1>. QED
  BY <1>1, TypeCorrect, RunsCorrect, PTL DEF Spec, OnlyRestartOrphans
-----------------------------------------------------------------------------
(* The refinement of TaskContract *)

\* The contract speaks of the same states.
LEMMA SameStates ==
  /\ Contract!ABSENT = ABSENT
  /\ Contract!ActiveStates = ActiveStates
  /\ Contract!INTERRUPTED_STATES = INTERRUPTED_STATES
  /\ Contract!TERMINAL_STATES = TERMINAL_STATES
BY DEF Contract!ABSENT, ABSENT, Contract!ActiveStates, ActiveStates,
       Contract!INTERRUPTED_STATES, INTERRUPTED_STATES,
       Contract!TERMINAL_STATES, TERMINAL_STATES

\* A turn begins as the contract says: the id is new, and remembered.
LEMMA TurnImplements ==
  ASSUME IInv, NEW c \in Calls, ContinueTask(c) \/ CreateTask(c)
  PROVE  Contract!Next
<1>. USE DEF IInv
<1> DEFINE ids == {request[c].id} \cap MessageIds
<1>1. PICK t \in Tasks :
         /\ messageIds' = [messageIds EXCEPT ![t] = @ \cup ids]
         /\ request[c].id \notin messageIds[t]
         /\ StartRun(c, t)
         /\ \/ CanContinue(t)
            \/ /\ state[t] = ABSENT
               /\ \A u \in Tasks : request[c].id \notin messageIds[u]
  BY TurnStarts DEF Remember
<1>2. Contract!Begin(t)
  BY <1>1, StartRunState DEF Contract!Begin
<1>3. ids \in Contract!Ids
  BY DEF Contract!Ids
<1>4. CASE CanContinue(t)
  <2>1. state[t] \in ActiveStates \cup INTERRUPTED_STATES
    BY <1>4 DEF CanContinue, TypeOK, TaskState, IsTerminal
  <2>2. Contract!Continue(t)
    BY <1>1, <1>2, <1>3, <2>1, SameStates DEF Contract!Continue
  <2>. QED
    BY <2>2 DEF Contract!Next
<1>5. CASE state[t] = ABSENT /\ \A u \in Tasks : request[c].id \notin messageIds[u]
  <2>1. messageIds' = [messageIds EXCEPT ![t] = ids]
    BY <1>1, <1>5 DEF AbsentInvariant, TypeOK
  <2>2. Contract!Create(t)
    BY <1>2, <1>3, <1>5, <2>1, SameStates DEF Contract!Create
  <2>. QED
    BY <2>2 DEF Contract!Next
<1>. QED
  BY <1>1, <1>4, <1>5

\* A task's own steps report, settle, or leave the contract's state alone.
LEMMA TaskStepImplements ==
  ASSUME IInv, NEW t \in Tasks, TaskStep(t)
  PROVE  Contract!Next \/ UNCHANGED Contract!vars
<1>. USE DEF IInv, record, run, calls, history
<1>1. UNCHANGED messageIds
  BY TaskStepKeepsIds
<1>2. ASSUME state[t] # ABSENT, ~IsTerminal(state[t]), NEW s,
             s \in ActiveStates \cup INTERRUPTED_STATES \cup TERMINAL_STATES,
             state' = [state EXCEPT ![t] = s]
      PROVE  Contract!Next
  <2>1. state[t] \in ActiveStates \cup INTERRUPTED_STATES
    BY <1>2 DEF TypeOK, TaskState, IsTerminal
  <2>2. Contract!Report(t) \/ Contract!Settle(t)
    BY <1>1, <1>2, <2>1, SameStates DEF Contract!Report, Contract!Settle
  <2>. QED
    BY <2>2 DEF Contract!Next
<1>3. ASSUME UNCHANGED state PROVE UNCHANGED Contract!vars
  BY <1>1, <1>3 DEF Contract!vars
<1>4. CASE ReportStatus(t)
  <2>1. state[t] # ABSENT /\ ~IsTerminal(state[t])
    BY <1>4 DEF ReportStatus, Sinks, AbsentInvariant
  <2>. QED
    BY <1>2, <1>4, <2>1, ReportableAssumption DEF ReportStatus
<1>5. CASE CancelTask(t)
  BY <1>2, <1>5 DEF CancelTask, TERMINAL_STATES
<1>6. CASE FinishRun(t)
  <2>1. state[t] # ABSENT
    BY <1>6 DEF FinishRun, RunInvariant
  <2>2. CASE state[t] = "CANCELED"
    BY <1>3, <1>6, <2>2 DEF FinishRun, Settlement
  <2>3. CASE state[t] # "CANCELED"
    <3>1. ~IsTerminal(state[t])
      BY <1>6, <2>3 DEF FinishRun, RunInvariant
    <3>2. \/ UNCHANGED state
          \/ \E s \in INTERRUPTED_STATES \cup TERMINAL_STATES : state' = [state EXCEPT ![t] = s]
      BY <1>6, <2>3 DEF FinishRun, Settlement, Conclude, FailRun, TERMINAL_STATES
    <3>. QED
      BY <1>2, <1>3, <2>1, <3>1, <3>2
  <2>. QED
    BY <2>2, <2>3
<1>. QED
  BY <1>3, <1>4, <1>5, <1>6
     DEF TaskStep, ReportArtifact, ExecutorReturns, ExecutorThrows, TimerFires

\* The server implements TaskContract, for every value of its constants.
THEOREM ServerImplementsContract == Spec => ImplementsContract
<1>1. Init => Contract!Init
  BY SameStates DEF Init, Contract!Init
<1>2. IInv /\ [Next]_vars => [Contract!Next]_(Contract!vars)
  <2>. SUFFICES ASSUME IInv, [Next]_vars PROVE Contract!Next \/ UNCHANGED Contract!vars
    OBVIOUS
  <2>1. ASSUME UNCHANGED <<state, messageIds>> PROVE UNCHANGED Contract!vars
    BY <2>1 DEF Contract!vars
  <2>2. ASSUME NEW c \in Calls, CallStep(c) PROVE Contract!Next \/ UNCHANGED Contract!vars
    BY <2>1, <2>2, TurnImplements, OtherCallStep DEF record
  <2>. QED
    BY <2>1, <2>2, TaskStepImplements DEF Next, Restart, record, vars
<1>. QED
  BY <1>1, <1>2, InvariantCorrect, PTL DEF Spec, ImplementsContract, Contract!Spec
=============================================================================
