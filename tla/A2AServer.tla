------------------------------ MODULE A2AServer ------------------------------
(***************************************************************************)
(* One inbound server instance (src/server/a2a-server.ts): messages bound  *)
(* to tasks, the run of a task raced against its abort signal and its      *)
(* timeout, and the callers blocked on a task.                             *)
(*                                                                         *)
(* JavaScript runs each handler to its next await without interruption, so *)
(* an action is one such segment: the gate's await separates Receive from  *)
(* the segment that binds the message and starts the run; the await of     *)
(* Promise.race separates that from FinishRun; a resolved promise resumes  *)
(* its caller in a later segment (Reply).  The task store is the live view *)
(* every reader sees; what reaches the medium is TaskStore's subject.      *)
(***************************************************************************)
EXTENDS A2AProtocol, Naturals, FiniteSets

CONSTANTS
  MaxTasks,            \* bound: tasks ever created
  MessageIds,          \* client message ids that work as idempotency keys
  EmptyId,             \* messageId: ''
  AbsentId,            \* a message without a messageId
  Calls,               \* request slots: a slot serves one request after another
  MaxConcurrentTasks,  \* the instance's quota; 0 disables it
  TaskTimeout,         \* is taskTimeoutMs set?
  Reportable,          \* states an executor's status events may carry
  Wire,                \* the messages clients send, of all that they might
  MaxRestarts          \* bound: restarts of the process

\* Task ids are random UUIDs; they are named here in order of creation, the
\* order in which the store lists its records.
Tasks == 1..MaxTasks
NoTask == 0

ASSUME BoundsAssumption ==
  /\ MaxTasks \in Nat \ {0}
  /\ MaxConcurrentTasks \in Nat
  /\ MaxRestarts \in Nat
  /\ TaskTimeout \in BOOLEAN

ASSUME IdsAssumption ==
  /\ EmptyId \notin MessageIds
  /\ AbsentId \notin MessageIds
  /\ EmptyId # AbsentId

\* Settling a task is runTask's business: executors settle by what they
\* return or throw, their status events only report progress.
ASSUME ReportableAssumption ==
  Reportable \subseteq ActiveStates \cup INTERRUPTED_STATES

VARIABLES
  state,       \* state[t]: lifecycle state, ABSENT when not created
  error,       \* error[t]: the record's error code
  artifact,    \* artifact[t]: the result artifact
  messageIds,  \* messageIds[t]: message ids accepted by t
  running,     \* keys of the map taskId -> AbortController
  race,        \* race[t]: what Promise.race of t's run has resolved to
  executing,   \* tasks whose executor has not returned, abandoned ones too
  phase,       \* phase[c]: where request c is
  request,     \* request[c]: the message of a request at the gate
  onTask,      \* onTask[c]: the task request c is blocked on
  origin,      \* history: the message id a task was created for
  turns,       \* history: runs started for a message id on a task
  restarts

record == <<state, error, artifact, messageIds>>
run == <<running, race, executing>>
calls == <<phase, request, onTask>>
history == <<origin, turns>>
vars == <<record, run, calls, history, restarts>>

-----------------------------------------------------------------------------
(* Values *)

ErrorCodes == {"none", "quota", "executor", "timeout", "canceled",
               "input_required", "auth_required"}

Races == {"none", "pending", "output", "failed", "aborted", "timedOut"}

Phases == {"idle", "gating", "awaitRun", "waiting", "woken", "rejected", "crashed"}

Ids == MessageIds \cup {EmptyId, AbsentId}

\* send: SendMessage (also the console's sendTest); immediate: SendMessage with
\* returnImmediately; stream: SendStreamingMessage.
Requests == [kind : {"send", "immediate", "stream"},
             target : Tasks \cup {NoTask},
             id : Ids]
NoRequest == [kind |-> "send", target |-> NoTask, id |-> AbsentId]

ASSUME WireAssumption == Wire \subseteq Requests

TypeOK ==
  /\ state \in [Tasks -> TaskState \cup {ABSENT}]
  /\ error \in [Tasks -> ErrorCodes]
  /\ artifact \in [Tasks -> {"none", "partial", "final"}]
  /\ messageIds \in [Tasks -> SUBSET MessageIds]
  /\ running \in SUBSET Tasks
  /\ race \in [Tasks -> Races]
  /\ executing \in SUBSET Tasks
  /\ phase \in [Calls -> Phases]
  /\ request \in [Calls -> Requests]
  /\ onTask \in [Calls -> Tasks \cup {NoTask}]
  /\ origin \in [Tasks -> Ids]
  /\ turns \in [Tasks -> [MessageIds -> Nat]]
  /\ restarts \in Nat

Init ==
  /\ state = [t \in Tasks |-> ABSENT]
  /\ error = [t \in Tasks |-> "none"]
  /\ artifact = [t \in Tasks |-> "none"]
  /\ messageIds = [t \in Tasks |-> {}]
  /\ running = {}
  /\ race = [t \in Tasks |-> "none"]
  /\ executing = {}
  /\ phase = [c \in Calls |-> "idle"]
  /\ request = [c \in Calls |-> NoRequest]
  /\ onTask = [c \in Calls |-> NoTask]
  /\ origin = [t \in Tasks |-> AbsentId]
  /\ turns = [t \in Tasks |-> [m \in MessageIds |-> 0]]
  /\ restarts = 0

-----------------------------------------------------------------------------
(* Callers blocked on a task *)

\* Slip: settle() wakes every waiter, whatever task it waits for.
WaitersOfAnyTask(t) == {c \in Calls : phase[c] = "waiting"}

\* settle(): the promises waitTerminal() handed out for t.
Waiters(t) == {c \in Calls : phase[c] = "waiting" /\ onTask[c] = t}

\* The callers that await runTask's own promise.
RunAwaiters(t) == {c \in Calls : phase[c] = "awaitRun" /\ onTask[c] = t}

\* Slip: the end of a run resolves runTask's promise and forgets settle().
ReleasedWithoutSettle(t) == RunAwaiters(t)

\* What the end of a run releases: its own promise and settle().
Released(t) == Waiters(t) \cup RunAwaiters(t)

Wake(S) == phase' = [c \in Calls |-> IF c \in S THEN "woken" ELSE phase[c]]

\* Request c leaves its segment in phase p, blocked on t (or on nothing), and
\* the callers in S are woken by the same segment.
Leave(c, p, t, S) ==
  /\ phase' = [d \in Calls |-> IF d = c THEN p
                               ELSE IF d \in S THEN "woken" ELSE phase[d]]
  /\ onTask' = [onTask EXCEPT ![c] = IF p = "idle" THEN NoTask ELSE t]
  /\ request' = [request EXCEPT ![c] = NoRequest]

\* Slip: only a terminal task is answered at once.
WaitTerminalStrict(c, t) ==
  Leave(c, IF IsTerminal(state[t]) THEN "woken" ELSE "waiting", t, {})

\* waitTerminal(): returns at once on a settled or interrupted task.
WaitTerminal(c, t) ==
  Leave(c, IF IsSettled(state[t]) THEN "woken" ELSE "waiting", t, {})

-----------------------------------------------------------------------------
(* A message arrives and passes the gate *)

Receive(c) ==
  /\ phase[c] = "idle"
  /\ \E r \in Wire :
        request' = [request EXCEPT ![c] = r]
  /\ phase' = [phase EXCEPT ![c] = "gating"]
  /\ UNCHANGED <<record, run, onTask, history, restarts>>

\* The gate says no, or the message's contextId is not its task's.
Refuse(c) ==
  /\ phase[c] = "gating"
  /\ Leave(c, "rejected", NoTask, {})
  /\ UNCHANGED <<record, run, history, restarts>>

\* Slip: a message that names no task is never looked up.
AcceptedByTarget(r) == {t \in Tasks : r.id \in messageIds[t] /\ t = r.target}

\* The tasks that already accepted this message, looked for in the task it
\* names or, when it names none, in the whole store.
AcceptedBy(r) ==
  {t \in Tasks : r.id \in messageIds[t] /\ (r.target = NoTask \/ t = r.target)}

\* An idempotent replay joins the task: the earliest, as Array.find does, unless
\* the medium gave the records back in another order.
Replay(c) ==
  /\ phase[c] = "gating"
  /\ \E t \in AcceptedBy(request[c]) :
        /\ \A u \in AcceptedBy(request[c]) : restarts = 0 => t <= u
        /\ IF request[c].kind = "immediate"
             THEN Leave(c, "idle", t, {})
             ELSE WaitTerminal(c, t)
  /\ UNCHANGED <<record, run, history, restarts>>

\* Slip: a settled task may be continued.
CanContinueSettled(t) == state[t] # ABSENT /\ t \notin running

CanContinue(t) ==
  /\ state[t] # ABSENT
  /\ ~IsTerminal(state[t])
  /\ t \notin running

RejectContinuation(c) ==
  LET r == request[c]
  IN /\ phase[c] = "gating"
     /\ r.target # NoTask
     /\ AcceptedBy(r) = {}
     /\ ~CanContinue(r.target)
     /\ Leave(c, "rejected", NoTask, {})
     /\ UNCHANGED <<record, run, history, restarts>>

\* appendInput reads message.messageId.length, which throws when the message
\* has no messageId; nothing has been stored yet.
CrashContinuation(c) ==
  LET r == request[c]
  IN /\ phase[c] = "gating"
     /\ r.target # NoTask
     /\ CanContinue(r.target)
     /\ r.id = AbsentId
     /\ Leave(c, "crashed", NoTask, {})
     /\ UNCHANGED <<record, run, history, restarts>>

-----------------------------------------------------------------------------
(* runTask up to its first await *)

\* Slip: off by one.
OverQuotaLate ==
  /\ MaxConcurrentTasks > 0
  /\ Cardinality(running) > MaxConcurrentTasks

OverQuota ==
  /\ MaxConcurrentTasks > 0
  /\ Cardinality(running) >= MaxConcurrentTasks

\* The run never leaves its first segment: the quota is used up, or the skill
\* is bound to an executor that is not mounted and resolve() throws.
FailAtOnce(c, t, code) ==
  /\ state' = [state EXCEPT ![t] = "FAILED"]
  /\ error' = [error EXCEPT ![t] = code]
  /\ Leave(c, IF request[c].kind = "immediate" THEN "idle" ELSE "woken", t,
           Waiters(t))
  /\ UNCHANGED run

\* returnImmediately answers now; SendMessage awaits the run, a stream awaits
\* the task's settlement.
AfterLaunch(kind) ==
  IF kind = "immediate" THEN "idle" ELSE IF kind = "send" THEN "awaitRun" ELSE "waiting"

\* Slip: the state changes and the old error stays.
LaunchKeepsError(c, t) ==
  /\ state' = [state EXCEPT ![t] = "WORKING"]
  /\ running' = running \cup {t}
  /\ race' = [race EXCEPT ![t] = "pending"]
  /\ executing' = executing \cup {t}
  /\ Leave(c, AfterLaunch(request[c].kind), t, {})
  /\ UNCHANGED error

Launch(c, t) ==
  /\ state' = [state EXCEPT ![t] = "WORKING"]
  /\ error' = [error EXCEPT ![t] = "none"]
  /\ running' = running \cup {t}
  /\ race' = [race EXCEPT ![t] = "pending"]
  /\ executing' = executing \cup {t}
  /\ Leave(c, AfterLaunch(request[c].kind), t, {})

StartRun(c, t) ==
  \/ OverQuota /\ FailAtOnce(c, t, "quota")
  \/ ~OverQuota /\ FailAtOnce(c, t, "executor")
  \/ ~OverQuota /\ Launch(c, t)

\* Slip: an empty or missing id is remembered like any other.
RememberAnyId(id, t) ==
  /\ messageIds' = [messageIds EXCEPT ![t] = @ \cup {id}]
  /\ turns' = [turns EXCEPT ![t] =
                 [m \in MessageIds |-> IF m = id THEN @[m] + 1 ELSE @[m]]]

\* The message's id is remembered with the task it starts a turn of.
Remember(id, t) ==
  /\ messageIds' = [messageIds EXCEPT ![t] = @ \cup ({id} \cap MessageIds)]
  /\ turns' = [turns EXCEPT ![t] =
                 [m \in MessageIds |-> IF m = id THEN @[m] + 1 ELSE @[m]]]

ContinueTask(c) ==
  LET r == request[c]
  IN /\ phase[c] = "gating"
     /\ r.target # NoTask
     /\ AcceptedBy(r) = {}
     /\ CanContinue(r.target)
     /\ r.id # AbsentId
     /\ Remember(r.id, r.target)
     /\ StartRun(c, r.target)
     /\ UNCHANGED <<artifact, origin, restarts>>

CreateTask(c) ==
  LET r == request[c]
  IN /\ phase[c] = "gating"
     /\ r.target = NoTask
     /\ AcceptedBy(r) = {}
     /\ \E t \in Tasks :
           /\ state[t] = ABSENT
           /\ \A u \in Tasks : u < t => state[u] # ABSENT
           /\ Remember(r.id, t)
           /\ origin' = [origin EXCEPT ![t] = r.id]
           /\ StartRun(c, t)
     /\ UNCHANGED <<artifact, restarts>>

\* SubscribeToTask passes no gate.
Subscribe(c) ==
  /\ phase[c] = "idle"
  /\ \E t \in Tasks :
        /\ state[t] # ABSENT
        /\ ~IsTerminal(state[t])
        /\ WaitTerminal(c, t)
  /\ UNCHANGED <<record, run, history, restarts>>

-----------------------------------------------------------------------------
(* The executor, which lives on after its run was aborted *)

\* eventSink: an event for a settled task is dropped.
Sinks(t) == t \in executing /\ ~IsTerminal(state[t])

ReportStatus(t) ==
  /\ Sinks(t)
  /\ \E s \in Reportable : state' = [state EXCEPT ![t] = s]
  /\ error' = [error EXCEPT ![t] = "none"]
  /\ UNCHANGED <<artifact, messageIds, run, calls, history, restarts>>

ReportArtifact(t) ==
  /\ Sinks(t)
  /\ artifact' = [artifact EXCEPT ![t] = "partial"]
  /\ UNCHANGED <<state, error, messageIds, run, calls, history, restarts>>

\* The first promise of the race to settle decides it.
Decide(t, r) == race' = [race EXCEPT ![t] = IF @ = "pending" THEN r ELSE @]

ExecutorReturns(t) ==
  /\ t \in executing
  /\ executing' = executing \ {t}
  /\ Decide(t, "output")
  /\ UNCHANGED <<record, running, calls, history, restarts>>

ExecutorThrows(t) ==
  /\ t \in executing
  /\ executing' = executing \ {t}
  /\ Decide(t, "failed")
  /\ UNCHANGED <<record, running, calls, history, restarts>>

\* The timer is cleared before another macrotask can see a decided race.
TimerFires(t) ==
  /\ TaskTimeout
  /\ race[t] = "pending"
  /\ Decide(t, "timedOut")
  /\ UNCHANGED <<record, running, executing, calls, history, restarts>>

-----------------------------------------------------------------------------
(* Cancellation: CancelTask on the wire, abort() from the dashboard *)

Abort(t) == Decide(t, "aborted")

CancelTask(t) ==
  /\ state[t] # ABSENT
  /\ ~IsTerminal(state[t])
  /\ state' = [state EXCEPT ![t] = "CANCELED"]
  /\ error' = [error EXCEPT ![t] = "canceled"]
  /\ Abort(t)
  /\ Wake(Waiters(t))
  /\ UNCHANGED <<artifact, messageIds, running, executing, request,
                 onTask, history, restarts>>

-----------------------------------------------------------------------------
(* runTask after its race *)

AskCode(s) == IF s = "INPUT_REQUIRED" THEN "input_required" ELSE "auth_required"

\* Slip: a status the executor reported is kept, WORKING included.
ConcludeKeepsStatus(t) ==
  /\ artifact' \in {artifact, [artifact EXCEPT ![t] = "final"]}
  /\ UNCHANGED <<state, error>>

\* The output is folded into the record: its parts, unless it has none or
\* appendResult is false, and the interrupted state it may ask for.  What was
\* returned matters only here, so it is chosen here.
Conclude(t) ==
  /\ artifact' \in {artifact, [artifact EXCEPT ![t] = "final"]}
  /\ \/ \E ask \in INTERRUPTED_STATES :
           /\ state' = [state EXCEPT ![t] = ask]
           /\ error' = [error EXCEPT ![t] = AskCode(ask)]
     \/ /\ state[t] \in INTERRUPTED_STATES
        /\ UNCHANGED <<state, error>>
     \/ /\ state[t] \notin INTERRUPTED_STATES
        /\ state' = [state EXCEPT ![t] = "COMPLETED"]
        /\ error' = [error EXCEPT ![t] = "none"]

FailRun(t) ==
  /\ state' = [state EXCEPT ![t] = "FAILED"]
  /\ error' = [error EXCEPT ![t] = IF race[t] = "timedOut" THEN "timeout" ELSE "executor"]
  /\ UNCHANGED artifact

\* Slip: the cancel is not looked for.
SettlementOverCancel(t) ==
  \/ race[t] = "output" /\ Conclude(t)
  \/ race[t] # "output" /\ FailRun(t)

\* A cancel that came first has settled the task: nothing more is written.
Settlement(t) ==
  \/ state[t] = "CANCELED" /\ UNCHANGED <<state, error, artifact>>
  \/ state[t] # "CANCELED" /\ race[t] = "output" /\ Conclude(t)
  \/ state[t] # "CANCELED" /\ race[t] # "output" /\ FailRun(t)

\* Slip: the executor is awaited even when it was abandoned.
FinishRunAfterExecutor(t) ==
  /\ t \in running
  /\ race[t] # "pending"
  /\ t \notin executing
  /\ Settlement(t)
  /\ running' = running \ {t}
  /\ race' = [race EXCEPT ![t] = "none"]
  /\ Wake(Released(t))
  /\ UNCHANGED <<messageIds, executing, request, onTask, history, restarts>>

FinishRun(t) ==
  /\ t \in running
  /\ race[t] # "pending"
  /\ Settlement(t)
  /\ running' = running \ {t}
  /\ race' = [race EXCEPT ![t] = "none"]
  /\ Wake(Released(t))
  /\ UNCHANGED <<messageIds, executing, request, onTask, history, restarts>>

-----------------------------------------------------------------------------
\* The resumed handler sends its answer.
Reply(c) ==
  /\ phase[c] \in {"woken", "rejected", "crashed"}
  /\ phase' = [phase EXCEPT ![c] = "idle"]
  /\ onTask' = [onTask EXCEPT ![c] = NoTask]
  /\ UNCHANGED <<record, run, request, history, restarts>>

\* The process stops, its writes drained, and starts again: tasks are reloaded
\* as they were; runs, executors and connections are gone.  A crash that loses
\* queued writes is TaskStore's subject.
Restart ==
  /\ restarts < MaxRestarts
  /\ restarts' = restarts + 1
  /\ running' = {}
  /\ race' = [t \in Tasks |-> "none"]
  /\ executing' = {}
  /\ phase' = [c \in Calls |-> "idle"]
  /\ request' = [c \in Calls |-> NoRequest]
  /\ onTask' = [c \in Calls |-> NoTask]
  /\ UNCHANGED <<record, history>>

CallStep(c) ==
  \/ Receive(c) \/ Refuse(c) \/ Replay(c)
  \/ RejectContinuation(c) \/ CrashContinuation(c)
  \/ ContinueTask(c) \/ CreateTask(c) \/ Subscribe(c) \/ Reply(c)

TaskStep(t) ==
  \/ ReportStatus(t) \/ ReportArtifact(t)
  \/ ExecutorReturns(t) \/ ExecutorThrows(t)
  \/ TimerFires(t) \/ CancelTask(t) \/ FinishRun(t)

Next ==
  \/ \E c \in Calls : CallStep(c)
  \/ \E t \in Tasks : TaskStep(t)
  \/ Restart

Spec == Init /\ [][Next]_vars

\* Promise continuations always run, and a timer that is set fires.  Nothing
\* is assumed of executors: they may never return.
Fairness ==
  /\ \A t \in Tasks : WF_vars(TimerFires(t)) /\ WF_vars(FinishRun(t))
  /\ \A c \in Calls : WF_vars(Reply(c))

FairSpec == Spec /\ Fairness
-----------------------------------------------------------------------------
(* Properties *)

\* A settled task is never written again: not by its run, whose executor may
\* return long after the cancel or the timeout, not by a late executor event,
\* not by a further message (TERMINAL_STATES: "a settled task no longer
\* transitions").
TerminalIsFinal ==
  [][\A t \in Tasks : IsTerminal(state[t]) =>
        /\ state'[t] = state[t]
        /\ error'[t] = error[t]
        /\ artifact'[t] = artifact[t]]_vars

\* A client that repeats a message, concurrently or after a restart, gets the
\* same task and no second turn (ensureTask's messageId look-ups).
Idempotent ==
  /\ \A t \in Tasks, m \in MessageIds : turns[t][m] <= 1
  /\ \A t, u \in Tasks : origin[t] = origin[u] /\ origin[t] \in MessageIds => t = u

\* However requests interleave at the gate, no more runs are underway than
\* maxConcurrentTasks allows.
QuotaRespected ==
  MaxConcurrentTasks > 0 => Cardinality(running) <= MaxConcurrentTasks

\* Nobody waits for a settlement that already happened: a blocked caller's
\* task either has a run that will settle it or is still unsettled.
NoStrandedWaiter ==
  \A c \in Calls :
     /\ phase[c] = "waiting" =>
           onTask[c] \in running \/ ~IsSettled(state[onTask[c]])
     /\ phase[c] = "awaitRun" => onTask[c] \in running

\* A task is shown as underway while nothing runs it only because the process
\* restarted; no run ends without settling or pausing its task.
Orphan(t) == state[t] \in ActiveStates /\ t \notin running
OnlyRestartOrphans ==
  [][\A t \in Tasks : Orphan(t)' /\ ~Orphan(t) => restarts' # restarts]_vars

\* A task's next turn never starts while the executor of an earlier turn is
\* still at work on it, though runs abandon executors that ignore their signal.
OneExecutorPerTask ==
  [][\A t \in running' \ running : t \notin executing]_vars

\* A blocked SendMessage or stream is released only when its own task has
\* settled or asks for input.
NoEarlyRelease ==
  [][\A c \in Calls :
       phase[c] \in {"waiting", "awaitRun"} /\ phase'[c] = "woken"
         => IsSettled(state'[onTask[c]])]_vars

\* The record's error says how the task came to its state; a stale code never
\* survives into another state (store.setState, withState).
ErrorTellsWhy ==
  \A t \in Tasks :
     /\ state[t] = "FAILED" <=> error[t] \in {"quota", "executor", "timeout"}
     /\ state[t] = "CANCELED" <=> error[t] = "canceled"
     /\ error[t] = "input_required" => state[t] = "INPUT_REQUIRED"
     /\ error[t] = "auth_required" => state[t] = "AUTH_REQUIRED"

\* What makes TerminalIsFinal and its companions inductive: a task whose run
\* has not finished is unsettled unless it was canceled, and then its race is
\* decided; an executor without a run belongs to a settled task.
RunInvariant ==
  \A t \in Tasks :
     /\ t \in running <=> race[t] # "none"
     /\ t \in running => state[t] # ABSENT
     /\ t \in running /\ IsTerminal(state[t]) => state[t] = "CANCELED"
     /\ race[t] = "aborted" => state[t] = "CANCELED"
     /\ race[t] = "pending" => state[t] # "CANCELED" /\ t \in executing
     /\ race[t] \in {"output", "failed"} => t \notin executing
     /\ t \in executing /\ t \notin running => IsTerminal(state[t])

\* A task that does not exist has left no trace.
AbsentInvariant ==
  \A t \in Tasks : state[t] = ABSENT =>
     /\ error[t] = "none" /\ messageIds[t] = {} /\ origin[t] = AbsentId
     /\ t \notin executing
     /\ \A m \in MessageIds : turns[t][m] = 0

\* Message ids, turns and origins agree.
IdsInvariant ==
  /\ \A t \in Tasks, m \in MessageIds :
        turns[t][m] = IF m \in messageIds[t] THEN 1 ELSE 0
  /\ \A t \in Tasks : origin[t] \in MessageIds => origin[t] \in messageIds[t]

\* A blocked call names a task that exists.
CallsInvariant ==
  \A c \in Calls :
     phase[c] \in {"waiting", "awaitRun"} =>
        onTask[c] \in Tasks /\ state[onTask[c]] # ABSENT

IInv == /\ TypeOK
        /\ RunInvariant
        /\ AbsentInvariant
        /\ IdsInvariant
        /\ CallsInvariant
        /\ Idempotent
        /\ QuotaRespected
        /\ NoStrandedWaiter
        /\ ErrorTellsWhy

\* Every blocked caller gets its answer.
CallersAnswered ==
  \A c \in Calls : phase[c] \in {"waiting", "awaitRun", "woken"} ~> phase[c] = "idle"

\* The server implements the contract, its message ids being the accepted ones.
Contract == INSTANCE TaskContract
              WITH Task <- Tasks, MessageId <- MessageIds, accepted <- messageIds

\* Every step of the server is a step of the contract or leaves it alone.
ImplementsContract == Contract!Spec

\* Without restarts, and with promises and timers fair, no task stays active,
\* though executors may hang: the timeout decides the race (taskTimeoutMs, which
\* has a default).
ImplementsFairContract == Contract!FairSpec
=============================================================================
