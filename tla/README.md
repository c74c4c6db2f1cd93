# dsh-a2a in TLA+

This directory holds a TLA+ model of the A2A (agent to agent) plugin under
`src/`: the modules, the TLC configurations that check them on small instances,
and proofs that TLAPS checks for every value of the constants. Paths below are
relative to the repository's `src/` directory unless they say otherwise.

## 1. The system

A host application runs agents. The plugin makes them reachable over the A2A
protocol (inbound) and makes remote A2A agents available to them as tools
(outbound). Everything runs in one Node process: a handler runs to its next
`await` without interruption and any other handler may run in between.

| Part | State | Operations | Talks to |
|---|---|---|---|
| Inbound task server `server/a2a-server.ts` | map of running tasks to abort controllers, waiters per task, event log and listeners per task | SendMessage, SendStreamingMessage, SubscribeToTask, CancelTask, GetTask, ListTasks, resume | store, executors, rate limiter |
| Task store `server/store.ts` | live tasks in memory, a write chain in front of the medium | create, appendInput, setState, withState, list, prune | task server, session views |
| Executors `server/exec/*.ts` | none of their own | run(task, signal, onEvent) | session pool, host |
| Session pool `server/exec/agent-runtime.ts` | handles, openings and tails per context | agentFor, runTurn, disposeContext, disposeAll | host agents |
| Rate limiter `server/rate-limit.ts` | time stamps per client address | allow | HTTP routes |
| Inbound instances `servers/inbound-manager.ts` | table of instances, one store domain each | add, update, setAuth, setEnabled, remove, boot | task server, routes, cards |
| Outbound connections `servers/outbound-manager.ts`, `outbound/registry.ts` | records, registries, live connections and views, refresh timer | add, update, setAuth, setEnabled, refresh, remove, boot | host tools, remote agents |
| Outbound client `outbound/calls.ts` | one call's progress | send, stream, poll, cancel | remote agents |
| Inbound peers `server/inbound-registry.ts` | peers and their active tasks | note, settle, closePeer | task server, dashboard |
| Session views `server/session-registry.ts` | open streams per task | noteStreamOpen, noteStreamClose, clear | task server, dashboard |
| Update checker `update.ts` | the last answer, a lookup under way | check | npm and GitHub, dashboard |
| Dashboard client `client/index.ts`, `client/update-status.ts` | snapshot, forms, version strip | submit, remove, check for updates | `api.ts` |
| Facade, API, commands, cards, metrics, trace | derived or wiring | | |

How they interact. A message arrives at a route, passes the rate limiter and the
bearer check, and is bound by the task server to a new or an existing task. The
server starts an executor and races it against the task's abort signal and its
timeout; the executor asks the session pool for its context's agent and queues
its turn behind the earlier ones of that context. Events of the executor go
through the server into the store and out to every subscriber; a subscriber that
lost its connection comes back with `Last-Event-ID`. On the other side the
outbound manager keeps one registry per connection, which reads the remote
agent's card, registers its tools with the host and saves what it learned.

What is hard about it:

- requests for one task or with one message id interleave at the gate's `await`;
- a run is decided by whichever of executor, cancel and timeout comes first, and
  an executor that lost goes on working and reporting;
- callers wait for a settlement that may already have happened;
- the process may restart between any two segments;
- turns of one context share an agent, sessions are opened by single flight, and
  contexts are closed and the whole pool is torn down meanwhile;
- streams break and resume, with a bounded log of frames;
- dashboard operations and the refresh timer overlap at their awaits, while
  writes to the medium queue up;
- an edit of a server replaces its instance while its tasks run, its streams are
  open and its peers are listed;
- one message is several writes to the store, and the process may end between any
  two of them;
- lookups are shared and cached, and their answers reach a page in any order.

What makes each part correct: the server settles every task once, for good and
for the right reason, starts one turn per message id and one executor per task
at a time, respects its quota and leaves no caller waiting; the pool keeps one
session per context, turns in order, and nothing that was open behind after an
unload; a client that has read everything has the task's state, and within a turn
its artifact (section 3 names the one case where it must wait for the state); the limiter
never lets more than its limit through in any window; a connection has its tools
exactly as long as it is live, its flag survives, and what is disposed is out of
reach; the store has what readers see, or will have it; a task that settled is
overwritten only where an edit let two instances take messages for it; the
dashboard says and does what its user sees and asks.

## 2. The modules

| Module | Models | State and actions |
|---|---|---|
| `A2AProtocol` | `protocol.ts` | the task states and their classes |
| `TaskContract` | (abstract) | what an endpoint promises about its tasks, nothing of how |
| `A2AServer` | `server/a2a-server.ts`, the store calls it makes | requests at the gate, runs, races, executors, waiters; one action per segment between two awaits |
| `EventStream` | `emit`, `replay`, `handleStream` of `a2a-server.ts`, `applyFrame` of `outbound/calls.ts` | one task's log, each client's connection, unread frames, copy of the task and cursor; turns begun by a plain message, by a stream with or without a cursor, or failed for the quota |
| `SessionPool` | `server/exec/agent-runtime.ts`, how `session.ts` and `subagent.ts` use it | handles, openings, tails; callers from arrival to end; close and teardown |
| `RateLimiter` | `server/rate-limit.ts` | hits per address, the cleanup of the map, a clock |
| `OutboundServer` | `servers/outbound-manager.ts`, `outbound/registry.ts` | one connection's two rows, write chain, registries, tools, and overlapping operations |
| `OutboundCall` | `outbound/calls.ts`, `execute` of `outbound/tools.ts` | one tool call: its request, attempts, copy of the task, abort and deadline; the remote task, messages on the way |
| `InboundServer` | `servers/inbound-manager.ts`, `server/routes.ts` | one server's row, write chain, instances with their routes, and overlapping operations |
| `InboundTasks` | `server/inbound-registry.ts`, `server/session-registry.ts`, the control calls of `index.ts`, and the task server across an edit | several instances' runs, each up to its quota, calls that wait, active tasks of each peer, stream counts; one action per handler's segment and per click on the dashboard |
| `TaskStore` | `server/store.ts`, ListTasks of `server/a2a-server.ts` | records in memory and in the table, the write chain between them, failed writes, crashes |
| `UpdateChecker` | `update.ts`, `client/update-status.ts`, the strip of `client/index.ts` | the cache, the lookup, its sources, the requests under way and what the page shows |
| `Dashboard` | the forms of `client/index.ts`, the control calls of `api.ts` and `index.ts` | what a page shows, its two forms, the handlers under way with the fields they captured, the servers |

`MC*` modules give the constants that a `.cfg` cannot spell. The eight `*Proofs`
modules hold the proofs (section 4).

How they compose. `A2AServer` implements `TaskContract` through
`INSTANCE TaskContract WITH Task <- Tasks, MessageId <- MessageIds, accepted <-
messageIds`: the run checks `Contract!Spec` and, with fairness,
`Contract!FairSpec`. The others meet at interfaces: an executor in `A2AServer`
is anything that reports, returns, throws or hangs, of which `SessionPool`'s
callers are one kind; `EventStream`'s task changes as `A2AServer`'s does, with a
simpler reason for each change; `RateLimiter` stands in front of both.
`InboundTasks` composes the two that share tasks and instances: what
`InboundServer` calls an edit replaces what `A2AServer` calls the server, with
its runs and waiters; each is reduced to what the swap can disturb. `TaskStore`
is the store that `A2AServer` sees only as its live view.

Definitions keep the source's names where they have one. Each module also holds
a few definitions marked "Slip": a plausible bug in the definition that follows
it, kept to show that the property it breaks depends on that line of the code.
No specification uses them.

### Abstractions

- Messages carry an id and a target; their content is left out. `messageId: ''`
  (`EmptyId`) and a missing one (`AbsentId`) are kept apart because the code
  treats them differently.
- Task ids are random UUIDs; a task is numbered by its order of creation.
- What an executor returns is chosen when its run concludes, where it is read.
- The store seen by `A2AServer` is the live view that every reader sees; the
  write chain behind it is `TaskStore`, where a handler is one step with several
  writes and only a crash falls between them, which is what the handlers' lack of
  awaits there gives.
- A message in `TaskStore` stands for its id and its parts. What else a record
  holds (artifacts, status text, trace) is the number of its revision.
- `EventStream`: a message that opens a stream attaches its listener, starts its
  turn and replays in one segment, which is one action with the frames in the
  code's order. An executor emits nothing before its first await. A skill that is
  bound to an executor which is not mounted (`server/executor.ts:74-76`) fails its
  turn in that segment and is left out. The end of a turn is one step with the
  final snapshots of its streams: nothing is emitted before they are woken.
- `InboundTasks` lets an edit happen in one step: what comes between its awaits
  is `InboundServer`'s. Executors report and end as they like. A client that goes
  away is not modelled, because the handler of its stream does not learn of it: a
  stream is open as long as its handler waits.
- `SessionPool`: dispose() of a session takes no time and does not fail. The code
  waits for it with `allSettled` (`server/exec/agent-runtime.ts:344` and `498`), so
  a failure changes nothing in the pool.
- `UpdateChecker` orders versions by the code's comparison over a small set that
  has every case of it: a release, a prerelease of it, a longer prerelease with
  the same beginning, numeric before other identifiers, a later release. A source
  answers a version, fails or hangs until its timeout.
- `Dashboard` keeps of a form its target, its token and its clear flag; other
  fields are saved with the first call.
- The host (agents, tools, medium) is what `src/` uses of it: agents open or
  fail to and become idle when they like; outside `TaskStore`, writes succeed in
  the order they were queued.
- `OutboundServer` keeps one connection of the manager: operations on different
  connections share nothing but the write chain. What update() and
  setAuth() patch is left out: `Edit` is update(), `SetAuth` reads the record and
  waits for the credentials service, which may refuse, before it saves that record;
  what follows is the same. The timer's schedule is left out: a refresh may begin
  at any time.
- `InboundServer` keeps one server, and of a row its enabled flag and the number
  of its last edit. An instance is its number: its task server, pool and card
  are other modules' matter. Deriving skills and resolving the token fall back
  instead of failing, so an operation that has begun ends, unless the
  credentials service refuses the token.
- `OutboundCall` keeps one task at a remote that recognises a repeated message,
  as this plugin's own server does (`A2AServer`, `Idempotent`). An answer may be
  older than the task is: it says WORKING or what the task is now.

## 3. What the runs check

| Run | Shows | Bounds |
|---|---|---|
| `server_safety` | `Idempotent`, `QuotaRespected`, `NoStrandedWaiter`, `ErrorTellsWhy`, `TerminalIsFinal`, `OnlyRestartOrphans`, `OneExecutorPerTask`, `NoEarlyRelease`; refines `TaskContract` | 2 tasks, 2 request slots, 2 message ids, quota 1, 1 restart |
| `server_live` | `CallersAnswered`: every caller is answered; the contract's liveness; `TypeOK` with messages that have no usable id | 2 tasks, 2 slots, 1 id, no restart |
| `store` | `TableTrailsLive`: the table follows what is seen; `AcceptedOnce`: an accepted message is in the history after any crash, once; `UntouchedNeverMissed`: paging; `FirstInputStays`: older records | 2 tasks, 2 messages, 3 operations, 1 failed write, 1 crash |
| `tasks` | `WaitersReached`: who waits will hear, and a close reaches them; `StreamsCounted`; `SettledByOneInstance` | 2 servers, 2 tasks, 2 peers, 2 calls that wait, 3 requests, 2 edits, quota 1 |
| `pool` | `TurnsInOrder`; `OneOpenSession` per context, named once; `TeardownComplete`; `CallersEnd` | 1 context, 2 turns (one abortable), 1 delegation, 3 sessions, 1 close, unload by 2 executors |
| `stream` | `StatusFaithful`: a client that reconnects has the state, every retained status once and in order, with one exception (below); `ArtifactFaithfulInTurn` | 1 client, log of 3 frames, 6 frames, 3 turns |
| `limiter` | `WindowRespected`; `RetryAfterHonest`, in whole seconds; `MemoryBounded` | 2 addresses, 2 hits per window of 3 ms, seconds of 2 ms, map of 1, 8 ms, 6 hits |
| `outbound` | `ConnectedHasTools`: what is shown as connected is live and has its tools; `QuietIsConsistent`: operations that come one at a time leave no tools behind and keep the flag; `OpsEnd` | 2 operations at a time, 4 in all, 2 registries, 1 restart |
| `call` | `ResultIsFinal`, `PollAbortPropagates`, `CallEnds` | both modes, 2 retries |
| `inbound` | `DisposedIsGone`; `InstanceMatchesRecord`: table, routes, record and flag agree; `OpsEnd` | 2 operations at a time, 5 in all, 1 restart |
| `update` | `UpdateHonest`: the strip never calls an older version an update nor a newer one up to date; `AnswersFresh`; `ChecksEnd` | 5 versions (1.0.0-2, 1.0.0-rc, 1.0.0-rc.1, 1.0.0, 1.1.0-rc), lifetime 2, clock to 3, 1 click, 1 restart |
| `dashboard_token` | expects a violation of `TokenAsAsked` (see below) | 1 page, 1 server that has a token, 2 submissions |

Each run takes between a few seconds and a minute and a half. Of the type
invariants only `A2AServer`'s is checked in a run, where a mutant shows that it can
fail; the types of every component a theorem is about are proved (section 4).

What some of them do not say. `StatusFaithful` makes one exception, for a client
that starts a turn with a message that brings a cursor: it is sent the turn's first
frame ahead of older ones, so until it opens another stream its ids may be out of
order, and its state may be wrong, but no longer than to the turn's next status or
task frame (the property says so while that frame is retained). It misses no
status even then. `TeardownComplete` is about the sessions
in the table when the unload begins. `QuietIsConsistent` and `InstanceMatchesRecord`
are about operations that come one at a time; what overlapping ones may leave is
listed among the disagreements. The part of `WaitersReached` that says that a close
reaches the waiting is about streams of the live instance: a blocking message is
noted with its answer only.

Why the bounds are enough. Each hazard needs two of something: two copies of a
message, two tasks for a quota of one, a run with its abandoned executor and a
second turn, two callers on one task, two turns and a delegation on one context. The
bounds give two and one more event to disturb them. Slots are reused without limit,
so a request can follow another for ever. `MaxLog` is smaller than the number of
frames, so frames are dropped; `MaxKeys` is smaller than the number of addresses, so
the map is cleaned. In `tasks` one edit lets a task run twice and a second lets the
calls of three instances meet; with a quota of one the second message of an instance
is over it, which the old run of the task outlives. An instance with two runs, and
any other quota, is left to the proofs. In `stream` the third turn is one that
starts behind two that may be replayed. In `store` an operation is a whole handler
with up to four writes, so three of them, a failed write and a crash give every way
to lose part of a continuation. In `update` the clock passes the cache's lifetime
once, and the sources may change their answer meanwhile.

Fairness. `A2AServer`: promise continuations run (`FinishRun`, `Reply`) and a timer
that is set fires (`TimerFires`); nothing is assumed of executors. So the liveness
run sets `taskTimeoutMs`, which has a default. `OutboundCall`: a timer that is set
fires, so a request is answered, fails or times out and the deadline passes; nothing
is assumed of the remote agent. `InboundServer`: a queued write is done, and the
credentials service and the preset roster answer. `SessionPool`: a caller that is
ready goes on, an opening settles and an agent becomes idle in the end; these two
are the host's and the module says so: behind a host that hangs a context's queue
hangs. `OutboundServer`: a queued write is done, the credentials service answers,
and a card is read, fails or times out. `UpdateChecker`: a page asks, an answer
arrives, a connection whose host is gone breaks, and a source answers, fails or
times out, so that a lookup ends. Clients, timers' schedules, cancels, closes and
failures are never fair.

`CHECK_DEADLOCK FALSE` where a run's bounds, or the end of all work, stop the
system.

### Where code and documentation disagree

One run expects a violation. `dashboard_token`: `docs/guide/operations.md:57`
says that Clear auth "removes the stored token and rebuilds it anonymously". The
button sets a field and calls the submission of the last rendering, where that
field is still unset (`client/index.ts:662`): the record is saved, no token is
removed, and the form is emptied as if it were. `TokenAsAsked` also fails for a
token typed for a new server: the page looks for the server it has created at the
front of a new snapshot (`client/index.ts:441` and `506`), where the oldest one
is, so that this one gets the token.

Five more contradict a document or comment; the modules have the behaviour, no
run is spent on them.

- `server/exec/agent-runtime.ts:339`: a close drops its context's chain while
  turns are queued on it, so a turn that comes later may use the next session
  beside them, against "turns serialized per context" (lines 170-172).
- `server/a2a-server.ts:700`: a replay leaves out artifact frames only. In a
  task's second turn it replays the first turn's task frame after the snapshot,
  which takes a client's artifact back to what it was, against "sends the current
  task, then replays status frames only" (`docs/reference/http-api.md:401`).
- `server/a2a-server.ts:367`: SendStreamingMessage with `Last-Event-ID` that starts
  a turn of a task emits the turn's WORKING (over the quota, its FAILED task frame)
  to its own stream before it replays the older frames two lines below. The ids
  arrive out of order, the client's cursor falls back behind what it has read, and
  its copy says INPUT_REQUIRED while the task works, until the next status or task
  frame; against "status/artifact frames follow it (or replay after a cursor)"
  (lines 363-364) and the passage of `http-api.md` above.
- `outbound/calls.ts:224` and `174`: both loops of the client stop for a terminal
  task only. A task that asks for input is polled until the deadline, then
  canceled, and the call throws, against "Interrupted states are returned as text
  that includes the remote task id" (`docs/reference/http-api.md:527`).
- `servers/inbound-manager.ts:462`: an edit that is under way during a removal
  puts its instance back, and may save the row again, against "the instance does
  not reappear on restart" (`docs/guide/operations.md:156`).

Others were met while modelling and have no run.

- Calls: a stream that is aborted between two attempts has forgotten its task id
  and cancels nothing; one that times out cancels its task and then repeats the
  message.
- Inbound servers: a toggle during an edit is lost, in the routes or in the row;
  two overlapping edits leave the first one's instance routed and undisposed; an
  edit replaces the task server under running tasks.
- Outbound connections: a refresh that is reading a card while its connection is
  deleted leaves its tools, or its record, behind; a connection that was disabled
  and enabled again does not come back after a restart, because the agent's own
  row keeps `enabled: false`; a refresh of a disabled connection registers its
  tools; a refresh that overlaps a toggle writes the old flag back; two
  overlapping refreshes of one agent leave the first one's tools behind; an agent
  that cannot be connected at boot has no view, so that neither refresh nor
  enable brings it back.
- Pool: a turn canceled while it waits in the queue is sent to the agent all the
  same; a session whose opening was under way when an unload began survives that
  disposeAll (a second executor's disposeAll collects it).
- Task server: a continuation without a `messageId`, a field the protocol
  requires, is answered with an internal error (`server/store.ts:462`).
- Store: a failed write is thrown where nobody catches it (`server/store.ts:387`),
  so the task goes on; the table lacks it until the task's next write.
- Listing: with a status filter a task may be skipped, because one that leaves the
  filtered list between two pages moves the others up.
- Instances: after an edit the old and the new instance may run one task, and the
  later end overwrites what the earlier settled; or the new one, full, fails the
  task for its quota while the old run goes on, and its end overwrites FAILED. The
  facade's closeInbound stops at the first instance that answers.
- Peers: the flag `streaming` is never reset, because nothing calls endStream;
  GetTask, ListTasks, CancelTask and subscriptions that fail count among a peer's
  active tasks.
- Version strip: the answer to the page's first question may arrive after a
  click's and repaint it with older news.

## 4. What is proved

Eight modules hold proofs, each next to the module it is about, from the named
assumptions on the constants alone. Every inductive invariant below was checked by
TLC on the instance of its run before it was proved.

| Proof module | Inductive invariant | Properties that follow |
|---|---|---|
| `A2AServerProofs` | `IInv` (`InvariantCorrect`), `TypeOK`, `RunInvariant` | `Idempotent`, `QuotaRespected`, `NoStrandedWaiter`, `ErrorTellsWhy`, `TerminalIsFinal`, `OneExecutorPerTask`, `NoEarlyRelease`, `OnlyRestartOrphans`, `ImplementsContract` |
| `TaskStoreProofs` | `StoreInv` (`StoreHolds`), `ViewsInv` (`ViewsGoOn`) | `TableTrailsLive`, `AcceptedOnce`, `FirstInputStays`, `UntouchedNeverMissed` |
| `InboundTasksProofs` | `RunsInv` (`RunsOvertaken`), `Known` (`KnownHolds`), one more for each of the last two | `SettledByOneInstance`, `WaitersReached`, `StreamsCounted` |
| `SessionPoolProofs` | `PoolInv` (`PoolTables`), `ChainHolds` | `OneOpenSession`, `TeardownComplete`, `TurnsInOrder` |
| `RequestProofs`, of `RateLimiter` | `IInv` (`LimiterCorrect`), `RetryInv` | `WindowRespected`, `RetryAfterHonest`, `MemoryBounded` |
| `RequestProofs`, of `OutboundCall` | `TypeOK` with `KnowsTask` | `ResultIsFinal`, `PollAbortPropagates` |
| `CopyProofs`, of `EventStream` | `StreamInv` (`StreamGoesOn`) | `StatusFaithful`, `ArtifactFaithfulInTurn` |
| `CopyProofs`, of `UpdateChecker` | `UpdateInv` (`CheckGoesOn`) | `UpdateHonest`, `AnswersFresh` |
| `OutboundServerProofs` | `ConnInv` (`ConnectionsHold`), `AloneInv` (`AloneHolds`) | `ConnectedHasTools`, `QuietIsConsistent` |
| `InboundServerProofs` | `InstanceInvariant`, `AloneInv` | `DisposedIsGone`, `InstanceMatchesRecord` |

So every invariant, every action property and the safety refinement that a passing
run checks is also a theorem. Each component's types are proved as well, as `TypeOK`,
`LimiterTypeOK` (a part of `IInv`) or, of `UpdateChecker`, in `UpdateInv`. Two proof
modules extend two components each, so the specifications of `RateLimiter` and
`UpdateChecker` have names of their own (`LimiterSpec`, `UpdateSpec`).

The arguments, module by module.

`A2AServerProofs`. A lemma for each operator that several actions share (`Leave`,
`Wake`, `Remember`, `Decide`, `StartRun`, `Settlement`), then one step per action
and one lemma per conjunct of `IInv`. `RunInvariant` ties a task's run, race,
executor and state together: a settled task that still has a run can only be a
canceled one, so the run writes nothing (`SettledForGood`), and a task that can be
continued has neither run nor executor (`ExecutorsAlone`). `Idempotent` needs what
`IdsInvariant` and `CallsInvariant` say of the requests between the gate and their
task. `NoEarlyRelease` and `OnlyRestartOrphans` go by the actions: only three
operators move a caller out of its wait, and each of them settles the caller's
task. `ServerImplementsContract` maps every action to a step of `TaskContract` or a
stutter; the two that need `IInv` are the end of a run and a continuation.

`TaskStoreProofs`. `TableTrailsLive` says that the last write queued for a task, or
the table if there is none, is what readers see. It becomes inductive by naming
that write (`Trails`); a failed write is the only step that puts a task among the
`unsaved`. `AcceptedOnce` and `FirstInputStays` need the same of every copy of a
record: in memory, in the table and in the queue it is sound and has its task's
first input (`Written`), so that a crash between two writes brings back nothing
else. `TablesAssumption` says what the first process may find. Of a record older
than the field `inputs` it assumes that it had one message: of an older record with
more the program keeps the last one (`server/store.ts:591-601`), and the earlier
ids are then accepted without being in the history.

`UntouchedNeverMissed` is proved for pages of any size (`PagesMissNothing`) and then
for the pages of the run. A task's position in a list is the number of tasks sorted
before it. `ViewsInv` says that the views of a process go onwards: a task that is
listed stays listed, and is only ever stamped later. So whatever is ahead of an
untouched task stays ahead of it and others may join (`AheadGrows`), and its
position never falls from one page to the next (`PositionGrows`). The first page
whose end lies behind the position shows the task: the page before it ended at or
before the position, and the last page ends behind it (`SomePageShows`).

`InboundTasksProofs`. The action property `SettledByOneInstance` alone says nothing
of runs; inductive is that whoever runs a task has taken a message for it, and that a run
under way behind a settled task was overtaken by another instance that took one
too, to run the task or to fail it for the quota, or the task was canceled
(`Overtaken`). An instance takes no message for a task it runs, so what overtakes a
run is never its own instance. A run that ends looks at the store, so it never
overwrites a cancel. The quota is any number, and 0 for none. `WaitersWillHear` and
`StreamsAreCounted` rest on `Known`: an unsettled task is being run
(`OwnersKnow`), and a request knows an instance no newer than the live one
(`KnowsOf`). The count of streams is by cardinality, so its invariant carries that
the streams open on an instance are finitely many.

`SessionPoolProofs`. `PoolInv` says what each table means: a session in `openings`
is being opened for that context, one in `handles` is open and the context's own
(`TablesHold`), until an unload nothing is open outside the tables
(`TablesComplete`), and only its opener names a session (`OpenersName`).
`TurnsInOrder` follows from `ChainHolds`: each turn waits for the one before it or
all earlier ones are over, and the tail is the last to arrive.

`RequestProofs`, the limiter. `WindowRespected` is not inductive: it speaks of all
hits ever allowed while the code looks only at those it remembers. `Remembered` says
that whatever still counts is remembered, so that a new hit is admitted only when
the window has room for it. `RetryAfterHonest` needs that rounding up to whole
seconds never shortens a wait (`RoundedUp`), for any length of a second.

`OutboundServerProofs`. `ConnInv`, with any number of overlapping operations: a live
connection has its tools, no two connections share one (`OneHolder`, the reason why
disposing one's tools leaves the others' alone), an agent has one view, and a view
that says connected has a connection or a refresh that will tell (`Shown`).
`AloneInv`, while operations come one at a time: the tools are those of the
registry the manager holds, the operation is where its kind and segment say, and
every queued write of the record is the only operation's and holds what the record
will be (`RecordFollows`); a write that waits while an operation connects would
break it, and none does.

`RequestProofs`, a call. The types say among other things that attempts never exceed
the retries. `PollAbortPropagates` needs `KnowsTask`: a polling call has a copy of
the task as soon as it was told of one, because only streams start over without it.

`InboundServerProofs`. `DisposedIsGone` is inductive with `NumberedSoFar`: every
instance in the table, with routes or disposed was built before, and an edit under
way knows one; a new instance has a new number, so it is no disposed one, and the
edit that disposes an instance takes its routes and its place.
`InstanceMatchesRecord` needs `Phases`, what table, routes, record and queue look
like while the only operation is at each of its awaits.

`CopyProofs`, the streams. A client's copy is a fold over what it reads, but the
invariant speaks of one frame at a time: there are copies of which each is the one
before it after one more frame, the first is the client's and the last is the
task's (`Ahead`). A frame that is emitted adds one copy at the end, a frame that is
read takes one away at the front, and neither needs an induction over the frames.
`Ordered` says that numbered frames reach a client in the order of their ids, past
its cursor; with it `Covered` says that a retained status frame the client asked for
was read or is on its way, through disconnects, replays and evictions. A client
that starts a turn with a cursor may be sent the turn's first frame ahead of older
ones (`behind`). Of it `Ordered` and `Covered` are not claimed; what it asked for is
still read or coming while it is connected (`Awaited`), and its copy leads to the
task as soon as a later frame has shown the state (`Ahead`). That happens to nobody
in the first turn. The parts are
followed in the first turn only, which is why no task frame may be retained then
(`TurnInv`); what happens later is in section 3.

`CopyProofs`, the update check. `Precedes` is SemVer's own definition of precedence,
with none of the code's steps; `OrderAssumption` says that `Ascending` goes up in
it. `ComparisonIsPrecedence` proves that the code's comparison, which looks for the
first difference, agrees with it for versions of any numbers and any identifiers:
the first difference is a least element (`MinIs`), and each side of a comparison is
the other's negation (`IdentifiersOrdered`, `PrereleasesOrdered`, `VersionsOrdered`).
The loop over the candidates then keeps the highest (`LookupInv`), so that an answer
made of it is honest (`InfoIsHonest`), and honesty is kept by whatever copies the
answer: the cache, a waiting check, the strip. Freshness needs that whoever waits
asked before the lookup ended, and that the cache is not from the future.

Assumptions. TLC evaluates all of them on the runs. These say more than the types of
the constants: `StoreAssumption` (`TaskStore`: the tasks that may exist are finitely
many), `TablesAssumption` (`TaskStore`: above), `OutboundAssumption`
(`OutboundServer`: there is room for one registry, which add makes),
`StreamBoundsAssumption` (`EventStream`: the log keeps at least one frame),
`UpdateAssumption` (`UpdateChecker`: a version that does not parse and a missing one
are none of the published versions) and `OrderAssumption` (above: it only lists the
published versions from lowest to highest).

Only model-checked are liveness and refinement under fairness (`CallersAnswered`,
`ImplementsFairContract`, `CallersEnd`, `OpsEnd`, `CallEnds`, `ChecksEnd`): fairness
and ENABLED are out of the prover's reach. Not stated as a theorem is how the
community modules sort and cut the lists of ListTasks, an induction over data:
a page is modelled by the positions it covers. `Dashboard` has no theorem; its run
expects a violation.

No module that a theorem is about uses a RECURSIVE operator.

## 5. Not modelled

Wire parsing, cards, identity, metrics, trace data and the commands: no control
of their own. The dashboard's other panels and the aggregated rows show what they
read. Push-notification stubs and protocol negotiation answer without changing
state. The bindings of contexts to sessions in the store are written and never
read. `scripts/` holds test drivers. See `PROJECT.json` for each part and its
reason.

## 6. Plan

1. (done) `A2AProtocol`, `TaskContract`, `A2AServer`, `SessionPool`,
   `EventStream`, `RateLimiter`, `OutboundServer`, `OutboundCall`,
   `InboundServer`.
2. (done) `TaskStore` with ListTasks paging; `InboundTasks`: peers, session views
   and the swap of an instance under running tasks; `UpdateChecker`; `Dashboard`.
3. (done) Proofs: `A2AServer`'s `IInv`, its action properties and the refinement
   of `TaskContract`; `TaskStore`; `InboundTasks`; `SessionPool`; the rest of
   `RateLimiter` and `InboundServer`; `OutboundServer`; the pages of ListTasks;
   `EventStream`; `UpdateChecker`.
4. Next: what holds of the forms of `Dashboard` whatever its page shows, with its
   proof; an abstract store that `TaskStore` implements, proved step by step as the
   refinement of `TaskContract` is.
