------------------------------ MODULE InboundTasks ------------------------------
(***************************************************************************)
(* Tasks, peers and streams across the instances of inbound servers.  Each *)
(* live instance (assemble in src/servers/inbound-manager.ts) has an       *)
(* A2AServer with runs and waiters of its own, a registry of the peers     *)
(* that talk to it (src/server/inbound-registry.ts) and one of its open    *)
(* streams (src/server/session-registry.ts).  The tasks are in the shared  *)
(* store, where an instance sees those of its server.  An edit replaces    *)
(* the instance; requests and runs that are under way stay with the old    *)
(* one, which nobody can reach any more.                                   *)
(*                                                                         *)
(* Of a task its server and state are kept, of a message what it is for.   *)
(* Replies and errors are in A2AServer, frames in EventStream, the saving  *)
(* of edits in InboundServer.  The source of a request is visible.         *)
(***************************************************************************)
EXTENDS A2AProtocol, Naturals, FiniteSets

CONSTANTS
  Servers,      \* 1..n, the inbound servers in the manager's order
  Tasks,        \* bound: tasks
  Peers,        \* bound: sources of requests
  Calls,        \* bound: requests under way
  MaxConcurrent, \* maxConcurrentTasks: runs an instance may have, 0 for any number
  MaxRequests,  \* bound: requests
  MaxEdits      \* bound: edits

ASSUME ServersAssumption == Servers # {} /\ Servers \subseteq Nat \ {0}
ASSUME QuotaAssumption == MaxConcurrent \in Nat

None == 0
Methods == {"send", "sendImmediately", "stream", "subscribe"}
Streaming == {"stream", "subscribe"}

VARIABLES
  gen,       \* gen[s]: the number of the live instance of s
  owner,     \* owner[t]: the server of the task, None before it exists
  state,     \* state[t]: its state in the store
  runs,      \* runs under way, each in its instance
  call,      \* call[c]: the request in slot c
  active,    \* active[s][p]: the tasks the live instance has noted for a peer
  listed,    \* listed[s]: the peers it lists
  streams,   \* streams[s][t]: the streams of the task it counts as open
  made,      \* requests and edits so far
  taken      \* history: the instances that took a message for a task

peers == <<active, listed>>
vars == <<gen, owner, state, runs, call, peers, streams, made, taken>>

NoCall == [at |-> "idle", method |-> "none", server |-> None, gen |-> 0,
           peer |-> None, task |-> None]
Run(t, g) == [task |-> t, gen |-> g]

\* The instance a request came to is the live one.
IsLive(c) == call[c].gen = gen[call[c].server]
Mine(s) == {t \in Tasks : owner[t] = s}
Unused == {t \in Tasks : state[t] = ABSENT}
RunsIn(t, g) == Run(t, g) \in runs

TypeOK ==
  /\ \A t \in Tasks : owner[t] = None <=> state[t] = ABSENT
  /\ \A r \in runs : owner[r.task] # None /\ r.gen <= gen[owner[r.task]]
  /\ \A c \in Calls : call[c].at \in {"waiting", "running", "woken"} =>
        owner[call[c].task] = call[c].server
  /\ \A s \in Servers, p \in Peers : active[s][p] # {} => p \in listed[s]

Init ==
  /\ gen = [s \in Servers |-> 1]
  /\ owner = [t \in Tasks |-> None]
  /\ state = [t \in Tasks |-> ABSENT]
  /\ runs = {}
  /\ call = [c \in Calls |-> NoCall]
  /\ active = [s \in Servers |-> [p \in Peers |-> {}]]
  /\ listed = [s \in Servers |-> {}]
  /\ streams = [s \in Servers |-> [t \in Tasks |-> 0]]
  /\ made = [requests |-> 0, edits |-> 0]
  /\ taken = {}
-----------------------------------------------------------------------------
(* The registries of an instance *)

\* note(): what is told of a peer adds to what is known.
Note(s, p, ids) ==
  /\ listed' = [listed EXCEPT ![s] = @ \cup {p}]
  /\ active' = [active EXCEPT ![s][p] = @ \cup ids]

\* A replaced instance notes, too, where nobody looks.
NoteFor(c, ids) ==
  IF IsLive(c) THEN Note(call[c].server, call[c].peer, ids) ELSE UNCHANGED peers

\* settle(): the task is dropped from all peers.
Dropped(s, t) == [active EXCEPT ![s] = [p \in Peers |-> @[p] \ {t}]]

StreamOpens(s, t) == streams' = [streams EXCEPT ![s][t] = @ + 1]

\* Slip: the entry is deleted with the first stream that closes.
StreamClosesAll(s, t) == streams' = [streams EXCEPT ![s][t] = 0]

StreamCloses(s, t) == streams' = [streams EXCEPT ![s][t] = IF @ <= 1 THEN 0 ELSE @ - 1]

\* The waiters of an instance on a task, woken.
Woken(s, g, t, calls) ==
  [c \in Calls |->
     IF calls[c].server = s /\ calls[c].gen = g /\ calls[c].task = t /\ calls[c].at = "waiting"
     THEN [calls[c] EXCEPT !.at = "woken"] ELSE calls[c]]
-----------------------------------------------------------------------------
(* Requests *)

Requested == made.requests < MaxRequests /\ made' = [made EXCEPT !.requests = @ + 1]

\* A message comes in and waits for the gate.
Arrive(c, s, p, method) ==
  /\ call[c] = NoCall
  /\ Requested
  /\ call' = [call EXCEPT ![c] = [at |-> "gate", method |-> method, server |-> s,
                                  gen |-> gen[s], peer |-> p, task |-> None]]
  /\ UNCHANGED <<gen, owner, state, runs, peers, streams, taken>>

\* It is refused, by the gate or for what it names: nobody is told.
Refused(c) ==
  /\ call[c].at = "gate"
  /\ call' = [call EXCEPT ![c] = NoCall]
  /\ UNCHANGED <<gen, owner, state, runs, peers, streams, made, taken>>

\* What a stream does when it has its task; it is noted before anything runs.
Streams(c, t) ==
  /\ NoteFor(c, {t})
  /\ IF IsLive(c) THEN StreamOpens(call[c].server, t) ELSE UNCHANGED streams

\* The tasks a message may start: a new one, or one of the server's that has
\* neither settled nor a run in this instance.
Continuable(c) ==
  {t \in Mine(call[c].server) : ~IsTerminal(state[t]) /\ ~RunsIn(t, call[c].gen)}

\* The instance has as many runs as it may; it counts its own.
AtQuota(c) ==
  /\ MaxConcurrent > 0
  /\ Cardinality({r \in runs : r.gen = call[c].gen /\ owner[r.task] = call[c].server})
       >= MaxConcurrent

\* The message starts a run.
Starts(c) ==
  /\ call[c].at = "gate"
  /\ ~AtQuota(c)
  /\ \E t \in Continuable(c) \cup Unused :
       /\ owner' = [owner EXCEPT ![t] = call[c].server]
       /\ state' = [state EXCEPT ![t] = "WORKING"]
       /\ runs' = runs \cup {Run(t, call[c].gen)}
       /\ taken' = taken \cup {Run(t, call[c].gen)}
       /\ \/ /\ call[c].method = "stream"
             /\ Streams(c, t)
             /\ call' = [call EXCEPT ![c].at = "waiting", ![c].task = t]
          \/ /\ call[c].method = "send"
             /\ call' = [call EXCEPT ![c].at = "running", ![c].task = t]
             /\ UNCHANGED <<peers, streams>>
          \/ /\ call[c].method = "sendImmediately"
             /\ NoteFor(c, {t})
             /\ call' = [call EXCEPT ![c] = NoCall]
             /\ UNCHANGED streams
  /\ UNCHANGED <<gen, made>>

\* A task that failed is dropped from all peers, after a stream was noted and
\* before a message is that has its answer at once.
NoteFailed(c, t) ==
  LET s == call[c].server  p == call[c].peer
  IN IF IsLive(c)
     THEN /\ listed' = [listed EXCEPT ![s] = IF call[c].method = "send" THEN @ ELSE @ \cup {p}]
          /\ active' = [Dropped(s, t) EXCEPT
               ![s][p] = IF call[c].method = "sendImmediately" THEN @ \cup {t} ELSE @]
     ELSE UNCHANGED peers

\* The instance is full: the task fails without a run, and those who wait for
\* it in this instance are woken.
OverQuota(c) ==
  /\ call[c].at = "gate"
  /\ AtQuota(c)
  /\ \E t \in Continuable(c) \cup Unused :
       /\ owner' = [owner EXCEPT ![t] = call[c].server]
       /\ state' = [state EXCEPT ![t] = "FAILED"]
       /\ taken' = taken \cup {Run(t, call[c].gen)}
       /\ NoteFailed(c, t)
       /\ IF call[c].method = "stream" /\ IsLive(c) THEN StreamOpens(call[c].server, t)
          ELSE UNCHANGED streams
       /\ call' = [Woken(call[c].server, call[c].gen, t, call) EXCEPT
            ![c] = IF call[c].method = "sendImmediately" THEN NoCall
                   ELSE [@ EXCEPT !.at = "woken", !.task = t]]
  /\ UNCHANGED <<gen, runs, made>>

\* A caller that waits for t is woken at once if it has settled or is interrupted.
WaitFor(c, t) ==
  [call[c] EXCEPT !.at = IF IsSettled(state[t]) THEN "woken" ELSE "waiting", !.task = t]

\* The message repeats one a task of the server has had.
Replays(c) ==
  /\ call[c].at = "gate"
  /\ \E t \in Mine(call[c].server) :
       \/ /\ call[c].method = "stream"
          /\ Streams(c, t)
          /\ call' = [call EXCEPT ![c] = WaitFor(c, t)]
       \/ /\ call[c].method = "send"
          /\ call' = [call EXCEPT ![c] = WaitFor(c, t)]
          /\ UNCHANGED <<peers, streams>>
       \/ /\ call[c].method = "sendImmediately"
          /\ NoteFor(c, {t})
          /\ call' = [call EXCEPT ![c] = NoCall]
          /\ UNCHANGED streams
  /\ UNCHANGED <<gen, owner, state, runs, made, taken>>

\* SubscribeToTask: noted whatever the id; only a task of the server that has
\* not settled is streamed.
Subscribe(c, s, p, t) ==
  /\ call[c] = NoCall
  /\ Requested
  /\ Note(s, p, {t})
  /\ \/ /\ t \in Mine(s) /\ ~IsTerminal(state[t])
        /\ call' = [call EXCEPT ![c] =
             [at |-> IF IsSettled(state[t]) THEN "woken" ELSE "waiting",
              method |-> "subscribe", server |-> s, gen |-> gen[s], peer |-> p, task |-> t]]
        /\ StreamOpens(s, t)
     \/ /\ t \notin Mine(s) \/ IsTerminal(state[t])
        /\ UNCHANGED <<call, streams>>
  /\ UNCHANGED <<gen, owner, state, runs, taken>>

\* GetTask and ListTasks: what is shown is noted.
Shown(s, p) ==
  /\ Requested
  /\ \E ids \in {{t} : t \in Mine(s)} \cup {Mine(s)} : Note(s, p, ids)
  /\ UNCHANGED <<gen, owner, state, runs, call, streams, taken>>

\* The answer of a blocking message is noted after its run; a stream ends.
Answer(c) ==
  /\ call[c].at = "woken"
  /\ IF call[c].method \in Streaming
     THEN /\ IF IsLive(c) THEN StreamCloses(call[c].server, call[c].task)
             ELSE UNCHANGED streams
          /\ UNCHANGED peers
     ELSE NoteFor(c, {call[c].task}) /\ UNCHANGED streams
  /\ call' = [call EXCEPT ![c] = NoCall]
  /\ UNCHANGED <<gen, owner, state, runs, made, taken>>
-----------------------------------------------------------------------------
(* Runs *)

\* The executor asks for input and works on.
Report(r) ==
  /\ ~IsTerminal(state[r.task])
  /\ \E new \in {"INPUT_REQUIRED", "WORKING"} : state' = [state EXCEPT ![r.task] = new]
  /\ UNCHANGED <<gen, owner, runs, call, peers, streams, made, taken>>

\* Slip: that the task was canceled is not asked.
OutcomesUnchecked(now) == {"COMPLETED", "FAILED", "INPUT_REQUIRED"}

\* What the end of a run may leave, which another run may have left already:
\* output, a failure or a pause, but nothing once the task is canceled, and
\* completion does not end a pause.
Outcomes(now) ==
  IF now = "CANCELED" THEN {now}
  ELSE {"FAILED", "INPUT_REQUIRED"} \cup {IF now \in INTERRUPTED_STATES THEN now ELSE "COMPLETED"}

\* The run ends: the waiters and the peers of its instance are told.
RunEnds(r) ==
  LET t == r.task  s == owner[r.task]
  IN /\ \E new \in Outcomes(state[t]) : state' = [state EXCEPT ![t] = new]
     /\ runs' = runs \ {r}
     /\ call' = Woken(s, r.gen, t,
          [c \in Calls |-> IF call[c].at = "running" /\ call[c].server = s
                                /\ call[c].gen = r.gen /\ call[c].task = t
                           THEN [call[c] EXCEPT !.at = "woken"] ELSE call[c]])
     /\ active' = IF r.gen = gen[s] THEN Dropped(s, t) ELSE active
     /\ UNCHANGED <<gen, owner, listed, streams, made, taken>>
-----------------------------------------------------------------------------
(* Control *)

\* The waiters of canceled tasks, woken.
WokenAll(s, canceled) ==
  [c \in Calls |->
     IF call[c].server = s /\ IsLive(c) /\ call[c].task \in canceled /\ call[c].at = "waiting"
     THEN [call[c] EXCEPT !.at = "woken"] ELSE call[c]]

Cancelable(s, ids) == {t \in ids \cap Mine(s) : ~IsTerminal(state[t])}

\* abort(): the task is canceled for good, its run, if this instance has it,
\* is told, and so are those who wait; the peers learn of it when the run ends.
Cancel(s, ids) ==
  LET canceled == Cancelable(s, ids)
  IN /\ state' = [t \in Tasks |-> IF t \in canceled THEN "CANCELED" ELSE state[t]]
     /\ call' = WokenAll(s, canceled)

\* CancelTask, by a peer.
CancelTask(s, p, t) ==
  /\ Requested
  /\ Cancelable(s, {t}) # {}
  /\ Cancel(s, {t})
  /\ Note(s, p, {t})
  /\ UNCHANGED <<gen, owner, runs, streams, taken>>

\* The dashboard cancels the tasks of a conversation, or one of them.
CancelTasks(s, ids) ==
  /\ Cancelable(s, ids) # {}
  /\ Cancel(s, ids)
  /\ UNCHANGED <<gen, owner, runs, peers, streams, made, taken>>

First == CHOOSE s \in Servers : \A other \in Servers : s <= other

\* Slip: the record is deleted before the tasks are read.
CloseInboundForgets(s, p) ==
  /\ p \in listed[s]
  /\ s = First
  /\ listed' = [listed EXCEPT ![s] = @ \ {p}]
  /\ active' = [active EXCEPT ![s][p] = {}]
  /\ UNCHANGED <<gen, owner, state, runs, call, streams, made, taken>>

\* closeInbound(): the peer's tasks are canceled and its record is dropped.  The
\* loop over the instances ends at the first, whether the peer is there or not.
CloseInbound(s, p) ==
  /\ p \in listed[s]
  /\ s = First
  /\ Cancel(s, active[s][p])
  /\ listed' = [listed EXCEPT ![s] = @ \ {p}]
  /\ active' = [active EXCEPT ![s][p] = {}]
  /\ UNCHANGED <<gen, owner, runs, streams, made, taken>>

\* An edit: the next instance knows no run, no peer and no stream.
Edit(s) ==
  /\ made.edits < MaxEdits
  /\ made' = [made EXCEPT !.edits = @ + 1]
  /\ gen' = [gen EXCEPT ![s] = @ + 1]
  /\ active' = [active EXCEPT ![s] = [p \in Peers |-> {}]]
  /\ listed' = [listed EXCEPT ![s] = {}]
  /\ streams' = [streams EXCEPT ![s] = [t \in Tasks |-> 0]]
  /\ UNCHANGED <<owner, state, runs, call, taken>>

Request(c) ==
  \/ \E s \in Servers, p \in Peers :
       \/ \E method \in Methods \ {"subscribe"} : Arrive(c, s, p, method)
       \/ \E t \in Tasks : Subscribe(c, s, p, t)
  \/ Refused(c) \/ Starts(c) \/ OverQuota(c) \/ Replays(c) \/ Answer(c)

Control(s) ==
  \/ \E p \in Peers : Shown(s, p) \/ CloseInbound(s, p) \/ \E t \in Tasks : CancelTask(s, p, t)
  \/ \E ids \in SUBSET Tasks : CancelTasks(s, ids)
  \/ Edit(s)

Next ==
  \/ \E c \in Calls : Request(c)
  \/ \E r \in runs : Report(r) \/ RunEnds(r)
  \/ \E s \in Servers : Control(s)

Spec == Init /\ [][Next]_vars
-----------------------------------------------------------------------------
(* Properties *)

TakenElsewhere(t, g) == \E r \in taken : r.task = t /\ r.gen # g
TakenTwice(t) == \E r \in taken : r.task = t /\ TakenElsewhere(t, r.gen)

\* A settled task changes again only if an edit has let two instances take
\* messages for it, each unaware of the other's run: the second ran it, too, or
\* failed it for its quota.  A canceled one never changes, whichever instance
\* canceled it: the last run to end sees that in the store.
SettledByOneInstance ==
  [][\A t \in Tasks : IsTerminal(state[t]) /\ state'[t] # state[t] =>
        state[t] # "CANCELED" /\ TakenTwice(t)]_vars

\* Whoever waits will hear: the instance has a run of the task, or the task has
\* not settled; only one that another instance took may settle unheard.  And
\* whoever waits at the end of a stream of the live instance is listed with the
\* task until it is terminal, so that to close the peer is to cancel the task
\* and to end the stream; two instances that take it may undo that as well.
WaitersReached ==
  \A c \in Calls : call[c].at = "waiting" =>
    LET t == call[c].task IN
    /\ RunsIn(t, call[c].gen) \/ ~IsSettled(state[t]) \/ TakenElsewhere(t, call[c].gen)
    /\ call[c].method \in Streaming /\ IsLive(c) /\ ~IsTerminal(state[t]) =>
         t \in active[call[c].server][call[c].peer] \/ TakenTwice(t)

\* What the session table shows as streaming is: the live instance counts the
\* streams that are open on it, through repeated messages, subscriptions to
\* settled tasks and edits.
StreamsCounted ==
  \A s \in Servers, t \in Tasks :
    streams[s][t] = Cardinality({c \in Calls :
       /\ call[c].at \in {"waiting", "woken"} /\ call[c].method \in Streaming
       /\ call[c].server = s /\ call[c].task = t /\ IsLive(c)})
=============================================================================
