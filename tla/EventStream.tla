----------------------------- MODULE EventStream -----------------------------
(***************************************************************************)
(* The frames of one task (src/server/a2a-server.ts: emit, replay,         *)
(* handleStream) and the clients that subscribe to it, lose the connection *)
(* and subscribe again with Last-Event-ID, folding what they receive into  *)
(* their own copy of the task (src/outbound/calls.ts: applyFrame).         *)
(*                                                                         *)
(* A frame is written and every listener called in the segment that        *)
(* changes the task, so emitting is part of the action that changes it.  A *)
(* stream may be opened by the very message that starts a turn: then one   *)
(* segment attaches the listener, starts the turn and replays.             *)
(*                                                                         *)
(* What has been written to a socket and not been read yet is inbox[c]; a  *)
(* lost connection loses it.                                               *)
(***************************************************************************)
EXTENDS A2AProtocol, Naturals, Sequences, SequencesExt

CONSTANTS
  Clients,
  MaxLog,     \* maxEventLog: frames retained per task
  MaxEvents,  \* bound: frames ever emitted
  MaxTurns    \* bound: turns of the task

ASSUME StreamBoundsAssumption ==
  MaxLog \in Nat \ {0} /\ MaxEvents \in Nat /\ MaxTurns \in Nat

VARIABLES
  state,        \* the task's lifecycle state
  content,      \* the parts of its result artifact, numbered as they were made
  running,      \* is a turn running?
  turns,        \* turns begun, the one the quota forbids included
  nextEventId,
  log,          \* the frames retained for reconnects
  connected,    \* clients the server has a listener for
  inbox,        \* inbox[c]: frames written to c's connection, not yet read
  view,         \* view[c]: c's copy of the task
  cursor,       \* cursor[c]: last event id c read; 0 when none
  since,        \* history: the ids c does not ask for are those up to since[c]
  seen,         \* history: ids of the status frames c has read
  behind        \* history: the frame c was sent ahead of older ones; 0 if none

task == <<state, content, running, turns>>
client == <<connected, inbox, view, cursor, since, seen, behind>>
vars == <<task, nextEventId, log, client>>

\* A frame without an id line has id 0.
Frame(id, kind, s, parts, append) ==
  [id |-> id, kind |-> kind, state |-> s, parts |-> parts, append |-> append]
Snapshot(s, parts) == Frame(0, "task", s, parts, FALSE)

TypeOK ==
  /\ state \in TaskState
  /\ Len(log) <= MaxLog
  /\ \A i \in 1..Len(log) : log[i].id \in 1..(nextEventId - 1)
  /\ running \in BOOLEAN
  /\ turns \in 0..MaxTurns
  /\ nextEventId \in 1..(MaxEvents + 1)
  /\ connected \subseteq Clients
  /\ cursor \in [Clients -> 0..MaxEvents]
  /\ \A c \in Clients : behind[c] \in 0..(nextEventId - 1)

Init ==
  /\ state = "SUBMITTED"
  /\ content = <<>>
  /\ running = FALSE
  /\ turns = 0
  /\ nextEventId = 1
  /\ log = <<>>
  /\ connected = {}
  /\ inbox = [c \in Clients |-> <<>>]
  /\ view = [c \in Clients |-> [state |-> "SUBMITTED", parts |-> <<>>]]
  /\ cursor = [c \in Clients |-> 0]
  /\ since = [c \in Clients |-> 0]
  /\ seen = [c \in Clients |-> <<>>]
  /\ behind = [c \in Clients |-> 0]

-----------------------------------------------------------------------------
(* The server *)

\* The log keeps the last MaxLog frames.
Log(f) ==
  LET grown == Append(log, f)
  IN IF Len(grown) > MaxLog THEN Tail(grown) ELSE grown

\* emit(): the frame gets the next id, is retained and written to every
\* listener, followed by the frames in last (the final snapshot of a stream
\* that ends here).
Retained(f) ==
  /\ nextEventId <= MaxEvents
  /\ nextEventId' = nextEventId + 1
  /\ log' = Log(f)

Broadcast(f, last) ==
  [c \in Clients |-> IF c \in connected THEN inbox[c] \o <<f>> \o last ELSE inbox[c]]

Emit(kind, s, parts, append, last) ==
  LET f == Frame(nextEventId, kind, s, parts, append)
  IN Retained(f) /\ inbox' = Broadcast(f, last)

\* ensureTask() accepts a message for a new task, or for one that waits for input.
Accepted ==
  /\ ~running /\ ~IsTerminal(state)
  /\ turns < MaxTurns
  /\ turns' = turns + 1
  /\ UNCHANGED content

\* runTask's first segment, for a message without a stream.
StartTurn ==
  /\ Accepted
  /\ running' = TRUE
  /\ state' = "WORKING"
  /\ Emit("status", "WORKING", <<>>, FALSE, <<>>)
  /\ UNCHANGED <<connected, view, cursor, since, seen, behind>>

\* The same while maxConcurrentTasks others run: the task fails.
OverQuota ==
  /\ Accepted
  /\ state' = "FAILED"
  /\ Emit("task", "FAILED", content, FALSE, <<Snapshot("FAILED", content)>>)
  /\ connected' = {}
  /\ UNCHANGED <<running, view, cursor, since, seen, behind>>

\* eventSink: an event for a settled task is dropped.
Sinks == running /\ ~IsTerminal(state)

ReportStatus ==
  /\ Sinks
  /\ \E s \in {"WORKING", "INPUT_REQUIRED"} :
        /\ state' = s
        /\ Emit("status", s, <<>>, FALSE, <<>>)
  /\ UNCHANGED <<content, running, turns, connected, view, cursor, since, seen, behind>>

\* A chunk is the frame's number.  An appended chunk travels alone, a
\* replacement carries the whole artifact.
ReportArtifact ==
  /\ Sinks
  /\ \E append \in BOOLEAN :
        /\ content' = IF append THEN Append(content, nextEventId) ELSE <<nextEventId>>
        /\ Emit("artifact", state, <<nextEventId>>, append, <<>>)
  /\ UNCHANGED <<state, running, turns, connected, view, cursor, since, seen, behind>>

\* The turn ends: a task frame with an id, then the waiting streams send their
\* final snapshot and close; nothing is emitted before they are woken.
FinishTurn ==
  /\ running
  /\ running' = FALSE
  /\ \E s \in IF IsTerminal(state) THEN {state} ELSE {"INPUT_REQUIRED", "COMPLETED"} :
        /\ state' = s
        /\ Emit("task", s, content, FALSE, <<Snapshot(s, content)>>)
  /\ connected' = {}
  /\ UNCHANGED <<content, turns, view, cursor, since, seen, behind>>

CancelTask ==
  /\ turns > 0
  /\ ~IsTerminal(state)
  /\ state' = "CANCELED"
  /\ Emit("status", "CANCELED", <<>>, FALSE, <<Snapshot("CANCELED", content)>>)
  /\ connected' = {}
  /\ UNCHANGED <<content, running, turns, view, cursor, since, seen, behind>>

\* The server retains the logs of 1000 tasks: another task's frame evicts the
\* oldest log, which may be this one.
Evict ==
  /\ log # <<>>
  /\ log' = <<>>
  /\ UNCHANGED <<task, nextEventId, client>>

\* Slip: artifact frames are replayed as well.
ReplayableAll(f, from) == f.id > from

\* What a reconnect gets again: nothing it has read, no artifact chunks.
Replayable(f, from) == f.id > from /\ f.kind # "artifact"

Replay(frames, from) ==
  LET again[i \in 0..Len(frames)] ==
        IF i = 0 THEN <<>>
        ELSE IF Replayable(frames[i], from) THEN Append(again[i - 1], frames[i])
        ELSE again[i - 1]
  IN IF from = 0 THEN <<>> ELSE again[Len(frames)]

\* A client may send its cursor or, 0, start anew.  The history starts over for
\* one that starts anew, or that has read frames out of order.
AsksFrom(c, from) ==
  /\ from \in {0, cursor[c]}
  /\ c \notin connected
  /\ inbox[c] = <<>>
  /\ cursor' = [cursor EXCEPT ![c] = from]
  /\ since' = [since EXCEPT ![c] = IF from = 0 THEN nextEventId - 1
                                   ELSE IF behind[c] = 0 THEN @ ELSE from]
  /\ seen' = [seen EXCEPT ![c] = IF from # 0 /\ behind[c] = 0 THEN @ ELSE <<>>]

\* A stream opens: the current task, the replay, and at once the final snapshot
\* when the task has settled or waits for input.
Opening(from) ==
  LET now == Snapshot(state, content)
  IN <<now>> \o Replay(log, from) \o IF IsSettled(state) THEN <<now>> ELSE <<>>

Attach(c, from) ==
  /\ turns > 0
  /\ AsksFrom(c, from)
  /\ inbox' = [inbox EXCEPT ![c] = Opening(from)]
  /\ connected' = IF IsSettled(state) THEN connected ELSE connected \cup {c}
  /\ behind' = [behind EXCEPT ![c] = 0]
  /\ UNCHANGED <<task, nextEventId, log, view>>

\* SubscribeToTask, and SendStreamingMessage with a messageId the task knows.
Subscribe(c, from) == ~IsTerminal(state) /\ Attach(c, from)
Resend(c, from) == Attach(c, from)

\* What is left in the log of the frames up to the replay's ceiling, once
\* another is retained.
Older == IF Len(log) = MaxLog THEN Tail(log) ELSE log

\* Slip: the listener is added when the turn has started.
TurnOpeningLate(from, f) == <<Snapshot(state, content)>> \o Replay(Older, from)

\* A stream opens with the message that starts a turn: the current task, the
\* turn's first frame, live, and behind it the replay.
TurnOpening(from, f) == <<Snapshot(state, content), f>> \o Replay(Older, from)

TurnStream(c, from, f, last) ==
  /\ Accepted
  /\ AsksFrom(c, from)
  /\ Retained(f)
  /\ inbox' = [Broadcast(f, last) EXCEPT ![c] = TurnOpening(from, f) \o last]
  /\ behind' = [behind EXCEPT ![c] = IF Replay(Older, from) = <<>> THEN 0 ELSE f.id]
  /\ UNCHANGED view

\* SendStreamingMessage with a new message.
StreamTurn(c, from) ==
  /\ TurnStream(c, from, Frame(nextEventId, "status", "WORKING", <<>>, FALSE), <<>>)
  /\ running' = TRUE
  /\ state' = "WORKING"
  /\ connected' = connected \cup {c}

StreamOverQuota(c, from) ==
  /\ TurnStream(c, from, Frame(nextEventId, "task", "FAILED", content, FALSE),
                <<Snapshot("FAILED", content)>>)
  /\ state' = "FAILED"
  /\ connected' = {}
  /\ UNCHANGED running

-----------------------------------------------------------------------------
(* The client *)

\* applyFrame
Apply(v, f) ==
  IF f.kind = "task" THEN [state |-> f.state, parts |-> f.parts]
  ELSE IF f.kind = "status" THEN [v EXCEPT !.state = f.state]
  ELSE [v EXCEPT !.parts = IF f.append THEN v.parts \o f.parts ELSE f.parts]

Read(c) ==
  LET f == Head(inbox[c])
  IN /\ inbox[c] # <<>>
     /\ inbox' = [inbox EXCEPT ![c] = Tail(@)]
     /\ view' = [view EXCEPT ![c] = Apply(@, f)]
     /\ cursor' = [cursor EXCEPT ![c] = IF f.id = 0 THEN @ ELSE f.id]
     /\ seen' = [seen EXCEPT ![c] = IF f.kind = "status" THEN Append(@, f.id) ELSE @]
     /\ UNCHANGED <<task, nextEventId, log, connected, since, behind>>

Disconnect(c) ==
  /\ c \in connected \/ inbox[c] # <<>>
  /\ connected' = connected \ {c}
  /\ inbox' = [inbox EXCEPT ![c] = <<>>]
  /\ UNCHANGED <<task, nextEventId, log, view, cursor, since, seen, behind>>

Stream(c, from) ==
  Subscribe(c, from) \/ Resend(c, from) \/ StreamTurn(c, from) \/ StreamOverQuota(c, from)

Next ==
  \/ StartTurn \/ OverQuota \/ ReportStatus \/ ReportArtifact \/ FinishTurn \/ CancelTask
  \/ Evict
  \/ \E c \in Clients :
       \/ \E from \in 0..MaxEvents : Stream(c, from)
       \/ Read(c) \/ Disconnect(c)

Spec == Init /\ [][Next]_vars
-----------------------------------------------------------------------------
(* Properties *)

CaughtUp(c) == c \in connected /\ inbox[c] = <<>>

\* Since the frame with this id another has shown the task's state.
ShownSince(id) == \E i \in DOMAIN log : log[i].kind # "artifact" /\ log[i].id > id

\* A connected client that has read everything has missed no status frame that
\* it asked for and that is still retained, and it has the task's state, however
\* often it lost the connection: what a replay repeats is older than the
\* snapshot, but ends with the latest status.  With its cursor it reads each
\* status frame once and in the order of their ids.  The exception is a client
\* that starts a turn with a cursor and is sent the turn's first frame ahead of
\* older ones: until it opens another stream it may read ids out of order, and
\* it may be wrong about the state, but no longer than to the turn's next status
\* or task frame.
StatusFaithful ==
  \A c \in Clients :
     /\ behind[c] = 0 => \A i, j \in DOMAIN seen[c] : i < j => seen[c][i] < seen[c][j]
     /\ CaughtUp(c) =>
          /\ \A i \in DOMAIN log :
               log[i].kind = "status" /\ log[i].id > since[c] =>
                 \E j \in DOMAIN seen[c] : seen[c][j] = log[i].id
          /\ behind[c] = 0 \/ ShownSince(behind[c]) => view[c].state = state

\* Nor is a chunk of the artifact lost, doubled or out of place in its copy
\* (http-api.md, 2.4: "so append chunks are not applied twice"; 2.4.3: the
\* server "replays status frames only").
ArtifactFaithful == \A c \in Clients : CaughtUp(c) => view[c].parts = content

\* In a task's first turn, that is: later the task frame of an earlier turn is
\* replayed behind the snapshot.
ArtifactFaithfulInTurn == turns <= 1 => ArtifactFaithful
=============================================================================
