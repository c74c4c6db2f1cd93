------------------------------- MODULE TaskStore -------------------------------
(***************************************************************************)
(* The durable task store (src/server/store.ts): a live view in memory,    *)
(* which every update changes at once, and behind it the tasks table of    *)
(* the storage domain, which the queued writes reach one after the other.  *)
(* A write may fail, and the process may end with writes still queued.     *)
(*                                                                         *)
(* The actions are the request handlers and the end of a run in            *)
(* src/server/a2a-server.ts with every write they make: a handler runs to  *)
(* its end before the next, but a crash may fall between two of its        *)
(* writes.  Each inbound instance sees its own tasks only.                 *)
(*                                                                         *)
(* A message stands for its id and its parts.  What else a record holds    *)
(* (artifacts, status text, trace) is kept as the number of its revision.  *)
(***************************************************************************)
EXTENDS Naturals, FiniteSets, Sequences, SequencesExt, FiniteSetsExt

CONSTANTS
  Tasks,      \* bound: task ids, of which a new one may be any (UUIDs, finitely many)
  Instances,  \* inbound instances
  Messages,   \* messages, each with its own id
  Tables,     \* the tables the first process may find
  MaxOps,     \* bound: handlers, run ends and revisions
  MaxFails,   \* bound: failed writes
  MaxCrashes  \* bound: ends of the process

ASSUME StoreAssumption ==
  /\ Tasks \subseteq Nat /\ IsFiniteSet(Tasks) /\ {MaxOps, MaxFails, MaxCrashes} \subseteq Nat
  /\ "absent" \notin Messages

NoTask == [state |-> "none"]  \* no record under this id
Absent == <<"absent">>        \* the inputs of a record older than the field
Running == {"SUBMITTED", "WORKING"}
Interrupted == {"INPUT_REQUIRED"}
Terminal == {"COMPLETED", "FAILED", "CANCELED"}
Records ==
  [owner : Instances, state : Running \cup Interrupted \cup Terminal, why : BOOLEAN,
   parts : Messages, inputs : Seq(Messages) \cup {Absent}, ids : SUBSET Messages,
   at : Nat, rev : Nat]

\* A record older than the inputs has its first input in its parts.
Seeded(record) == IF record.inputs = Absent THEN <<record.parts>> ELSE record.inputs

Known(view) == {t \in Tasks : view[t] # NoTask}

\* The time of the newest record of a table.
Newest(view) == Max({view[t].at : t \in Known(view)} \cup {0})

\* A history holds each message once, and all that were accepted: of a record
\* older than the inputs that is the one it has.
Sound(record) ==
  /\ Seeded(record) # <<>> /\ IsInjective(Seeded(record))
  /\ record.ids \subseteq ToSet(Seeded(record))
  /\ record.inputs = Absent => record.ids = {record.parts}

\* The first process finds tables of such records.
ASSUME TablesAssumption ==
  \A found \in Tables :
    /\ found \in [Tasks -> Records \cup {NoTask}]
    /\ \A t \in Tasks : found[t] # NoTask => Sound(found[t])

VARIABLES
  live,     \* live[t]: the record of t in memory
  table,    \* table[t]: the record of t in the storage domain
  queue,    \* the domain's write chain: writes that were queued
  running,  \* the tasks this process runs
  clock,    \* the time
  made,     \* operations, failed writes and crashes so far
  unsaved,  \* history: tasks whose last write to arrive at the domain failed
  views     \* history: the live views of this process

stores == <<live, table, queue>>
vars == <<stores, running, clock, made, unsaved, views>>

TypeOK ==
  /\ Known(table) \subseteq Known(live)
  /\ running \subseteq {t \in Known(live) : live[t].state \in Running \cup Interrupted}
  /\ \A i \in DOMAIN queue : queue[i].task \in Known(live)
  /\ made \in [ops : 0..MaxOps, fails : 0..MaxFails, crashes : 0..MaxCrashes]
  /\ Last(views) = live

Init ==
  /\ table \in Tables
  /\ live = table
  /\ queue = <<>>
  /\ running = {}
  /\ clock = Newest(table)
  /\ made = [ops |-> 0, fails |-> 0, crashes |-> 0]
  /\ unsaved = {}
  /\ views = <<live>>
-----------------------------------------------------------------------------
(* Records: what the methods of a store do to one *)

\* Every method stamps the record; a revision is a change nothing else shows.
Stamped(record, now) == [record EXCEPT !.at = now, !.rev = @ + 1]

Created(instance, m, now) ==
  [owner |-> instance, state |-> "SUBMITTED", why |-> FALSE, parts |-> m,
   inputs |-> <<m>>, ids |-> {m}, at |-> now, rev |-> 0]

\* An error stays only when a failed task fails again without one.
WithState(record, new, why, now) ==
  [Stamped(record, now) EXCEPT
     !.state = new, !.why = why \/ (new = "FAILED" /\ record.why)]

\* Slip: an older record's inputs begin with the new one.
WithInputUnseeded(record, m, now) ==
  IF Contains(record.inputs, m) THEN record
  ELSE [Stamped(record, now) EXCEPT
          !.inputs = Append(IF record.inputs = Absent THEN <<>> ELSE record.inputs, m)]

WithInput(record, m, now) ==
  IF record.inputs # Absent /\ Contains(record.inputs, m) THEN record
  ELSE [Stamped(record, now) EXCEPT !.inputs = Append(Seeded(record), m)]

WithParts(record, m, now) == [Stamped(record, now) EXCEPT !.parts = m]

WithId(record, m, now) ==
  IF m \in record.ids THEN record ELSE [Stamped(record, now) EXCEPT !.ids = @ \cup {m}]
-----------------------------------------------------------------------------
(* The handlers *)

\* One handler: the time it sees, and what it leaves.
Operation(now) ==
  /\ made.ops < MaxOps
  /\ made' = [made EXCEPT !.ops = @ + 1]
  /\ now \in {clock, clock + 1}
  /\ clock' = now

\* Slip: the record is encoded before it changes.
PutStale(t, records) ==
  /\ live' = [live EXCEPT ![t] = Last(records)]
  /\ queue' = queue \o [i \in DOMAIN records |->
       [task |-> t, record |-> IF i = 1 THEN live[t] ELSE records[i - 1]]]
  /\ views' = Append(views, live')
  /\ UNCHANGED <<table, unsaved>>

\* Successive records of t: the last is seen at once, each is written in turn.
Put(t, records) ==
  /\ live' = [live EXCEPT ![t] = Last(records)]
  /\ queue' = queue \o [i \in DOMAIN records |-> [task |-> t, record |-> records[i]]]
  /\ views' = Append(views, live')
  /\ UNCHANGED <<table, unsaved>>

\* The run begins, unless the quota is used up.
Started(t, record, now) ==
  \/ running' = running \cup {t} /\ Put(t, Append(record, WithState(Last(record), "WORKING", FALSE, now)))
  \/ running' = running /\ Put(t, Append(record, WithState(Last(record), "FAILED", TRUE, now)))

Mine(view, instance) == {t \in Known(view) : view[t].owner = instance}

\* A message without a task: a new one, unless the instance has had its id.
NewTask(instance, t, m, now) ==
  /\ Operation(now)
  /\ t \notin Known(live)
  /\ \A u \in Mine(live, instance) : m \notin live[u].ids
  /\ Started(t, <<Created(instance, m, now)>>, now)

\* Slip: the id is written before the input.
AcceptedIdFirst(record, m, now) ==
  LET id == WithId(record, m, now)
      input == WithInput(id, m, now)
  IN (IF input = id THEN <<id>> ELSE <<id, input>>) \o <<WithParts(input, m, now)>>

\* What a continuation writes before its run: the input, the parts, the id.
Accepted(record, m, now) ==
  LET input == WithInput(record, m, now)
      parts == WithParts(input, m, now)
  IN (IF input = record THEN <<>> ELSE <<input>>) \o <<parts, WithId(parts, m, now)>>

\* A message to a task of the instance that has neither settled nor runs.
Continuation(instance, t, m, now) ==
  /\ Operation(now)
  /\ t \in Mine(live, instance) \ running
  /\ m \notin live[t].ids
  /\ live[t].state \notin Terminal
  /\ Started(t, Accepted(live[t], m, now), now)

\* An event of the executor: output, status text or a trace entry.
Revision(t, now) ==
  /\ Operation(now)
  /\ t \in running
  /\ Put(t, <<Stamped(live[t], now)>>)
  /\ UNCHANGED running

\* The executor asks for input and works on; only the state is set.
Report(t, new, now) ==
  /\ Operation(now)
  /\ t \in running
  /\ Put(t, <<WithState(live[t], new, FALSE, now)>>)
  /\ UNCHANGED running

\* The run ends, or is canceled.
RunEnds(t, new, now) ==
  /\ Operation(now)
  /\ t \in running
  /\ Put(t, <<WithState(live[t], new, new # "COMPLETED", now)>>)
  /\ running' = running \ {t}

\* A task that nobody runs is canceled.
Cancel(t, now) ==
  /\ Operation(now)
  /\ t \in Known(live) \ running
  /\ live[t].state \notin Terminal
  /\ Put(t, <<WithState(live[t], "CANCELED", TRUE, now)>>)
  /\ UNCHANGED running
-----------------------------------------------------------------------------
(* The storage domain *)

Write ==
  /\ queue # <<>>
  /\ table' = [table EXCEPT ![Head(queue).task] = Head(queue).record]
  /\ unsaved' = unsaved \ {Head(queue).task}
  /\ queue' = Tail(queue)
  /\ UNCHANGED <<live, running, clock, made, views>>

\* The error is thrown again where nobody awaits it.  Where the host does not
\* let that end the process (Crash), it goes on as if it had been written.
WriteFails ==
  /\ queue # <<>>
  /\ made.fails < MaxFails
  /\ made' = [made EXCEPT !.fails = @ + 1]
  /\ unsaved' = unsaved \cup {Head(queue).task}
  /\ queue' = Tail(queue)
  /\ UNCHANGED <<live, table, running, clock, views>>

\* The process ends, and another opens the domain.
Crash ==
  /\ made.crashes < MaxCrashes
  /\ made' = [made EXCEPT !.crashes = @ + 1]
  /\ live' = table
  /\ queue' = <<>>
  /\ running' = {}
  /\ unsaved' = {}
  /\ views' = <<table>>
  /\ UNCHANGED <<table, clock>>

Handlers(now) ==
  \E t \in Tasks :
    \/ \E instance \in Instances, m \in Messages :
         NewTask(instance, t, m, now) \/ Continuation(instance, t, m, now)
    \/ Revision(t, now)
    \/ \E new \in Running \cup Interrupted : Report(t, new, now)
    \/ \E new \in Terminal \cup Interrupted : RunEnds(t, new, now)
    \/ Cancel(t, now)

Next == Handlers(clock) \/ Handlers(clock + 1) \/ Write \/ WriteFails \/ Crash

Spec == Init /\ [][Next]_vars
-----------------------------------------------------------------------------
(* ListTasks *)

\* The tasks of an instance a request without a status filter asks for.
Selected(view, instance, since) == {t \in Mine(view, instance) : view[t].at >= since}

\* Slip: the oldest first.
BeforeOldestFirst(view, t, u) ==
  IF view[t].at = view[u].at THEN t > u ELSE view[t].at < view[u].at

\* Their order: the newest first, of equal age the one with the larger id.
Before(view, t, u) ==
  IF view[t].at = view[u].at THEN t > u ELSE view[t].at > view[u].at

Position(view, selected, t) == Cardinality({u \in selected : Before(view, u, t)})

\* A page token holds an offset; a request without one, or with another string,
\* is for the first page.
Offset(k, size) == (k - 1) * size

\* One page.
Page(view, selected, offset, size) ==
  {t \in selected : Position(view, selected, t) \in offset..(offset + size - 1)}
HasNext(selected, offset, size) == offset + size < Cardinality(selected)
-----------------------------------------------------------------------------
(* Properties *)

QueuedFor(t) == {i \in DOMAIN queue : queue[i].task = t}

\* What the domain holds of a task, with the queued writes, is what is seen of
\* it, except where the last write to arrive failed: a failed write is made good
\* by the task's next one and by nothing else.
TableTrailsLive ==
  \A t \in Tasks :
    \/ t \in unsaved /\ QueuedFor(t) = {}
    \/ live[t] = IF QueuedFor(t) = {} THEN table[t] ELSE queue[Max(QueuedFor(t))].record

Inputs(record) == Seeded(record)

\* In memory, in the table and so after a crash between any two writes: a
\* message whose id a task has accepted, and whose repetition it therefore
\* ignores, is in its history, and no message is there twice, although clients
\* repeat the ones a crash has lost.
AcceptedOnce ==
  \A t \in Tasks : \A record \in {live[t], table[t]} \ {NoTask} :
    /\ record.ids \subseteq ToSet(Inputs(record))
    /\ IsInjective(Inputs(record))

\* The input an older record holds as its parts stays the first of its history.
FirstInputStays ==
  [][\A t \in Known(live) :
       live'[t] # NoTask => Head(Inputs(live'[t])) = Head(Inputs(live[t]))]_live

\* A client that reads all pages, however many updates come between them, gets
\* every task that was listed when it began and that nothing has touched since.
\* (With a status filter it may not: tasks that leave the filter move the
\* others up.)
UntouchedNeverMissed ==
  \A instance \in Instances, since \in {0, clock}, size \in 1..2, pages \in 1..Cardinality(Tasks) :
  \A seen \in [1..pages -> DOMAIN views] :
    LET Of(k) == Selected(views[seen[k]], instance, since)
    IN /\ seen[pages] = Len(views)
       /\ \A k \in 1..(pages - 1) : seen[k] <= seen[k + 1] /\ HasNext(Of(k), Offset(k, size), size)
       /\ ~HasNext(Of(pages), Offset(pages, size), size)
       => \A t \in Of(1) :
            (\A v \in seen[1]..Len(views) : views[v][t] = live[t]) =>
              \E k \in 1..pages : t \in Page(views[seen[k]], Of(k), Offset(k, size), size)
=============================================================================
