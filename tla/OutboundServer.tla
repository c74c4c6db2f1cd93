---------------------------- MODULE OutboundServer ----------------------------
(***************************************************************************)
(* One outbound connection: its record and operations in the manager       *)
(* (src/servers/outbound-manager.ts) and the registry of its remote agent  *)
(* (src/outbound/registry.ts), which an edit replaces by a new one.        *)
(*                                                                         *)
(* An operation is a handler with awaits in it: reading the remote card,   *)
(* storing a token, waiting for a queued write of the domain.  In between, *)
(* other operations run.  A write is queued with the value computed then;  *)
(* who reads the tables sees it once it has reached the medium.  Writes do *)
(* not fail.  The refresh timer is not kept: a refresh may come at any     *)
(* time.                                                                   *)
(***************************************************************************)
EXTENDS Naturals, Sequences, FiniteSets

CONSTANTS
  Ops,         \* operation slots: dashboard calls and timer ticks in progress
  Kinds,       \* the operations that are called, of those in OpKinds
  MaxConns,    \* bound: connections whose tools are registered at once
  MaxGens,     \* bound: registries made by add and edit
  MaxBegun,    \* bound: operations begun
  MaxRestarts  \* bound: restarts of the process

OpKinds == {"add", "toggle", "refresh", "edit", "remove"}

ASSUME OutboundAssumption ==
  /\ Kinds \subseteq OpKinds
  /\ {MaxConns, MaxGens, MaxBegun, MaxRestarts} \subseteq Nat /\ MaxGens > 0

\* Registries, in the order they are made: add() is called once on each, so the
\* agent record it makes has its number.  A restart begins again with the first.
Gens == 1..MaxGens
None == 0
Conns == 1..MaxConns

VARIABLES
  record,    \* the outbound_servers row: "none", or its enabled flag
  stored,    \* the agents row: stored[a] likewise
  writes,    \* the domain's write chain
  registry,  \* the registry the manager holds
  live,      \* live[g][a]: registry g's connection to a, with its record's flag
  views,     \* views[g]: registry g's views in order of insertion
  seeds,     \* what loadAll read from the agents row
  loading,   \* agents loadAll is connecting
  tools,     \* connections whose tools are registered with the host
  op,        \* op[o]: the operation in slot o
  made,      \* registries, operations and restarts so far
  intended,  \* history: the flag last asked for
  alone      \* history: has every operation run alone so far?

tables == <<record, stored>>
boot == <<seeds, loading>>
connections == <<live, views, tools>>
history == <<intended, alone>>
vars == <<tables, writes, registry, connections, boot, op, made, history>>

Flag == {"on", "off"}
EmptyRow == [a \in Gens |-> "none"]
Dead == [conn |-> None, flag |-> "off"]
NothingLive == [a \in Gens |-> Dead]
View(a, flag, st) == [agent |-> a, flag |-> flag, st |-> st]

\* An operation: where it is, its registry, the agent it is about, and the flag
\* it asks for or has read.
Op(kind, pc, g, a, flag) == [kind |-> kind, pc |-> pc, gen |-> g, agent |-> a, flag |-> flag]
NoOp == Op("none", "idle", None, None, "off")

TypeOK ==
  /\ record \in Flag \cup {"none"}
  /\ {stored, seeds} \subseteq [Gens -> Flag \cup {"none"}]
  /\ registry \in Gens \cup {None}
  /\ live \in [Gens -> [Gens -> [conn : Conns \cup {None}, flag : Flag]]]
  /\ \A g \in Gens : \A i, j \in DOMAIN views[g] :
        views[g][i].agent = views[g][j].agent => i = j
  /\ loading \subseteq Gens
  /\ tools \subseteq Conns
  /\ op \in [Ops -> [kind : OpKinds \cup {"none"},
                     pc : {"idle", "storing", "marked", "connecting", "carded", "listed",
                           "stamped"},
                     gen : Gens \cup {None}, agent : Gens \cup {None}, flag : Flag]]

Init ==
  /\ record = "none"
  /\ stored = EmptyRow
  /\ writes = <<>>
  /\ registry = None
  /\ live = [g \in Gens |-> NothingLive]
  /\ views = [g \in Gens |-> <<>>]
  /\ seeds = EmptyRow
  /\ loading = {}
  /\ tools = {}
  /\ op = [o \in Ops |-> NoOp]
  /\ made = [gens |-> 0, ops |-> 0, restarts |-> 0]
  /\ intended = "off"
  /\ alone = TRUE

-----------------------------------------------------------------------------
(* The write chain *)

Nobody == "nobody"  \* waits for the writes no operation waits for
SaveRecord(flag, o) == [table |-> "record", value |-> flag, by |-> o]
SaveAgents(row, o) == [table |-> "agents", value |-> row, by |-> o]

Enqueue(ws) == writes' = writes \o ws
Saved(o) == \A i \in DOMAIN writes : writes[i].by # o

\* Slip: the chain stops at a write of the agents row.
WriteRecordOnly ==
  /\ writes # <<>>
  /\ Head(writes).table = "record"
  /\ writes' = Tail(writes)
  /\ record' = Head(writes).value
  /\ UNCHANGED <<stored, registry, connections, boot, op, made, history>>

Write ==
  /\ writes # <<>>
  /\ writes' = Tail(writes)
  /\ \/ Head(writes).table = "record" /\ record' = Head(writes).value /\ UNCHANGED stored
     \/ Head(writes).table = "agents" /\ stored' = Head(writes).value /\ UNCHANGED record
  /\ UNCHANGED <<registry, connections, boot, op, made, history>>

-----------------------------------------------------------------------------
(* Registries *)

ViewsOf(vs) == {vs[i] : i \in DOMAIN vs}
HasView(vs, a) == \E v \in ViewsOf(vs) : v.agent = a
ViewFlag(vs, a) == (CHOOSE v \in ViewsOf(vs) : v.agent = a).flag
FirstView(g) == IF views[g] = <<>> THEN None ELSE views[g][1].agent

\* Map.set: a view that is there keeps its place.
SetView(g, v) ==
  [views EXCEPT ![g] =
     IF HasView(@, v.agent)
       THEN [i \in DOMAIN @ |-> IF @[i].agent = v.agent THEN v ELSE @[i]]
       ELSE Append(@, v)]

\* The registry's record of an agent: the row's, or else what loadAll read.
FindRecord(g, a) ==
  IF stored[a] # "none" THEN stored[a] ELSE IF g = 1 THEN seeds[a] ELSE "none"

\* persistAll: live agents, and those in the row that still have a view.
AllAgents(lv, vs) ==
  [a \in Gens |->
     IF lv[a] # Dead THEN lv[a].flag
     ELSE IF stored[a] # "none" /\ HasView(vs, a) THEN ViewFlag(vs, a)
     ELSE "none"]

ConnsOf(lv) == {lv[a].conn : a \in Gens} \ {None}

\* connectRecord after the card was read: tools, connection and view, and the
\* record's time stamp on its way to the row.
Connect(g, a, flag, o) ==
  \E c \in Conns \ tools :
     /\ \A d \in Conns \ tools : c <= d
     /\ tools' = tools \cup {c}
     /\ live' = [live EXCEPT ![g][a] = [conn |-> c, flag |-> flag]]
     /\ views' = SetView(g, View(a, flag, "connected"))
     /\ Enqueue(<<SaveAgents([stored EXCEPT ![a] = flag], o)>>)

\* Slip: the connection is kept without its tools.
DisconnectKeepsLive(g, a) == tools' = tools \ {live[g][a].conn} /\ UNCHANGED live

\* The tools of one connection are disposed, and it is forgotten.
Disconnect(g, a) ==
  /\ tools' = tools \ {live[g][a].conn}
  /\ live' = [live EXCEPT ![g][a] = Dead]

\* Slip: the registry is emptied, its tools stay.
DisposeAllKeepsTools(g) ==
  /\ live' = [live EXCEPT ![g] = NothingLive]
  /\ views' = [views EXCEPT ![g] = <<>>]
  /\ UNCHANGED tools

DisposeAll(g) ==
  /\ tools' = tools \ ConnsOf(live[g])
  /\ live' = [live EXCEPT ![g] = NothingLive]
  /\ views' = [views EXCEPT ![g] = <<>>]

-----------------------------------------------------------------------------
(* The beginning of an operation *)

Idle == loading = {} /\ \A o \in Ops : op[o] = NoOp

Begin(o, next, gens) ==
  /\ op[o] = NoOp
  /\ next.kind \in Kinds
  /\ made.ops < MaxBegun
  /\ op' = [op EXCEPT ![o] = next]
  /\ made' = [made EXCEPT !.ops = @ + 1, !.gens = @ + gens]
  /\ alone' = (alone /\ Idle)

\* add(): the row first; the registry is kept once it is saved.
Add(o) ==
  /\ made.gens = 0
  /\ record = "none"
  /\ \E flag \in Flag :
        /\ Begin(o, Op("add", "marked", 1, 1, flag), 1)
        /\ Enqueue(<<SaveRecord(flag, o)>>)
        /\ intended' = flag
  /\ UNCHANGED <<registry, connections>>

Toggle(o) ==
  /\ registry # None
  /\ \E flag \in Flag :
        /\ Begin(o, Op("toggle", "marked", registry, FirstView(registry), flag), 0)
        /\ Enqueue(IF record # "none" THEN <<SaveRecord(flag, o)>> ELSE <<>>)
        /\ intended' = flag
  /\ UNCHANGED <<registry, connections>>

\* refresh(), called from the dashboard or by the timer: the old tools go, the
\* card is read again.
Refresh(o) ==
  LET g == registry
      a == FirstView(g)
      known == FindRecord(g, a)
  IN /\ g # None
     /\ a # None
     /\ known # "none" \/ live[g][a] # Dead
     /\ Begin(o, Op("refresh", "connecting", g, a,
                    IF known = "none" THEN live[g][a].flag ELSE known), 0)
     /\ Disconnect(g, a)
     /\ UNCHANGED <<registry, views, writes, intended>>

\* update(), and setAuth() where no credentials service is there to be told: the
\* record first.
Edit(o) ==
  /\ registry # None
  /\ record # "none"
  /\ made.gens < MaxGens
  /\ Begin(o, Op("edit", "marked", registry, made.gens + 1, record), 1)
  /\ Enqueue(<<SaveRecord(record, o)>>)
  /\ UNCHANGED <<registry, connections, intended>>

\* setAuth(): the token goes to the credentials service, the record read before.
SetAuth(o) ==
  /\ registry # None
  /\ record # "none"
  /\ made.gens < MaxGens
  /\ Begin(o, Op("edit", "storing", registry, made.gens + 1, record), 1)
  /\ UNCHANGED <<registry, connections, writes, intended>>

\* remove(): the connection at once, the row and the registry later.
Remove(o) ==
  LET g == registry
      a == FirstView(g)
  IN /\ g # None
     /\ Begin(o, Op("remove", "listed", g, a, "off"), 0)
     /\ \/ a = None /\ UNCHANGED <<connections, writes>>
        \/ /\ a # None
           /\ Disconnect(g, a)
           /\ views' = [views EXCEPT ![g] = Tail(@)]
           /\ Enqueue(<<SaveAgents(AllAgents(live'[g], views'[g]), o)>>)
     /\ UNCHANGED <<registry, intended>>

-----------------------------------------------------------------------------
(* After the record was saved *)

Goto(o, pc) == op' = [op EXCEPT ![o].pc = pc]
Finish(o) == op' = [op EXCEPT ![o] = NoOp]
At(o, kind, pc) == op[o].kind = kind /\ op[o].pc = pc /\ Saved(o)

AddSaved(o) ==
  /\ At(o, "add", "marked")
  /\ registry' = 1
  /\ IF op[o].flag = "on" THEN Goto(o, "connecting") ELSE Finish(o)
  /\ UNCHANGED <<connections, writes>>

\* The token is stored and the record saved as it was read, or the service
\* refuses and nothing is done.
TokenStored(o) ==
  /\ At(o, "edit", "storing")
  /\ \/ Enqueue(<<SaveRecord(op[o].flag, o)>>) /\ Goto(o, "marked")
     \/ Finish(o) /\ UNCHANGED writes
  /\ UNCHANGED <<registry, connections>>

\* The registry of the edited connection is disposed, another takes its place.
EditSaved(o) ==
  LET h == op[o].agent
  IN /\ At(o, "edit", "marked")
     /\ DisposeAll(op[o].gen)
     /\ registry' = h
     /\ IF op[o].flag = "on"
          THEN op' = [op EXCEPT ![o] = Op("edit", "connecting", h, h, "on")]
          ELSE Finish(o)
     /\ UNCHANGED writes

\* Nothing is done about an agent that has no view (any more), is already what
\* it should be, or has no record to connect it from.
ToggleDone(o, g, a) ==
  \/ a = None
  \/ live[g][a] = Dead /\ ~HasView(views[g], a)
  \/ (op[o].flag = "on") = (live[g][a] # Dead)
  \/ op[o].flag = "on" /\ FindRecord(g, a) = "none"

ToggleSaved(o) ==
  LET g == op[o].gen
      a == op[o].agent
      off == View(a, "off", "disconnected")
  IN /\ At(o, "toggle", "marked")
     /\ IF ToggleDone(o, g, a) THEN Finish(o) /\ UNCHANGED <<connections, writes>>
        ELSE IF op[o].flag = "on"
        THEN /\ op' = [op EXCEPT ![o] = Op("toggle", "connecting", g, a, FindRecord(g, a))]
             /\ UNCHANGED <<connections, writes>>
        ELSE /\ Disconnect(g, a)
             /\ views' = IF HasView(views[g], a) THEN SetView(g, off) ELSE views
             /\ Enqueue(<<SaveAgents(AllAgents(live'[g], views'[g]), o)>>)
             /\ Goto(o, "listed")
     /\ UNCHANGED registry

-----------------------------------------------------------------------------
(* The card was read, or could not be *)

Connects(o) ==
  /\ op[o].pc = "connecting"
  /\ Connect(op[o].gen, op[o].agent, op[o].flag, o)
  /\ Goto(o, "carded")
  /\ UNCHANGED registry

\* add() makes a view of the failure, refresh() marks the one there is, and
\* setEnabled() leaves it alone.
FailureView(kind, g, a, flag) ==
  IF kind \in {"add", "edit"} THEN SetView(g, View(a, flag, "failed"))
  ELSE IF kind = "refresh" /\ HasView(views[g], a)
    THEN SetView(g, View(a, ViewFlag(views[g], a), "failed"))
  ELSE views

ConnectFails(o) ==
  /\ op[o].pc = "connecting"
  /\ views' = FailureView(op[o].kind, op[o].gen, op[o].agent, op[o].flag)
  /\ Finish(o)
  /\ UNCHANGED <<registry, live, tools, writes>>

\* The time stamp is saved: setEnabled() and refresh() save the whole list, the
\* others the agent's record again, and wait for that of their own row or none.
Carded(o) ==
  LET g == op[o].gen
      a == op[o].agent
      flag == IF live[g][a] # Dead THEN live[g][a].flag ELSE op[o].flag
      again == SaveAgents([stored EXCEPT ![a] = flag], Nobody)
  IN /\ op[o].pc = "carded"
     /\ Saved(o)
     /\ \/ /\ op[o].kind \in {"toggle", "refresh"}
           /\ Enqueue(<<SaveAgents(AllAgents(live[g], views[g]), o)>>)
           /\ Goto(o, "listed")
        \/ op[o].kind = "edit" /\ Enqueue(<<again>>) /\ Finish(o)
        \/ /\ op[o].kind = "add"
           /\ Enqueue(<<again, SaveRecord(op[o].flag, o)>>)
           /\ Goto(o, "stamped")
     /\ UNCHANGED <<registry, connections>>

\* The list is saved: remove() goes on to the rest of the registry and its row,
\* refresh() writes the row it reads now with a new time stamp.
Listed(o) ==
  \/ At(o, "toggle", "listed") /\ Finish(o) /\ UNCHANGED <<registry, connections, writes>>
  \/ /\ At(o, "refresh", "listed")
     /\ \/ record = "none" /\ Finish(o) /\ UNCHANGED writes
        \/ record # "none" /\ Enqueue(<<SaveRecord(record, o)>>) /\ Goto(o, "stamped")
     /\ UNCHANGED <<registry, connections>>
  \/ /\ At(o, "remove", "listed")
     /\ DisposeAll(op[o].gen)
     /\ registry' = None
     /\ Enqueue(<<SaveRecord("none", o)>>)
     /\ Goto(o, "stamped")

Stamped(o) ==
  /\ op[o].pc = "stamped"
  /\ Saved(o)
  /\ Finish(o)
  /\ UNCHANGED <<registry, connections, writes>>

-----------------------------------------------------------------------------
(* Restart *)

\* The process stops, its writes drained, and boots: a row that is enabled has
\* its enabled agents connected in the background.
Restart ==
  LET on == record = "on"
  IN /\ made.restarts < MaxRestarts
     /\ writes = <<>>
     /\ registry' = IF record = "none" THEN None ELSE 1
     /\ live' = [g \in Gens |-> NothingLive]
     /\ views' = [g \in Gens |-> <<>>]
     /\ seeds' = IF on THEN stored ELSE EmptyRow
     /\ loading' = {a \in Gens : on /\ stored[a] = "on"}
     /\ tools' = {}
     /\ op' = [o \in Ops |-> NoOp]
     /\ made' = [made EXCEPT !.restarts = @ + 1]
     /\ alone' = (alone /\ Idle)
     /\ UNCHANGED <<tables, writes, intended>>

\* An agent that cannot be connected at boot is left without a view.
Load(a) ==
  /\ a \in loading
  /\ loading' = loading \ {a}
  /\ Connect(1, a, "on", Nobody) \/ UNCHANGED <<connections, writes>>
  /\ UNCHANGED <<tables, registry, seeds, op, made, history>>

-----------------------------------------------------------------------------
Start(o) ==
  /\ Add(o) \/ Toggle(o) \/ Refresh(o) \/ Edit(o) \/ SetAuth(o) \/ Remove(o)
  /\ UNCHANGED <<tables, boot>>

Continue(o) ==
  /\ \/ AddSaved(o) \/ TokenStored(o) \/ EditSaved(o) \/ ToggleSaved(o)
     \/ Connects(o) \/ ConnectFails(o) \/ Carded(o) \/ Listed(o) \/ Stamped(o)
  /\ UNCHANGED <<tables, boot, made, history>>

Next ==
  \/ Write \/ Restart
  \/ \E o \in Ops : Start(o) \/ Continue(o)
  \/ \E a \in Gens : Load(a)

Spec == Init /\ [][Next]_vars

\* The medium and the credentials service answer, and the card is read or times
\* out.
FairSpec == Spec /\ WF_vars(Write) /\ \A o \in Ops : WF_vars(Continue(o))
-----------------------------------------------------------------------------
(* Properties *)

Quiet == Idle /\ writes = <<>>

\* However refreshes, toggles and edits overlap, a connection that a registry
\* holds has its tools, and those of no other connection; and what the dashboard
\* shows as "connected" has a connection behind it, or a refresh under way that
\* will connect it or mark it failed.
ConnectedHasTools ==
  /\ \A g \in Gens : ConnsOf(live[g]) \subseteq tools
  /\ \A g, h \in Gens : \A a, b \in Gens :
        live[g][a].conn = live[h][b].conn /\ live[g][a] # Dead => g = h /\ a = b
  /\ \A g \in Gens : \A v \in ViewsOf(views[g]) : v.st = "connected" =>
        \/ live[g][v.agent] # Dead
        \/ \E o \in Ops : op[o].kind = "refresh" /\ op[o].pc = "connecting"
                          /\ op[o].gen = g /\ op[o].agent = v.agent

\* As long as operations come one at a time, nothing is left behind and nothing
\* forgotten: when one has ended, the tools registered are those of the
\* connections the manager's registry holds, without a registry there is no
\* record either, and the record has the flag that was asked for last, though
\* refreshes and edits write it back whole (architecture.md: setEnabled
\* "persists the flag").
QuietIsConsistent ==
  alone /\ Quiet =>
    \/ /\ registry # None
       /\ tools = ConnsOf(live[registry])
       /\ record \in {"none", intended}
    \/ registry = None /\ tools = {} /\ record = "none"

\* Every operation comes to an end, whatever the remote agent does.
OpsEnd == \A o \in Ops : op[o] # NoOp ~> op[o] = NoOp
=============================================================================
