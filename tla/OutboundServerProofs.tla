------------------------- MODULE OutboundServerProofs -------------------------
(***************************************************************************)
(* Proofs about OutboundServer, for any number of operations at a time,    *)
(* registries, connections and restarts.                                   *)
(***************************************************************************)
EXTENDS OutboundServer, TLAPS

Rows == [Gens -> Flag \cup {"none"}]
Writes ==
  [table : {"record"}, value : Flag \cup {"none"}, by : Ops \cup {Nobody}]
    \cup [table : {"agents"}, value : Rows, by : Ops \cup {Nobody}]
ViewRecords == [agent : Gens, flag : Flag, st : {"connected", "disconnected", "failed"}]
Connections == [conn : Conns \cup {None}, flag : Flag]
Operations ==
  [kind : OpKinds \cup {"none"},
   pc : {"idle", "storing", "marked", "connecting", "carded", "listed", "stamped"},
   gen : Gens \cup {None}, agent : Gens \cup {None}, flag : Flag]

\* No agent has two views.
Distinct(vs) == \A i, j \in DOMAIN vs : vs[i].agent = vs[j].agent => i = j

\* An operation knows its registry, and an agent when it needs one.
Named(operation) ==
  /\ IF operation.kind = "none" THEN operation.pc = "idle" ELSE operation.gen \in Gens
  /\ operation.kind \in {"add", "refresh", "edit"} \/ operation.pc \in {"connecting", "carded"} =>
        operation.agent \in Gens

TablesTyped ==
  /\ record \in Flag \cup {"none"} /\ stored \in Rows /\ seeds \in Rows
  /\ writes \in Seq(Writes)
  /\ registry \in Gens \cup {None} /\ made \in [gens : 0..MaxGens, ops : Nat, restarts : Nat]
  /\ loading \subseteq Gens /\ intended \in Flag
OpsTyped == op \in [Ops -> Operations] /\ \A o \in Ops : Named(op[o])

\* Only a dead connection has no number.
LiveTyped ==
  /\ live \in [Gens -> [Gens -> Connections]] /\ tools \subseteq Conns
  /\ \A g, a \in Gens : live[g][a].conn = None => live[g][a] = Dead
ViewsTyped == views \in [Gens -> Seq(ViewRecords)] /\ \A g \in Gens : Distinct(views[g])
-----------------------------------------------------------------------------

\* ConnectedHasTools, in the parts its proof takes up.
Held == \A g \in Gens : \A a \in Gens : live[g][a] # Dead => live[g][a].conn \in tools
OneHolder ==
  \A g, h \in Gens : \A a, b \in Gens :
    live[g][a].conn = live[h][b].conn /\ live[g][a] # Dead => g = h /\ a = b
Refreshing(o, g, a) ==
  op[o].kind = "refresh" /\ op[o].pc = "connecting" /\ op[o].gen = g /\ op[o].agent = a
Shown ==
  \A g \in Gens : \A v \in ViewsOf(views[g]) : v.st = "connected" =>
    live[g][v.agent] # Dead \/ \E o \in Ops : Refreshing(o, g, v.agent)

ConnInv == TablesTyped /\ OpsTyped /\ LiveTyped /\ ViewsTyped /\ Held /\ OneHolder /\ Shown
-----------------------------------------------------------------------------

\* What the record is, or will be when its writes have arrived.
Target ==
  IF registry = None /\ \A o \in Ops : op[o].kind # "add" THEN "none" ELSE intended

\* The connections there are, are those of the registry, and have all the tools.
RegistryHasAll ==
  /\ tools = IF registry = None THEN {} ELSE ConnsOf(live[registry])
  /\ \A g \in Gens : g # registry => live[g] = NothingLive

OneAtATime ==
  /\ \A o, p \in Ops : op[o] # NoOp /\ op[p] # NoOp => o = p
  /\ \A a \in loading : registry = 1 /\ live[1][a] = Dead /\ \A o \in Ops : op[o] = NoOp

\* Where the only operation is.
Placed(o) ==
  /\ IF (op[o].kind = "add" /\ op[o].pc = "marked") \/ (op[o].kind = "remove" /\ op[o].pc = "stamped")
     THEN registry = None ELSE registry = op[o].gen
  /\ op[o].kind = "add" => op[o].gen = 1 /\ op[o].flag = intended
  /\ op[o].pc = "storing" => op[o].flag = intended
  /\ op[o].pc = "connecting" => live[op[o].gen][op[o].agent] = Dead

\* The writes of the record, all of the only operation, are of what it will be.
RecordFollows ==
  /\ \A i \in DOMAIN writes : writes[i].table = "record" =>
        /\ writes[i].value = Target
        /\ \E o \in Ops : op[o] # NoOp /\ op[o].pc # "connecting" /\ writes[i].by = o
  /\ (\A i \in DOMAIN writes : writes[i].table # "record") => record = Target

AloneInv ==
  alone => /\ RegistryHasAll /\ OneAtATime /\ RecordFollows
           /\ \A o \in Ops : op[o] # NoOp => Placed(o)
-----------------------------------------------------------------------------
(* What is written *)

LEMMA Enqueued ==
  ASSUME TablesTyped, NEW ws \in Seq(Writes), Enqueue(ws)
  PROVE  writes' \in Seq(Writes)
BY DEF TablesTyped, Enqueue

LEMMA RecordWrite ==
  ASSUME NEW flag \in Flag \cup {"none"}, NEW o \in Ops \cup {Nobody}
  PROVE  SaveRecord(flag, o) \in Writes /\ <<SaveRecord(flag, o)>> \in Seq(Writes)
BY DEF SaveRecord, Writes

LEMMA AgentsWrite ==
  ASSUME NEW row \in Rows, NEW o \in Ops \cup {Nobody}
  PROVE  SaveAgents(row, o) \in Writes /\ <<SaveAgents(row, o)>> \in Seq(Writes)
BY DEF SaveAgents, Writes

LEMMA ViewTyped ==
  ASSUME NEW vs \in Seq(ViewRecords), NEW v \in ViewsOf(vs)
  PROVE  v \in ViewRecords
BY DEF ViewsOf

LEMMA ViewFlagTyped ==
  ASSUME NEW vs \in Seq(ViewRecords), NEW a, HasView(vs, a)
  PROVE  ViewFlag(vs, a) \in Flag
<1>1. PICK v \in ViewsOf(vs) : v.agent = a
  BY DEF HasView
<1>2. (CHOOSE w \in ViewsOf(vs) : w.agent = a) \in ViewsOf(vs)
  BY <1>1
<1> QED BY <1>2, ViewTyped DEF ViewFlag, ViewRecords

LEMMA AllAgentsTyped ==
  ASSUME stored \in Rows, NEW lv \in [Gens -> Connections], NEW vs \in Seq(ViewRecords)
  PROVE  AllAgents(lv, vs) \in Rows
<1>1. ASSUME NEW a \in Gens
      PROVE  (IF lv[a] # Dead THEN lv[a].flag
              ELSE IF stored[a] # "none" /\ HasView(vs, a) THEN ViewFlag(vs, a)
              ELSE "none") \in Flag \cup {"none"}
  BY ViewFlagTyped DEF Connections
<1> QED BY <1>1 DEF AllAgents, Rows
-----------------------------------------------------------------------------
(* Connections *)

\* A view is put in the place of the agent's, or behind the others.
LEMMA SetViewFacts ==
  ASSUME ViewsTyped, NEW g \in Gens, NEW v \in ViewRecords
  PROVE  /\ SetView(g, v) \in [Gens -> Seq(ViewRecords)]
         /\ \A h \in Gens : Distinct(SetView(g, v)[h])
         /\ \A h \in Gens : h # g => SetView(g, v)[h] = views[h]
         /\ \A w \in ViewsOf(SetView(g, v)[g]) :
              w = v \/ (w \in ViewsOf(views[g]) /\ w.agent # v.agent)
<1> DEFINE vs == views[g]
           put == IF HasView(vs, v.agent)
                    THEN [i \in DOMAIN vs |-> IF vs[i].agent = v.agent THEN v ELSE vs[i]]
                    ELSE Append(vs, v)
<1>1. vs \in Seq(ViewRecords) /\ Distinct(vs)
  BY DEF ViewsTyped
<1>2. /\ put \in Seq(ViewRecords) /\ Distinct(put)
      /\ \A w \in ViewsOf(put) : w = v \/ (w \in ViewsOf(vs) /\ w.agent # v.agent)
  <2> HIDE DEF vs
  <2>1. PICK n \in Nat : n = Len(vs) /\ DOMAIN vs = 1..n /\ \A i \in 1..n : vs[i] \in ViewRecords
    BY <1>1
  <2>2. CASE HasView(vs, v.agent)
    <3>1. /\ DOMAIN put = 1..n
          /\ \A i \in 1..n : put[i] = IF vs[i].agent = v.agent THEN v ELSE vs[i]
      BY <2>1, <2>2
    <3>2. put \in Seq(ViewRecords)
      BY <2>1, <2>2
    <3>3. \A i \in 1..n : put[i].agent = vs[i].agent
      BY <3>1
    <3> HIDE DEF put
    <3>4. Distinct(put)
      BY <1>1, <2>1, <3>1, <3>3 DEF Distinct
    <3>5. \A w \in ViewsOf(put) : w = v \/ (w \in ViewsOf(vs) /\ w.agent # v.agent)
      BY <2>1, <3>1 DEF ViewsOf
    <3> QED BY <3>2, <3>4, <3>5
  <2>3. CASE ~HasView(vs, v.agent)
    <3>1. /\ DOMAIN put = 1..(n + 1) /\ put[n + 1] = v /\ put \in Seq(ViewRecords)
          /\ \A i \in 1..n : put[i] = vs[i]
      BY <1>1, <2>1, <2>3
    <3>2. \A i \in 1..n : vs[i].agent # v.agent
      BY <2>1, <2>3 DEF HasView, ViewsOf
    <3>3. \A i \in 1..(n + 1) : i \in 1..n \/ i = n + 1
      OBVIOUS
    <3> HIDE DEF put
    <3>4. Distinct(put)
      BY <1>1, <2>1, <3>1, <3>2, <3>3 DEF Distinct
    <3>5. \A w \in ViewsOf(put) : w = v \/ (w \in ViewsOf(vs) /\ w.agent # v.agent)
      BY <2>1, <3>1, <3>2, <3>3 DEF ViewsOf
    <3> QED BY <3>1, <3>4, <3>5
  <2> QED BY <2>2, <2>3
<1>3. SetView(g, v) = [views EXCEPT ![g] = put]
  BY DEF SetView
<1> HIDE DEF put
<1>4. views \in [Gens -> Seq(ViewRecords)] /\ \A h \in Gens : Distinct(views[h])
  BY DEF ViewsTyped
<1>5. /\ [views EXCEPT ![g] = put] \in [Gens -> Seq(ViewRecords)]
      /\ [views EXCEPT ![g] = put][g] = put
      /\ \A h \in Gens : h # g => [views EXCEPT ![g] = put][h] = views[h]
  BY <1>2, <1>4
<1> QED BY <1>2, <1>3, <1>4, <1>5

LEMMA ConnectKeeps ==
  ASSUME ConnInv, NEW g \in Gens, NEW a \in Gens, NEW flag \in Flag,
         NEW o \in Ops \cup {Nobody}, Connect(g, a, flag, o)
  PROVE  /\ LiveTyped' /\ ViewsTyped' /\ Held' /\ OneHolder' /\ writes' \in Seq(Writes)
         /\ live'[g][a] # Dead
         /\ \A h, b \in Gens : ~(h = g /\ b = a) => live'[h][b] = live[h][b]
         /\ \A h \in Gens : \A w \in ViewsOf(views'[h]) :
              w \in ViewsOf(views[h]) \/ (h = g /\ w.agent = a)
<1>1. PICK c \in Conns \ tools :
        /\ tools' = tools \cup {c}
        /\ live' = [live EXCEPT ![g][a] = [conn |-> c, flag |-> flag]]
        /\ views' = SetView(g, View(a, flag, "connected"))
        /\ Enqueue(<<SaveAgents([stored EXCEPT ![a] = flag], o)>>)
  BY DEF Connect
<1>2. c # None /\ c \in Conns /\ c \notin tools
  BY OutboundAssumption DEF Conns, None
<1> DEFINE new == [conn |-> c, flag |-> flag]
<1>3. new \in Connections /\ new # Dead /\ new.conn = c
  BY <1>2 DEF Connections, Dead
<1> HIDE DEF new
<1>4. /\ live \in [Gens -> [Gens -> Connections]] /\ tools \subseteq Conns
      /\ \A h, b \in Gens : live[h][b].conn = None => live[h][b] = Dead
      /\ \A h, b \in Gens : live[h][b] # Dead => live[h][b].conn \in tools
  BY DEF ConnInv, LiveTyped, Held
<1>5. /\ live' \in [Gens -> [Gens -> Connections]]
      /\ \A h, b \in Gens : live'[h][b] = IF h = g /\ b = a THEN new ELSE live[h][b]
  BY <1>1, <1>3, <1>4 DEF new
<1>6. LiveTyped'
  BY <1>1, <1>2, <1>3, <1>4, <1>5 DEF LiveTyped
<1>7. Held'
  BY <1>1, <1>3, <1>4, <1>5 DEF Held
<1>8. OneHolder'
  <2> SUFFICES ASSUME NEW h \in Gens, NEW k \in Gens, NEW b \in Gens, NEW d \in Gens,
                      live'[h][b].conn = live'[k][d].conn, live'[h][b] # Dead
               PROVE  h = k /\ b = d
    BY DEF OneHolder
  <2>1. c # None /\ Dead.conn = None
    BY <1>2 DEF Dead
  <2>2. \A i, e \in Gens : live[i][e].conn # c
    BY <1>2, <1>4, <2>1
  <2>3. CASE h = g /\ b = a
    BY <1>3, <1>5, <2>2, <2>3
  <2>4. CASE ~(h = g /\ b = a)
    <3>1. live'[h][b] = live[h][b]
      BY <1>5, <2>4
    <3>2. live'[k][d] = live[k][d]
      BY <1>3, <1>5, <2>2, <3>1
    <3> QED BY <3>1, <3>2 DEF ConnInv, OneHolder
  <2> QED BY <2>3, <2>4
<1>9. View(a, flag, "connected") \in ViewRecords /\ View(a, flag, "connected").agent = a
  BY DEF View, ViewRecords
<1>10. ViewsTyped' /\ \A h \in Gens : \A w \in ViewsOf(views'[h]) :
              w \in ViewsOf(views[h]) \/ (h = g /\ w.agent = a)
  BY <1>1, <1>9, SetViewFacts DEF ConnInv, ViewsTyped
<1>11. writes' \in Seq(Writes)
  <2>1. [stored EXCEPT ![a] = flag] \in Rows
    BY DEF ConnInv, TablesTyped, Rows
  <2> QED BY <1>1, <2>1, AgentsWrite, Enqueued DEF ConnInv
<1> QED BY <1>3, <1>5, <1>6, <1>7, <1>8, <1>10, <1>11

LEMMA DisconnectKeeps ==
  ASSUME ConnInv, NEW g \in Gens, NEW a \in Gens, Disconnect(g, a)
  PROVE  /\ LiveTyped' /\ Held' /\ OneHolder' /\ live'[g][a] = Dead
         /\ \A h, b \in Gens : ~(h = g /\ b = a) => live'[h][b] = live[h][b]
<1>1. /\ live \in [Gens -> [Gens -> Connections]] /\ tools \subseteq Conns
      /\ \A h, b \in Gens : live[h][b].conn = None => live[h][b] = Dead
      /\ \A h, b \in Gens : live[h][b] # Dead => live[h][b].conn \in tools
  BY DEF ConnInv, LiveTyped, Held
<1>2. Dead \in Connections
  BY DEF Dead, Connections, Flag
<1>3. /\ tools' = tools \ {live[g][a].conn}
      /\ live' \in [Gens -> [Gens -> Connections]]
      /\ \A h, b \in Gens : live'[h][b] = IF h = g /\ b = a THEN Dead ELSE live[h][b]
  BY <1>1, <1>2 DEF Disconnect
<1>4. LiveTyped'
  BY <1>1, <1>3 DEF LiveTyped
<1>5. Held'
  BY <1>1, <1>3 DEF ConnInv, Held, OneHolder
<1>6. OneHolder'
  <2> SUFFICES ASSUME NEW h \in Gens, NEW k \in Gens, NEW b \in Gens, NEW d \in Gens,
                      live'[h][b].conn = live'[k][d].conn, live'[h][b] # Dead
               PROVE  h = k /\ b = d
    BY DEF OneHolder
  <2>1. live'[h][b] = live[h][b] /\ live[h][b].conn # None
    BY <1>1, <1>3
  <2>2. Dead.conn = None
    BY DEF Dead
  <2>3. live'[k][d] = live[k][d]
    BY <1>3, <2>1, <2>2
  <2> QED BY <2>1, <2>3 DEF ConnInv, OneHolder
<1> QED BY <1>3, <1>4, <1>5, <1>6

LEMMA DisposeAllKeeps ==
  ASSUME ConnInv, NEW g \in Gens, DisposeAll(g)
  PROVE  /\ LiveTyped' /\ ViewsTyped' /\ Held' /\ OneHolder'
         /\ live'[g] = NothingLive /\ views'[g] = <<>>
         /\ \A h \in Gens : h # g => live'[h] = live[h] /\ views'[h] = views[h]
<1>1. /\ live \in [Gens -> [Gens -> Connections]] /\ tools \subseteq Conns
      /\ \A h, b \in Gens : live[h][b].conn = None => live[h][b] = Dead
      /\ \A h, b \in Gens : live[h][b] # Dead => live[h][b].conn \in tools
  BY DEF ConnInv, LiveTyped, Held
<1>2. NothingLive \in [Gens -> Connections] /\ \A a \in Gens : NothingLive[a] = Dead
  BY DEF NothingLive, Dead, Connections, Flag
<1>3. /\ tools' = tools \ ConnsOf(live[g])
      /\ live' \in [Gens -> [Gens -> Connections]]
      /\ \A h \in Gens : live'[h] = IF h = g THEN NothingLive ELSE live[h]
  BY <1>1, <1>2 DEF DisposeAll
<1>4. LiveTyped'
  BY <1>1, <1>2, <1>3 DEF LiveTyped
<1>5. Held'
  BY <1>1, <1>2, <1>3 DEF ConnInv, Held, OneHolder, ConnsOf
<1>6. OneHolder'
  <2> SUFFICES ASSUME NEW h \in Gens, NEW k \in Gens, NEW b \in Gens, NEW d \in Gens,
                      live'[h][b].conn = live'[k][d].conn, live'[h][b] # Dead
               PROVE  h = k /\ b = d
    BY DEF OneHolder
  <2>1. live'[h][b] = live[h][b] /\ live[h][b].conn # None
    BY <1>1, <1>2, <1>3
  <2>2. Dead.conn = None
    BY DEF Dead
  <2>3. live'[k][d] = live[k][d]
    BY <1>2, <1>3, <2>1, <2>2
  <2> QED BY <2>1, <2>3 DEF ConnInv, OneHolder
<1>7. ViewsTyped' /\ views'[g] = <<>> /\ \A h \in Gens : h # g => views'[h] = views[h]
  <2>1. views \in [Gens -> Seq(ViewRecords)] /\ \A h \in Gens : Distinct(views[h])
    BY DEF ConnInv, ViewsTyped
  <2>2. views' = [views EXCEPT ![g] = <<>>] /\ <<>> \in Seq(ViewRecords) /\ Distinct(<<>>)
    BY DEF DisposeAll, Distinct
  <2> QED BY <2>1, <2>2 DEF ViewsTyped
<1> QED BY <1>3, <1>4, <1>5, <1>6, <1>7

LEMMA Unmoved ==
  ASSUME ConnInv, UNCHANGED connections
  PROVE  LiveTyped' /\ ViewsTyped' /\ Held' /\ OneHolder' /\ UNCHANGED <<live, views, tools>>
BY DEF ConnInv, LiveTyped, ViewsTyped, Held, OneHolder, connections

LEMMA ShownAgent ==
  ASSUME ConnInv, NEW h \in Gens, NEW w \in ViewsOf(views[h])
  PROVE  w.agent \in Gens
<1>1. views[h] \in Seq(ViewRecords)
  BY DEF ConnInv, ViewsTyped
<1>2. w \in ViewRecords
  BY <1>1, ViewTyped
<1> QED BY <1>2 DEF ViewRecords

\* What is shown of the agents nobody touched is as it was; of the one that was
\* touched there is a connection, a refresh, or no view that says "connected".
LEMMA ShownKeeps ==
  ASSUME ConnInv, NEW g \in Gens, NEW a \in Gens,
         \A p \in Ops : \A h, b \in Gens : Refreshing(p, h, b) => Refreshing(p, h, b)' \/ (h = g /\ b = a),
         \A h, b \in Gens : ~(h = g /\ b = a) => live'[h][b] = live[h][b],
         \A h \in Gens : \A w \in ViewsOf(views'[h]) :
           w \in ViewsOf(views[h]) \/ (h = g /\ w.agent = a),
         \/ live'[g][a] # Dead
         \/ \E p \in Ops : Refreshing(p, g, a)'
         \/ \A w \in ViewsOf(views'[g]) : w.agent = a => w.st # "connected"
  PROVE  Shown'
<1> SUFFICES ASSUME NEW h \in Gens, NEW w \in ViewsOf(views'[h]), w.st = "connected"
             PROVE  live'[h][w.agent] # Dead \/ \E p \in Ops : Refreshing(p, h, w.agent)'
  BY DEF Shown
<1>1. CASE h = g /\ w.agent = a
  BY <1>1
<1>2. CASE ~(h = g /\ w.agent = a)
  <2>1. w \in ViewsOf(views[h])
    BY <1>2
  <2>2. w.agent \in Gens
    BY <2>1, ShownAgent
  <2>3. live[h][w.agent] # Dead \/ \E p \in Ops : Refreshing(p, h, w.agent)
    BY <2>1 DEF ConnInv, Shown
  <2> QED BY <1>2, <2>2, <2>3
<1> QED BY <1>1, <1>2

LEMMA ShownSame ==
  ASSUME ConnInv, UNCHANGED connections,
         \A p \in Ops : \A h, b \in Gens : Refreshing(p, h, b) => Refreshing(p, h, b)'
  PROVE  Shown'
<1> SUFFICES ASSUME NEW h \in Gens, NEW w \in ViewsOf(views'[h]), w.st = "connected"
             PROVE  live'[h][w.agent] # Dead \/ \E p \in Ops : Refreshing(p, h, w.agent)'
  BY DEF Shown
<1>1. w \in ViewsOf(views[h]) /\ live' = live
  BY DEF connections
<1>2. w.agent \in Gens
  BY <1>1, ShownAgent
<1> QED BY <1>1, <1>2 DEF ConnInv, Shown
-----------------------------------------------------------------------------
(* Operations *)

LEMMA OpsSet ==
  ASSUME ConnInv, NEW o \in Ops, NEW next \in Operations, Named(next),
         op' = [op EXCEPT ![o] = next]
  PROVE  OpsTyped' /\ op'[o] = next /\ \A p \in Ops : p # o => op'[p] = op[p]
BY DEF ConnInv, OpsTyped

LEMMA NoOpTyped == NoOp \in Operations /\ Named(NoOp) /\ NoOp.kind = "none" /\ NoOp.pc = "idle"
BY DEF NoOp, Op, Operations, Named, Flag, None

LEMMA FinishFacts ==
  ASSUME ConnInv, NEW o \in Ops, Finish(o)
  PROVE  OpsTyped' /\ op'[o] = NoOp /\ \A p \in Ops : p # o => op'[p] = op[p]
BY NoOpTyped, OpsSet DEF Finish

LEMMA GotoFacts ==
  ASSUME ConnInv, NEW o \in Ops, op[o].kind # "none",
         NEW pc \in {"marked", "connecting", "carded", "listed", "stamped"}, Goto(o, pc),
         pc \in {"connecting", "carded"} => op[o].agent \in Gens
  PROVE  /\ OpsTyped' /\ op'[o].kind = op[o].kind /\ op'[o].pc = pc /\ op'[o].gen = op[o].gen
         /\ op'[o].agent = op[o].agent /\ op'[o].flag = op[o].flag
         /\ \A p \in Ops : p # o => op'[p] = op[p]
<1> DEFINE next == [op[o] EXCEPT !.pc = pc]
<1>1. op[o] \in Operations /\ Named(op[o]) /\ op \in [Ops -> Operations]
  BY DEF ConnInv, OpsTyped
<1>2. /\ next \in Operations /\ next.kind = op[o].kind /\ next.pc = pc /\ next.gen = op[o].gen
      /\ next.agent = op[o].agent /\ next.flag = op[o].flag
  BY <1>1 DEF Operations
<1>3. op' = [op EXCEPT ![o] = next]
  BY <1>1 DEF Goto
<1> HIDE DEF next
<1>4. Named(next)
  BY <1>1, <1>2 DEF Named
<1> QED BY <1>2, <1>3, <1>4, OpsSet

LEMMA BeginFacts ==
  ASSUME ConnInv, NEW o \in Ops, NEW next \in Operations, Named(next), NEW n \in {0, 1},
         made.gens + n <= MaxGens, Begin(o, next, n)
  PROVE  /\ OpsTyped' /\ op'[o] = next /\ \A p \in Ops : p # o => op'[p] = op[p]
         /\ op[o] = NoOp /\ made' \in [gens : 0..MaxGens, ops : Nat, restarts : Nat]
         /\ made'.gens = made.gens + n
         /\ \A p \in Ops : \A h, b \in Gens : Refreshing(p, h, b) => Refreshing(p, h, b)'
<1>1. OpsTyped' /\ op'[o] = next /\ op[o] = NoOp /\ \A p \in Ops : p # o => op'[p] = op[p]
  BY OpsSet DEF Begin
<1>2. made \in [gens : 0..MaxGens, ops : Nat, restarts : Nat] /\ MaxGens \in Nat
  BY OutboundAssumption DEF ConnInv, TablesTyped
<1>3. made.gens + n \in 0..MaxGens /\ made.ops + 1 \in Nat
  BY <1>2
<1>4. made' = [made EXCEPT !.ops = made.ops + 1, !.gens = made.gens + n]
  BY DEF Begin
<1>5. made' \in [gens : 0..MaxGens, ops : Nat, restarts : Nat] /\ made'.gens = made.gens + n
  BY <1>2, <1>3, <1>4
<1>6. ASSUME NEW p \in Ops, NEW h \in Gens, NEW b \in Gens, Refreshing(p, h, b)
      PROVE  Refreshing(p, h, b)'
  <2>1. p # o
    BY <1>1, <1>6, NoOpTyped DEF Refreshing
  <2> QED BY <1>1, <1>6, <2>1 DEF Refreshing
<1> QED BY <1>1, <1>5, <1>6

LEMMA OpTyped ==
  ASSUME NEW kind \in OpKinds, NEW pc \in {"storing", "marked", "connecting", "listed"}, NEW g \in Gens,
         NEW a \in Gens \cup {None}, NEW flag \in Flag,
         a \in Gens \/ (kind \in {"toggle", "remove"} /\ pc # "connecting")
  PROVE  Op(kind, pc, g, a, flag) \in Operations /\ Named(Op(kind, pc, g, a, flag))
BY DEF Op, Operations, Named, OpKinds

LEMMA FirstViewFacts ==
  ASSUME ConnInv, NEW g \in Gens
  PROVE  /\ FirstView(g) \in Gens \cup {None}
         /\ FirstView(g) # None => views[g] # <<>> /\ views[g][1].agent = FirstView(g)
<1>1. views[g] \in Seq(ViewRecords)
  BY DEF ConnInv, ViewsTyped
<1>2. views[g] # <<>> => views[g][1] \in ViewRecords
  BY <1>1
<1> QED BY <1>2 DEF FirstView, ViewRecords

\* The first view of the list goes: no other is of its agent.
LEMMA TailFacts ==
  ASSUME NEW vs \in Seq(ViewRecords), vs # <<>>, Distinct(vs)
  PROVE  /\ Tail(vs) \in Seq(ViewRecords) /\ Distinct(Tail(vs))
         /\ \A w \in ViewsOf(Tail(vs)) : w \in ViewsOf(vs) /\ w.agent # vs[1].agent
<1>1. PICK n \in Nat : n = Len(vs) /\ n > 0 /\ DOMAIN vs = 1..n
  OBVIOUS
<1>2. /\ Tail(vs) \in Seq(ViewRecords) /\ DOMAIN Tail(vs) = 1..(n - 1)
      /\ \A i \in 1..(n - 1) : Tail(vs)[i] = vs[i + 1] /\ i + 1 \in 1..n /\ i + 1 # 1
  BY <1>1
<1>3. 1 \in 1..n
  BY <1>1
<1>4. Distinct(Tail(vs))
  BY <1>1, <1>2 DEF Distinct
<1>5. \A w \in ViewsOf(Tail(vs)) : w \in ViewsOf(vs) /\ w.agent # vs[1].agent
  BY <1>1, <1>2, <1>3 DEF Distinct, ViewsOf
<1> QED BY <1>2, <1>4, <1>5
-----------------------------------------------------------------------------
(* Each action keeps what is held and shown *)

LEMMA StartKeeps ==
  ASSUME ConnInv, NEW o \in Ops, Start(o)
  PROVE  ConnInv'
<1>1. /\ UNCHANGED <<record, stored, seeds, loading>> /\ o \in Ops \cup {Nobody}
      /\ record \in Flag \cup {"none"} /\ intended \in Flag /\ writes \in Seq(Writes)
      /\ registry \in Gens \cup {None} /\ made.gens \in 0..MaxGens /\ MaxGens \in Nat /\ MaxGens > 0
      /\ made.gens + 0 <= MaxGens
  BY OutboundAssumption DEF Start, tables, boot, ConnInv, TablesTyped
<1>2. ASSUME made' \in [gens : 0..MaxGens, ops : Nat, restarts : Nat],
             intended' \in Flag, writes' \in Seq(Writes), UNCHANGED registry
      PROVE  TablesTyped'
  BY <1>1, <1>2 DEF ConnInv, TablesTyped
<1>3. CASE Add(o)
  <2>1. PICK flag \in Flag :
          /\ Begin(o, Op("add", "marked", 1, 1, flag), 1)
          /\ Enqueue(<<SaveRecord(flag, o)>>)
          /\ intended' = flag
    BY <1>3 DEF Add
  <2>2. 1 \in Gens /\ made.gens + 1 <= MaxGens /\ UNCHANGED registry /\ UNCHANGED connections
    BY <1>1, <1>3 DEF Add, Gens
  <2>3. Op("add", "marked", 1, 1, flag) \in Operations /\ Named(Op("add", "marked", 1, 1, flag))
    BY <2>2, OpTyped DEF OpKinds
  <2>4. /\ OpsTyped' /\ made' \in [gens : 0..MaxGens, ops : Nat, restarts : Nat]
        /\ \A p \in Ops : \A h, b \in Gens : Refreshing(p, h, b) => Refreshing(p, h, b)'
    BY <2>1, <2>2, <2>3, BeginFacts
  <2>5. writes' \in Seq(Writes)
    BY <1>1, <2>1, RecordWrite, Enqueued DEF ConnInv
  <2> QED BY <1>2, <2>1, <2>2, <2>4, <2>5, Unmoved, ShownSame DEF ConnInv
<1>4. CASE Toggle(o)
  <2>1. PICK flag \in Flag :
          /\ Begin(o, Op("toggle", "marked", registry, FirstView(registry), flag), 0)
          /\ Enqueue(IF record # "none" THEN <<SaveRecord(flag, o)>> ELSE <<>>)
          /\ intended' = flag
    BY <1>4 DEF Toggle
  <2>2. registry \in Gens /\ UNCHANGED registry /\ UNCHANGED connections
    BY <1>1, <1>4 DEF Toggle
  <2> DEFINE next == Op("toggle", "marked", registry, FirstView(registry), flag)
  <2>3. next \in Operations /\ Named(next)
    BY <2>2, FirstViewFacts, OpTyped DEF OpKinds
  <2> HIDE DEF next
  <2>4. /\ OpsTyped' /\ made' \in [gens : 0..MaxGens, ops : Nat, restarts : Nat]
        /\ \A p \in Ops : \A h, b \in Gens : Refreshing(p, h, b) => Refreshing(p, h, b)'
    BY <1>1, <2>1, <2>3, BeginFacts DEF next
  <2>5. (IF record # "none" THEN <<SaveRecord(flag, o)>> ELSE <<>>) \in Seq(Writes)
    BY <1>1, RecordWrite
  <2>6. writes' \in Seq(Writes)
    BY <2>1, <2>5, Enqueued DEF ConnInv
  <2> QED BY <1>2, <2>1, <2>2, <2>4, <2>6, Unmoved, ShownSame DEF ConnInv
<1>5. CASE Refresh(o)
  <2> DEFINE g == registry
             a == FirstView(g)
             known == FindRecord(g, a)
             flag == IF known = "none" THEN live[g][a].flag ELSE known
             next == Op("refresh", "connecting", g, a, flag)
  <2>1. /\ g \in Gens /\ a \in Gens /\ Begin(o, next, 0) /\ Disconnect(g, a)
        /\ UNCHANGED <<registry, views, writes, intended>>
    BY <1>1, <1>5, FirstViewFacts DEF Refresh
  <2>2. flag \in Flag
    BY <2>1 DEF ConnInv, TablesTyped, LiveTyped, Rows, Connections, FindRecord
  <2> HIDE DEF known, flag, a, g
  <2>3. next \in Operations /\ Named(next)
    BY <2>1, <2>2, OpTyped DEF OpKinds
  <2>4. Refreshing(o, g, a)' <=> op'[o].kind = "refresh" /\ op'[o].pc = "connecting"
                                /\ op'[o].gen = registry /\ op'[o].agent = FirstView(registry)
    BY <2>1 DEF g, a, Refreshing, FirstView
  <2>5. next.kind = "refresh" /\ next.pc = "connecting" /\ next.gen = g /\ next.agent = a
    BY DEF Op
  <2> HIDE DEF next
  <2>6. /\ OpsTyped' /\ op'[o] = next /\ made' \in [gens : 0..MaxGens, ops : Nat, restarts : Nat]
        /\ \A p \in Ops : \A h, b \in Gens : Refreshing(p, h, b) => Refreshing(p, h, b)'
    BY <1>1, <2>1, <2>3, BeginFacts
  <2>7. PICK k \in Gens, b \in Gens : k = g /\ b = a
    BY <2>1
  <2>8. Refreshing(o, k, b)'
    BY <2>5, <2>6, <2>7 DEF Refreshing
  <2>9. /\ LiveTyped' /\ Held' /\ OneHolder'
        /\ \A h, d \in Gens : ~(h = k /\ d = b) => live'[h][d] = live[h][d]
    BY <2>1, <2>7, DisconnectKeeps
  <2>10. Shown'
    BY <2>1, <2>6, <2>8, <2>9, ShownKeeps
  <2>11. ViewsTyped'
    BY <2>1 DEF ConnInv, ViewsTyped
  <2> QED BY <1>1, <1>2, <2>1, <2>6, <2>9, <2>10, <2>11 DEF ConnInv
<1>6. CASE Edit(o)
  <2>1. /\ registry \in Gens /\ record \in Flag /\ made.gens + 1 <= MaxGens
        /\ Begin(o, Op("edit", "marked", registry, made.gens + 1, record), 1)
        /\ Enqueue(<<SaveRecord(record, o)>>)
        /\ UNCHANGED <<registry, intended>> /\ UNCHANGED connections
    BY <1>1, <1>6 DEF Edit
  <2> DEFINE next == Op("edit", "marked", registry, made.gens + 1, record)
  <2>2. made.gens + 1 \in Gens
    BY <1>1, <2>1 DEF Gens
  <2>3. next \in Operations /\ Named(next)
    BY <2>1, <2>2, OpTyped DEF OpKinds
  <2>4. Begin(o, next, 1)
    BY <2>1
  <2> HIDE DEF next
  <2>5. /\ OpsTyped' /\ made' \in [gens : 0..MaxGens, ops : Nat, restarts : Nat]
        /\ \A p \in Ops : \A h, b \in Gens : Refreshing(p, h, b) => Refreshing(p, h, b)'
    BY <2>1, <2>3, <2>4, BeginFacts
  <2>6. writes' \in Seq(Writes)
    BY <1>1, <2>1, RecordWrite, Enqueued DEF ConnInv
  <2> QED BY <1>1, <1>2, <2>1, <2>5, <2>6, Unmoved, ShownSame DEF ConnInv
<1>7. CASE Remove(o)
  <2>1. PICK g \in Gens, a \in Gens \cup {None} : g = registry /\ a = FirstView(registry)
    BY <1>1, <1>7, FirstViewFacts DEF Remove
  <2> DEFINE next == Op("remove", "listed", g, a, "off")
  <2>2. Begin(o, next, 0) /\ UNCHANGED <<registry, intended>>
    BY <1>7, <2>1 DEF Remove
  <2>3. next \in Operations /\ Named(next)
    BY OpTyped DEF OpKinds, Flag
  <2> HIDE DEF next
  <2>4. /\ OpsTyped' /\ made' \in [gens : 0..MaxGens, ops : Nat, restarts : Nat]
        /\ \A p \in Ops : \A h, b \in Gens : Refreshing(p, h, b) => Refreshing(p, h, b)'
    BY <1>1, <2>2, <2>3, BeginFacts
  <2>5. CASE a = None /\ UNCHANGED <<connections, writes>>
    BY <1>1, <1>2, <2>2, <2>4, <2>5, Unmoved, ShownSame DEF ConnInv
  <2>6. CASE a # None /\ ~UNCHANGED <<connections, writes>>
    <3>1. /\ a \in Gens /\ Disconnect(g, a) /\ views' = [views EXCEPT ![g] = Tail(@)]
          /\ Enqueue(<<SaveAgents(AllAgents(live'[g], views'[g]), o)>>)
      BY <1>7, <2>1, <2>6 DEF Remove
    <3>2. /\ views[g] \in Seq(ViewRecords) /\ views[g] # <<>> /\ Distinct(views[g])
          /\ views[g][1].agent = a /\ views \in [Gens -> Seq(ViewRecords)]
      BY <2>1, <2>6, FirstViewFacts DEF ConnInv, ViewsTyped
    <3>3. /\ views'[g] = Tail(views[g]) /\ \A h \in Gens : h # g => views'[h] = views[h]
          /\ Tail(views[g]) \in Seq(ViewRecords) /\ Distinct(Tail(views[g]))
          /\ \A w \in ViewsOf(Tail(views[g])) : w \in ViewsOf(views[g]) /\ w.agent # a
      BY <3>1, <3>2, TailFacts
    <3>4. ViewsTyped'
      BY <3>1, <3>2, <3>3 DEF ConnInv, ViewsTyped
    <3>5. /\ LiveTyped' /\ Held' /\ OneHolder'
          /\ \A h, d \in Gens : ~(h = g /\ d = a) => live'[h][d] = live[h][d]
      BY <3>1, DisconnectKeeps
    <3>6. Shown'
      BY <2>4, <3>1, <3>3, <3>5, ShownKeeps
    <3>7. AllAgents(live'[g], views'[g]) \in Rows
      BY <3>3, <3>5, AllAgentsTyped DEF ConnInv, TablesTyped, LiveTyped
    <3>8. writes' \in Seq(Writes)
      BY <1>1, <3>1, <3>7, AgentsWrite, Enqueued DEF ConnInv
    <3> QED BY <1>1, <1>2, <2>2, <2>4, <3>4, <3>5, <3>6, <3>8 DEF ConnInv
  <2>7. CASE a # None /\ UNCHANGED <<connections, writes>>
    BY <1>1, <1>2, <2>2, <2>4, <2>7, Unmoved, ShownSame DEF ConnInv
  <2> QED BY <1>7, <2>1, <2>5, <2>6, <2>7 DEF Remove
<1>8. CASE SetAuth(o)
  <2>1. /\ registry \in Gens /\ record \in Flag /\ made.gens + 1 <= MaxGens
        /\ Begin(o, Op("edit", "storing", registry, made.gens + 1, record), 1)
        /\ UNCHANGED <<registry, intended, writes>> /\ UNCHANGED connections
    BY <1>1, <1>8 DEF SetAuth
  <2> DEFINE next == Op("edit", "storing", registry, made.gens + 1, record)
  <2>2. made.gens + 1 \in Gens
    BY <1>1, <2>1 DEF Gens
  <2>3. next \in Operations /\ Named(next)
    BY <2>1, <2>2, OpTyped DEF OpKinds
  <2>4. Begin(o, next, 1)
    BY <2>1
  <2> HIDE DEF next
  <2>5. /\ OpsTyped' /\ made' \in [gens : 0..MaxGens, ops : Nat, restarts : Nat]
        /\ \A p \in Ops : \A h, b \in Gens : Refreshing(p, h, b) => Refreshing(p, h, b)'
    BY <2>1, <2>3, <2>4, BeginFacts
  <2> QED BY <1>1, <1>2, <2>1, <2>5, Unmoved, ShownSame DEF ConnInv, TablesTyped
<1> QED BY <1>3, <1>4, <1>5, <1>6, <1>7, <1>8 DEF Start

LEMMA OthersRefresh ==
  ASSUME NEW o \in Ops, \A p \in Ops : p # o => op'[p] = op[p]
  PROVE  \A p \in Ops : \A h, b \in Gens :
           Refreshing(p, h, b) =>
             \/ Refreshing(p, h, b)'
             \/ op[o].kind = "refresh" /\ op[o].pc = "connecting" /\ h = op[o].gen /\ b = op[o].agent
<1> SUFFICES ASSUME NEW p \in Ops, NEW h \in Gens, NEW b \in Gens, Refreshing(p, h, b)
             PROVE  \/ Refreshing(p, h, b)'
                    \/ /\ op[o].kind = "refresh" /\ op[o].pc = "connecting"
                       /\ h = op[o].gen /\ b = op[o].agent
  OBVIOUS
<1>1. CASE p = o
  BY <1>1 DEF Refreshing
<1>2. CASE p # o
  BY <1>2 DEF Refreshing
<1> QED BY <1>1, <1>2

LEMMA OpFacts ==
  ASSUME ConnInv, NEW o \in Ops, op[o].kind # "none"
  PROVE  /\ op[o] \in Operations /\ op[o].gen \in Gens /\ op[o].flag \in Flag
         /\ op[o].agent \in Gens \cup {None}
         /\ op[o].kind \in {"add", "refresh", "edit"} \/ op[o].pc \in {"connecting", "carded"} =>
              op[o].agent \in Gens
BY DEF ConnInv, OpsTyped, Operations, Named

\* What goes on while no connection is touched.
LEMMA QuietStep ==
  ASSUME ConnInv, NEW o \in Ops, UNCHANGED <<record, stored, seeds, loading, made, intended>>,
         UNCHANGED connections, OpsTyped', writes' \in Seq(Writes),
         registry' \in Gens \cup {None},
         \A p \in Ops : p # o => op'[p] = op[p],
         ~(op[o].kind = "refresh" /\ op[o].pc = "connecting")
  PROVE  ConnInv'
<1>1. \A p \in Ops : \A h, b \in Gens : Refreshing(p, h, b) => Refreshing(p, h, b)'
  BY OthersRefresh
<1>2. TablesTyped'
  BY DEF ConnInv, TablesTyped
<1> QED BY <1>1, <1>2, Unmoved, ShownSame DEF ConnInv

LEMMA ContinueKeeps ==
  ASSUME ConnInv, NEW o \in Ops, Continue(o)
  PROVE  ConnInv'
<1>1. /\ UNCHANGED <<record, stored, seeds, loading, made, intended>> /\ o \in Ops \cup {Nobody}
      /\ Nobody \in Ops \cup {Nobody}
      /\ record \in Flag \cup {"none"} /\ stored \in Rows /\ writes \in Seq(Writes)
      /\ registry \in Gens \cup {None} /\ 1 \in Gens
      /\ live \in [Gens -> [Gens -> Connections]] /\ views \in [Gens -> Seq(ViewRecords)]
  BY OutboundAssumption DEF Continue, tables, boot, history, ConnInv, TablesTyped, LiveTyped,
     ViewsTyped, Gens
<1>2. ASSUME writes' \in Seq(Writes), registry' \in Gens \cup {None}
      PROVE  TablesTyped'
  BY <1>1, <1>2 DEF ConnInv, TablesTyped
<1>3. CASE AddSaved(o)
  <2>1. op[o].kind = "add" /\ registry' = 1 /\ UNCHANGED connections /\ writes' = writes
    BY <1>3 DEF AddSaved, At
  <2>2. OpsTyped' /\ \A p \in Ops : p # o => op'[p] = op[p]
    BY <1>3, <2>1, OpFacts, GotoFacts, FinishFacts DEF AddSaved
  <2> QED BY <1>1, <2>1, <2>2, QuietStep
<1>4. CASE EditSaved(o)
  <2>1. /\ op[o].kind = "edit" /\ op[o].pc = "marked" /\ DisposeAll(op[o].gen)
        /\ registry' = op[o].agent /\ writes' = writes
    BY <1>4 DEF EditSaved, At
  <2>2. op[o].gen \in Gens /\ op[o].agent \in Gens
    BY <2>1, OpFacts
  <2>3. PICK g \in Gens : g = op[o].gen
    BY <2>2
  <2>4. OpsTyped' /\ \A p \in Ops : p # o => op'[p] = op[p]
    <3> DEFINE next == Op("edit", "connecting", op[o].agent, op[o].agent, "on")
    <3>1. next \in Operations /\ Named(next)
      BY <2>2, OpTyped DEF OpKinds, Flag
    <3>2. op' = [op EXCEPT ![o] = next] \/ Finish(o)
      BY <1>4 DEF EditSaved
    <3> HIDE DEF next
    <3> QED BY <3>1, <3>2, OpsSet, FinishFacts
  <2>5. /\ LiveTyped' /\ ViewsTyped' /\ Held' /\ OneHolder'
        /\ live'[g] = NothingLive /\ views'[g] = <<>>
        /\ \A h \in Gens : h # g => live'[h] = live[h] /\ views'[h] = views[h]
    BY <2>1, <2>3, DisposeAllKeeps
  <2>6. \A p \in Ops : \A h, b \in Gens : Refreshing(p, h, b) => Refreshing(p, h, b)'
    BY <2>1, <2>4, OthersRefresh
  <2>7. Shown'
    <3> SUFFICES ASSUME NEW h \in Gens, NEW w \in ViewsOf(views'[h]), w.st = "connected"
                 PROVE  live'[h][w.agent] # Dead \/ \E p \in Ops : Refreshing(p, h, w.agent)'
      BY DEF Shown
    <3>1. h # g
      BY <2>5 DEF ViewsOf
    <3>2. w \in ViewsOf(views[h]) /\ live'[h] = live[h]
      BY <2>5, <3>1
    <3>3. w.agent \in Gens
      BY <3>2, ShownAgent
    <3> QED BY <2>6, <3>2, <3>3 DEF ConnInv, Shown
  <2> QED BY <1>1, <1>2, <2>1, <2>2, <2>4, <2>5, <2>7 DEF ConnInv
<1>5. CASE ToggleSaved(o)
  <2>1. op[o].kind = "toggle" /\ op[o].pc = "marked" /\ registry' = registry
    BY <1>5 DEF ToggleSaved, At
  <2>2. PICK g \in Gens, a \in Gens \cup {None} : g = op[o].gen /\ a = op[o].agent
    BY <2>1, OpFacts
  <2>3. CASE ToggleDone(o, g, a)
    <3>1. Finish(o) /\ UNCHANGED connections /\ UNCHANGED writes
      BY <1>5, <2>2, <2>3 DEF ToggleSaved
    <3> QED BY <1>1, <2>1, <3>1, FinishFacts, QuietStep
  <2>4. CASE ~ToggleDone(o, g, a) /\ op[o].flag = "on"
    <3>1. /\ op' = [op EXCEPT ![o] = Op("toggle", "connecting", g, a, FindRecord(g, a))]
          /\ UNCHANGED connections /\ UNCHANGED writes
      BY <1>5, <2>2, <2>4 DEF ToggleSaved
    <3>2. a \in Gens /\ FindRecord(g, a) # "none"
      BY <2>2, <2>4 DEF ToggleDone
    <3>3. FindRecord(g, a) \in Flag
      BY <3>2 DEF ConnInv, TablesTyped, Rows, FindRecord
    <3> DEFINE next == Op("toggle", "connecting", g, a, FindRecord(g, a))
    <3>4. next \in Operations /\ Named(next)
      BY <3>2, <3>3, OpTyped DEF OpKinds
    <3> HIDE DEF next
    <3>5. OpsTyped' /\ \A p \in Ops : p # o => op'[p] = op[p]
      BY <3>1, <3>4, OpsSet DEF next
    <3> QED BY <1>1, <2>1, <3>1, <3>5, QuietStep
  <2>5. CASE ~ToggleDone(o, g, a) /\ op[o].flag # "on"
    <3> DEFINE off == View(a, "off", "disconnected")
    <3>1. /\ Disconnect(g, a)
          /\ views' = IF HasView(views[g], a) THEN SetView(g, off) ELSE views
          /\ Enqueue(<<SaveAgents(AllAgents(live'[g], views'[g]), o)>>)
          /\ Goto(o, "listed")
      BY <1>5, <2>2, <2>5 DEF ToggleSaved
    <3>2. a \in Gens
      BY <2>2, <2>5 DEF ToggleDone
    <3>3. OpsTyped' /\ \A p \in Ops : p # o => op'[p] = op[p]
      BY <2>1, <3>1, GotoFacts
    <3>4. off \in ViewRecords /\ off.agent = a /\ off.st # "connected"
      BY <3>2 DEF View, ViewRecords, Flag
    <3> HIDE DEF off
    <3>5. /\ LiveTyped' /\ Held' /\ OneHolder'
          /\ \A h, d \in Gens : ~(h = g /\ d = a) => live'[h][d] = live[h][d]
      BY <3>1, <3>2, DisconnectKeeps
    <3>6. /\ ViewsTyped'
          /\ \A h \in Gens : \A w \in ViewsOf(views'[h]) :
               w \in ViewsOf(views[h]) \/ (h = g /\ w.agent = a)
          /\ \A w \in ViewsOf(views'[g]) : w.agent = a => w.st # "connected"
      <4>1. CASE HasView(views[g], a)
        <5>1. views' = SetView(g, off)
          BY <3>1, <4>1
        <5>2. /\ SetView(g, off) \in [Gens -> Seq(ViewRecords)]
              /\ \A h \in Gens : Distinct(SetView(g, off)[h])
              /\ \A h \in Gens : h # g => SetView(g, off)[h] = views[h]
              /\ \A w \in ViewsOf(SetView(g, off)[g]) :
                   w = off \/ (w \in ViewsOf(views[g]) /\ w.agent # off.agent)
          BY <3>4, SetViewFacts DEF ConnInv
        <5> QED BY <3>4, <5>1, <5>2 DEF ViewsTyped
      <4>2. CASE ~HasView(views[g], a)
        BY <3>1, <4>2 DEF ConnInv, ViewsTyped, HasView
      <4> QED BY <4>1, <4>2
    <3>7. \A p \in Ops : \A h, b \in Gens : Refreshing(p, h, b) => Refreshing(p, h, b)'
      BY <2>1, <3>3, OthersRefresh
    <3>8. Shown'
      BY <3>2, <3>5, <3>6, <3>7, ShownKeeps
    <3>9. writes' \in Seq(Writes)
      <4>1. live'[g] \in [Gens -> Connections] /\ views'[g] \in Seq(ViewRecords)
        BY <3>5, <3>6 DEF LiveTyped, ViewsTyped
      <4>2. AllAgents(live'[g], views'[g]) \in Rows
        BY <1>1, <4>1, AllAgentsTyped
      <4> QED BY <1>1, <3>1, <4>2, AgentsWrite, Enqueued DEF ConnInv
    <3> QED BY <1>1, <1>2, <2>1, <3>3, <3>5, <3>6, <3>8, <3>9 DEF ConnInv
  <2> QED BY <2>3, <2>4, <2>5
<1>6. CASE Connects(o)
  <2>1. /\ op[o].pc = "connecting" /\ registry' = registry /\ Goto(o, "carded")
        /\ Connect(op[o].gen, op[o].agent, op[o].flag, o)
    BY <1>6 DEF Connects
  <2>2. op[o].kind # "none" /\ op[o].agent \in Gens
    BY <1>6 DEF Connects, ConnInv, OpsTyped, Named, Continue, Operations
  <2>3. PICK g \in Gens, a \in Gens, flag \in Flag :
          g = op[o].gen /\ a = op[o].agent /\ flag = op[o].flag
    BY <2>2, OpFacts
  <2>4. OpsTyped' /\ \A p \in Ops : p # o => op'[p] = op[p]
    BY <2>1, <2>2, GotoFacts
  <2>5. /\ LiveTyped' /\ ViewsTyped' /\ Held' /\ OneHolder' /\ writes' \in Seq(Writes)
        /\ live'[g][a] # Dead
        /\ \A h, b \in Gens : ~(h = g /\ b = a) => live'[h][b] = live[h][b]
        /\ \A h \in Gens : \A w \in ViewsOf(views'[h]) :
              w \in ViewsOf(views[h]) \/ (h = g /\ w.agent = a)
    BY <1>1, <2>1, <2>3, ConnectKeeps
  <2>6. \A p \in Ops : \A h, b \in Gens :
          Refreshing(p, h, b) => Refreshing(p, h, b)' \/ (h = g /\ b = a)
    BY <2>3, <2>4, OthersRefresh
  <2>7. Shown'
    BY <2>5, <2>6, ShownKeeps
  <2> QED BY <1>1, <1>2, <2>1, <2>4, <2>5, <2>7 DEF ConnInv
<1>7. CASE ConnectFails(o)
  <2>1. /\ op[o].pc = "connecting" /\ registry' = registry /\ Finish(o)
        /\ views' = FailureView(op[o].kind, op[o].gen, op[o].agent, op[o].flag)
        /\ UNCHANGED <<live, tools, writes>>
    BY <1>7 DEF ConnectFails
  <2>2. PICK g \in Gens, a \in Gens, flag \in Flag :
          g = op[o].gen /\ a = op[o].agent /\ flag = op[o].flag
    <3>1. op[o].kind # "none"
      BY <2>1 DEF ConnInv, OpsTyped, Named, Operations
    <3> QED BY <2>1, <3>1, OpFacts
  <2>3. OpsTyped' /\ \A p \in Ops : p # o => op'[p] = op[p]
    BY <2>1, FinishFacts
  <2>4. LiveTyped' /\ Held' /\ OneHolder'
    BY <2>1 DEF ConnInv, LiveTyped, Held, OneHolder
  <2>5. ASSUME NEW v \in ViewRecords, views' = SetView(g, v), v.agent = a, v.st = "failed"
        PROVE  /\ ViewsTyped'
               /\ \A h \in Gens : \A w \in ViewsOf(views'[h]) :
                    w \in ViewsOf(views[h]) \/ (h = g /\ w.agent = a)
               /\ \A w \in ViewsOf(views'[g]) : w.agent = a => w.st # "connected"
    <3>1. /\ SetView(g, v) \in [Gens -> Seq(ViewRecords)]
          /\ \A h \in Gens : Distinct(SetView(g, v)[h])
          /\ \A h \in Gens : h # g => SetView(g, v)[h] = views[h]
          /\ \A w \in ViewsOf(SetView(g, v)[g]) :
               w = v \/ (w \in ViewsOf(views[g]) /\ w.agent # v.agent)
      BY SetViewFacts DEF ConnInv
    <3> QED BY <2>5, <3>1 DEF ViewsTyped
  <2>6. \A p \in Ops : \A h, b \in Gens :
          Refreshing(p, h, b) =>
            Refreshing(p, h, b)' \/ (op[o].kind = "refresh" /\ h = g /\ b = a)
    BY <2>2, <2>3, OthersRefresh
  <2>7. ASSUME NEW v \in ViewRecords, views' = SetView(g, v), v.agent = a, v.st = "failed"
        PROVE  ConnInv'
    <3>1. Shown'
      BY <2>1, <2>5, <2>6, <2>7, ShownKeeps
    <3> QED BY <1>1, <1>2, <2>1, <2>3, <2>4, <2>5, <2>7, <3>1 DEF ConnInv
  <2>8. CASE op[o].kind \in {"add", "edit"}
    <3>1. views' = SetView(g, View(a, flag, "failed"))
      BY <2>1, <2>2, <2>8 DEF FailureView
    <3>2. View(a, flag, "failed") \in ViewRecords /\ View(a, flag, "failed").agent = a
          /\ View(a, flag, "failed").st = "failed"
      BY DEF View, ViewRecords
    <3> QED BY <2>7, <3>1, <3>2
  <2>9. CASE op[o].kind = "refresh" /\ HasView(views[g], a)
    <3> DEFINE v == View(a, ViewFlag(views[g], a), "failed")
    <3>1. views' = SetView(g, v)
      BY <2>1, <2>2, <2>9 DEF FailureView
    <3>2. v \in ViewRecords /\ v.agent = a /\ v.st = "failed"
      BY <1>1, <2>9, ViewFlagTyped DEF View, ViewRecords
    <3> HIDE DEF v
    <3> QED BY <2>7, <3>1, <3>2
  <2>10. CASE ~(op[o].kind \in {"add", "edit"}) /\ ~(op[o].kind = "refresh" /\ HasView(views[g], a))
    <3>1. views' = views
      BY <2>1, <2>2, <2>10 DEF FailureView
    <3>2. ViewsTyped'
      BY <3>1 DEF ConnInv, ViewsTyped
    <3>3. Shown'
      <4>1. CASE op[o].kind = "refresh"
        <5>1. \A w \in ViewsOf(views'[g]) : w.agent = a => w.st # "connected"
          BY <2>10, <3>1, <4>1 DEF HasView
        <5> QED BY <2>1, <2>6, <3>1, <5>1, ShownKeeps
      <4>2. CASE op[o].kind # "refresh"
        BY <2>1, <2>6, <3>1, <4>2, ShownSame DEF connections
      <4> QED BY <4>1, <4>2
    <3> QED BY <1>1, <1>2, <2>1, <2>3, <2>4, <3>2, <3>3 DEF ConnInv
  <2> QED BY <2>8, <2>9, <2>10
<1>8. CASE Carded(o)
  <2>1. op[o].pc = "carded" /\ UNCHANGED registry /\ UNCHANGED connections
        /\ op[o].kind \in {"toggle", "refresh", "edit", "add"}
    BY <1>8 DEF Carded
  <2>2. PICK g \in Gens, a \in Gens : g = op[o].gen /\ a = op[o].agent /\ op[o].flag \in Flag
    BY <2>1, OpFacts
  <2> DEFINE flag == IF live[g][a] # Dead THEN live[g][a].flag ELSE op[o].flag
             again == SaveAgents([stored EXCEPT ![a] = flag], Nobody)
  <2>3. flag \in Flag
    BY <1>1, <2>2 DEF Connections
  <2>4. again \in Writes
    <3>1. [stored EXCEPT ![a] = flag] \in Rows
      BY <1>1, <2>3 DEF Rows
    <3> QED BY <3>1, AgentsWrite
  <2>5. AllAgents(live[g], views[g]) \in Rows
    BY <1>1, AllAgentsTyped
  <2>6. /\ <<SaveAgents(AllAgents(live[g], views[g]), o)>> \in Seq(Writes)
        /\ <<again>> \in Seq(Writes) /\ <<again, SaveRecord(op[o].flag, o)>> \in Seq(Writes)
    <3>1. SaveRecord(op[o].flag, o) \in Writes
      BY <1>1, <2>2, RecordWrite
    <3> HIDE DEF again
    <3> QED BY <1>1, <2>4, <2>5, <3>1, AgentsWrite
  <2>7. /\ \/ Enqueue(<<SaveAgents(AllAgents(live[g], views[g]), o)>>)
           \/ Enqueue(<<again>>)
           \/ Enqueue(<<again, SaveRecord(op[o].flag, o)>>)
        /\ Goto(o, "listed") \/ Finish(o) \/ Goto(o, "stamped")
    BY <1>8, <2>2 DEF Carded
  <2> HIDE DEF again
  <2>8. writes' \in Seq(Writes)
    BY <2>6, <2>7, Enqueued DEF ConnInv
  <2>9. OpsTyped' /\ \A p \in Ops : p # o => op'[p] = op[p]
    BY <2>1, <2>7, GotoFacts, FinishFacts
  <2> QED BY <1>1, <2>1, <2>8, <2>9, QuietStep
<1>9. CASE Listed(o)
  <2>1. CASE At(o, "remove", "listed")
    <3>1. /\ op[o].kind = "remove" /\ op[o].pc = "listed" /\ DisposeAll(op[o].gen)
          /\ registry' = None /\ Enqueue(<<SaveRecord("none", o)>>) /\ Goto(o, "stamped")
      BY <1>9, <2>1 DEF Listed, At
    <3>2. PICK g \in Gens : g = op[o].gen
      BY <3>1, OpFacts
    <3>3. OpsTyped' /\ \A p \in Ops : p # o => op'[p] = op[p]
      BY <3>1, GotoFacts
    <3>4. writes' \in Seq(Writes)
      BY <1>1, <3>1, RecordWrite, Enqueued DEF ConnInv
    <3>5. /\ LiveTyped' /\ ViewsTyped' /\ Held' /\ OneHolder'
          /\ live'[g] = NothingLive /\ views'[g] = <<>>
          /\ \A h \in Gens : h # g => live'[h] = live[h] /\ views'[h] = views[h]
      BY <3>1, <3>2, DisposeAllKeeps
    <3>6. \A p \in Ops : \A h, b \in Gens : Refreshing(p, h, b) => Refreshing(p, h, b)'
      BY <3>1, <3>3, OthersRefresh
    <3>7. Shown'
      <4> SUFFICES ASSUME NEW h \in Gens, NEW w \in ViewsOf(views'[h]), w.st = "connected"
                   PROVE  live'[h][w.agent] # Dead \/ \E p \in Ops : Refreshing(p, h, w.agent)'
        BY DEF Shown
      <4>1. h # g
        BY <3>5 DEF ViewsOf
      <4>2. w \in ViewsOf(views[h]) /\ live'[h] = live[h]
        BY <3>5, <4>1
      <4>3. w.agent \in Gens
        BY <4>2, ShownAgent
      <4> QED BY <3>6, <4>2, <4>3 DEF ConnInv, Shown
    <3> QED BY <1>1, <1>2, <3>1, <3>3, <3>4, <3>5, <3>7 DEF ConnInv
  <2>2. CASE ~At(o, "remove", "listed")
    <3>1. /\ op[o].kind # "none" /\ op[o].pc = "listed" /\ UNCHANGED registry /\ UNCHANGED connections
          /\ Finish(o) \/ Goto(o, "stamped")
          /\ UNCHANGED writes \/ Enqueue(<<SaveRecord(record, o)>>)
      BY <1>9, <2>2 DEF Listed, At
    <3>2. writes' \in Seq(Writes)
      BY <1>1, <3>1, RecordWrite, Enqueued DEF ConnInv
    <3>3. OpsTyped' /\ \A p \in Ops : p # o => op'[p] = op[p]
      BY <3>1, GotoFacts, FinishFacts
    <3> QED BY <1>1, <3>1, <3>2, <3>3, QuietStep
  <2> QED BY <2>1, <2>2
<1>10. CASE Stamped(o)
  <2>1. op[o].pc = "stamped" /\ Finish(o) /\ UNCHANGED <<registry, writes>> /\ UNCHANGED connections
    BY <1>10 DEF Stamped
  <2> QED BY <1>1, <2>1, FinishFacts, QuietStep
<1>11. CASE TokenStored(o)
  <2>1. /\ op[o].kind = "edit" /\ registry' = registry /\ UNCHANGED connections
        /\ \/ Enqueue(<<SaveRecord(op[o].flag, o)>>) /\ Goto(o, "marked")
           \/ Finish(o) /\ UNCHANGED writes
    BY <1>11 DEF TokenStored, At
  <2>2. op[o].flag \in Flag
    BY <2>1, OpFacts
  <2>3. writes' \in Seq(Writes)
    BY <1>1, <2>1, <2>2, RecordWrite, Enqueued DEF ConnInv
  <2>4. OpsTyped' /\ \A p \in Ops : p # o => op'[p] = op[p]
    BY <2>1, OpFacts, GotoFacts, FinishFacts
  <2> QED BY <1>1, <2>1, <2>3, <2>4, QuietStep
<1> QED BY <1>3, <1>4, <1>5, <1>6, <1>7, <1>8, <1>9, <1>10, <1>11 DEF Continue
-----------------------------------------------------------------------------

LEMMA WriteKeeps ==
  ASSUME ConnInv, Write
  PROVE  ConnInv'
<1>1. /\ writes # <<>> /\ writes' = Tail(writes)
      /\ UNCHANGED <<registry, connections, boot, op, made, history>>
      /\ \/ Head(writes).table = "record" /\ record' = Head(writes).value /\ UNCHANGED stored
         \/ Head(writes).table = "agents" /\ stored' = Head(writes).value /\ UNCHANGED record
  BY DEF Write
<1>2. Head(writes) \in Writes /\ writes' \in Seq(Writes)
  BY <1>1 DEF ConnInv, TablesTyped
<1>3. record' \in Flag \cup {"none"} /\ stored' \in Rows
  BY <1>1, <1>2 DEF ConnInv, TablesTyped, Writes
<1>4. TablesTyped'
  BY <1>1, <1>2, <1>3 DEF ConnInv, TablesTyped, boot, history
<1>5. OpsTyped' /\ \A p \in Ops : \A h, b \in Gens : Refreshing(p, h, b) => Refreshing(p, h, b)'
  BY <1>1 DEF ConnInv, OpsTyped, Refreshing
<1> QED BY <1>1, <1>4, <1>5, Unmoved, ShownSame DEF ConnInv

LEMMA NothingHeld ==
  ASSUME live' = [g \in Gens |-> NothingLive], views' = [g \in Gens |-> <<>>], tools' = {}
  PROVE  LiveTyped' /\ ViewsTyped' /\ Held' /\ OneHolder' /\ Shown'
<1>1. NothingLive \in [Gens -> Connections] /\ \A a \in Gens : NothingLive[a] = Dead
  BY DEF NothingLive, Dead, Connections, Flag
<1>2. \A g, a \in Gens : live'[g][a] = Dead
  BY <1>1
<1>3. LiveTyped'
  BY <1>1, <1>2 DEF LiveTyped
<1>4. ViewsTyped' /\ Shown'
  BY DEF ViewsTyped, Distinct, Shown, ViewsOf
<1>5. Held' /\ OneHolder'
  BY <1>2 DEF Held, OneHolder
<1> QED BY <1>3, <1>4, <1>5

LEMMA RestartKeeps ==
  ASSUME ConnInv, Restart
  PROVE  ConnInv'
<1>1. OpsTyped'
  BY NoOpTyped DEF Restart, OpsTyped
<1>2. /\ registry' \in Gens \cup {None} /\ seeds' \in Rows /\ loading' \subseteq Gens
      /\ UNCHANGED <<record, stored, writes, intended>>
  BY OutboundAssumption DEF Restart, ConnInv, TablesTyped, EmptyRow, Rows, Gens, tables
<1>3. made' \in [gens : 0..MaxGens, ops : Nat, restarts : Nat]
  <2>1. made \in [gens : 0..MaxGens, ops : Nat, restarts : Nat] /\ made.restarts + 1 \in Nat
    BY DEF ConnInv, TablesTyped
  <2> QED BY <2>1 DEF Restart
<1>4. TablesTyped'
  BY <1>2, <1>3 DEF ConnInv, TablesTyped
<1>5. LiveTyped' /\ ViewsTyped' /\ Held' /\ OneHolder' /\ Shown'
  BY NothingHeld DEF Restart
<1> QED BY <1>1, <1>4, <1>5 DEF ConnInv

LEMMA LoadKeeps ==
  ASSUME ConnInv, NEW a \in Gens, Load(a)
  PROVE  ConnInv'
<1>1. /\ loading' \subseteq Gens /\ 1 \in Gens /\ "on" \in Flag
      /\ UNCHANGED <<tables, registry, seeds, op, made, history>>
      /\ Connect(1, a, "on", Nobody) \/ UNCHANGED <<connections, writes>>
  BY OutboundAssumption DEF Load, ConnInv, TablesTyped, Gens, Flag
<1>2. OpsTyped' /\ \A p \in Ops : \A h, b \in Gens : Refreshing(p, h, b) => Refreshing(p, h, b)'
  BY <1>1 DEF ConnInv, OpsTyped, Refreshing
<1>3. CASE Connect(1, a, "on", Nobody)
  <2>1. PICK g \in Gens, flag \in Flag : g = 1 /\ flag = "on"
    BY <1>1
  <2>2. /\ LiveTyped' /\ ViewsTyped' /\ Held' /\ OneHolder' /\ writes' \in Seq(Writes)
        /\ live'[g][a] # Dead
        /\ \A h, b \in Gens : ~(h = g /\ b = a) => live'[h][b] = live[h][b]
        /\ \A h \in Gens : \A w \in ViewsOf(views'[h]) :
              w \in ViewsOf(views[h]) \/ (h = g /\ w.agent = a)
    BY <1>3, <2>1, ConnectKeeps
  <2>3. Shown'
    BY <1>2, <2>2, ShownKeeps
  <2>4. TablesTyped'
    BY <1>1, <2>2 DEF ConnInv, TablesTyped, tables, history
  <2> QED BY <1>2, <2>2, <2>3, <2>4 DEF ConnInv
<1>4. CASE UNCHANGED <<connections, writes>>
  <2>1. TablesTyped' /\ UNCHANGED connections
    BY <1>1, <1>4 DEF ConnInv, TablesTyped, tables, history
  <2> QED BY <1>2, <2>1, Unmoved, ShownSame DEF ConnInv
<1> QED BY <1>1, <1>3, <1>4

LEMMA ConnInvInit == Init => ConnInv
<1> SUFFICES ASSUME Init PROVE ConnInv
  OBVIOUS
<1>1. TablesTyped
  BY OutboundAssumption DEF Init, TablesTyped, EmptyRow, Rows, Flag
<1>2. OpsTyped
  BY NoOpTyped DEF Init, OpsTyped
<1>3. \A g, a \in Gens : live[g][a] = Dead
  BY DEF Init, NothingLive
<1>4. LiveTyped
  BY <1>3 DEF Init, LiveTyped, NothingLive, Dead, Connections, Flag
<1>5. ViewsTyped /\ Shown
  BY DEF Init, ViewsTyped, Distinct, Shown, ViewsOf
<1>6. Held /\ OneHolder
  BY <1>3 DEF Held, OneHolder
<1> QED BY <1>1, <1>2, <1>4, <1>5, <1>6 DEF ConnInv

LEMMA ConnInvNext == ConnInv /\ [Next]_vars => ConnInv'
<1> SUFFICES ASSUME ConnInv, [Next]_vars PROVE ConnInv'
  OBVIOUS
<1>1. CASE UNCHANGED vars
  <2>1. TablesTyped' /\ OpsTyped' /\ UNCHANGED connections
    BY <1>1 DEF ConnInv, TablesTyped, OpsTyped, vars, tables, boot, history
  <2>2. \A p \in Ops : \A h, b \in Gens : Refreshing(p, h, b) => Refreshing(p, h, b)'
    BY <1>1 DEF Refreshing, vars
  <2> QED BY <2>1, <2>2, Unmoved, ShownSame DEF ConnInv
<1> QED BY <1>1, StartKeeps, ContinueKeeps, WriteKeeps, RestartKeeps, LoadKeeps DEF Next

\* In every reachable state: the connections, their tools and what is shown of
\* them (connectRecord, disposeConnection and the views of the registry).
THEOREM ConnectionsHold == Spec => []ConnInv
BY ConnInvInit, ConnInvNext, PTL DEF Spec

\* For every value of the constants the manager's and the registries' variables
\* keep their types, and no registry lists an agent twice.
THEOREM ConnectionTypes == Spec => []TypeOK
<1>1. ConnInv => TypeOK
  <2> SUFFICES ASSUME ConnInv PROVE TypeOK
    OBVIOUS
  <2>1. \A g \in Gens : \A i, j \in DOMAIN views[g] :
          views[g][i].agent = views[g][j].agent => i = j
    BY DEF ConnInv, ViewsTyped, Distinct
  <2> QED BY <2>1 DEF ConnInv, TablesTyped, OpsTyped, LiveTyped, TypeOK, Rows, Connections, Operations
<1> QED BY <1>1, ConnectionsHold, PTL

\* However operations overlap, a connection has its tools and nobody else's, and
\* what is shown as connected is, or a refresh is about to tell.
THEOREM ConnectionsHaveTools == Spec => []ConnectedHasTools
<1>1. ConnInv => ConnectedHasTools
  <2> SUFFICES ASSUME ConnInv PROVE ConnectedHasTools
    OBVIOUS
  <2>1. \A g \in Gens : ConnsOf(live[g]) \subseteq tools
    <3> SUFFICES ASSUME NEW g \in Gens, NEW a \in Gens, live[g][a].conn # None
                 PROVE  live[g][a].conn \in tools
      BY DEF ConnsOf
    <3>1. live[g][a] # Dead
      BY DEF Dead
    <3> QED BY <3>1 DEF ConnInv, Held
  <2> QED BY <2>1 DEF ConnInv, OneHolder, Shown, Refreshing, ConnectedHasTools
<1> QED BY <1>1, ConnectionsHold, PTL
-----------------------------------------------------------------------------
(* One operation at a time *)

\* No write of the record waits while an operation begins or goes on.
NoRecordWaits == \A i \in DOMAIN writes : writes[i].table # "record"

LEMMA NoneWaits ==
  ASSUME alone, AloneInv,
         Idle \/ \E o \in Ops : op[o] # NoOp /\ (Saved(o) \/ op[o].pc = "connecting")
  PROVE  NoRecordWaits /\ record = Target
<1>1. ASSUME NEW i \in DOMAIN writes, writes[i].table = "record"
      PROVE  FALSE
  <2>1. PICK p \in Ops : op[p] # NoOp /\ op[p].pc # "connecting" /\ writes[i].by = p
    BY <1>1 DEF AloneInv, RecordFollows
  <2>2. PICK o \in Ops : op[o] # NoOp /\ (Saved(o) \/ op[o].pc = "connecting")
    BY <2>1 DEF Idle
  <2>3. o = p
    BY <2>1, <2>2 DEF AloneInv, OneAtATime
  <2> QED BY <2>1, <2>2, <2>3 DEF Saved
<1> QED BY <1>1 DEF AloneInv, RecordFollows, NoRecordWaits

LEMMA RecordAsked ==
  ASSUME ConnInv, NoRecordWaits, NEW S, NEW ws \in Seq(S), Enqueue(ws), NEW o \in Ops,
         \A j \in DOMAIN ws : ws[j].table = "record" =>
           ws[j].value = Target' /\ ws[j].by = o /\ op'[o] # NoOp /\ op'[o].pc # "connecting",
         (\A j \in DOMAIN ws : ws[j].table # "record") => record' = Target'
  PROVE  RecordFollows'
<1>1. writes \in Seq(Writes) /\ writes' = writes \o ws
  BY DEF ConnInv, TablesTyped, Enqueue
<1>2. \A i \in DOMAIN writes' :
        \/ i \in DOMAIN writes /\ writes'[i] = writes[i]
        \/ i - Len(writes) \in DOMAIN ws /\ writes'[i] = ws[i - Len(writes)]
  BY <1>1
<1>3. \A j \in DOMAIN ws : j + Len(writes) \in DOMAIN writes' /\ writes'[j + Len(writes)] = ws[j]
  BY <1>1
<1>4. ASSUME NEW i \in DOMAIN writes', writes'[i].table = "record"
      PROVE  /\ writes'[i].value = Target'
             /\ \E p \in Ops : op'[p] # NoOp /\ op'[p].pc # "connecting" /\ writes'[i].by = p
  BY <1>2, <1>4 DEF NoRecordWaits
<1>5. ASSUME \A i \in DOMAIN writes' : writes'[i].table # "record"
      PROVE  record' = Target'
  BY <1>3, <1>5
<1> QED BY <1>4, <1>5 DEF RecordFollows

LEMMA RecordSaved ==
  ASSUME ConnInv, NoRecordWaits, NEW flag, NEW o \in Ops, Enqueue(<<SaveRecord(flag, o)>>),
         flag = Target', op'[o] # NoOp, op'[o].pc # "connecting"
  PROVE  RecordFollows'
<1> DEFINE ws == <<SaveRecord(flag, o)>>
           S == {SaveRecord(flag, o)}
<1>1. ws \in Seq(S) /\ Enqueue(ws)
  OBVIOUS
<1>2. /\ 1 \in DOMAIN ws /\ ws[1].table = "record"
      /\ \A j \in DOMAIN ws : ws[j].value = Target' /\ ws[j].by = o
  BY DEF SaveRecord
<1> HIDE DEF ws, S
<1> QED BY <1>1, <1>2, RecordAsked

LEMMA AgentsAsked ==
  ASSUME ConnInv, NoRecordWaits, NEW row, NEW o \in Ops \cup {Nobody},
         Enqueue(<<SaveAgents(row, o)>>), record' = Target'
  PROVE  RecordFollows'
<1>1. writes \in Seq(Writes) /\ writes' = writes \o <<SaveAgents(row, o)>>
  BY DEF ConnInv, TablesTyped, Enqueue
<1>2. SaveAgents(row, o).table = "agents"
  BY DEF SaveAgents
<1>3. \A i \in DOMAIN writes' :
        (i \in DOMAIN writes /\ writes'[i] = writes[i]) \/ writes'[i] = SaveAgents(row, o)
  BY <1>1
<1>4. \A i \in DOMAIN writes' : writes'[i].table # "record"
  BY <1>2, <1>3 DEF NoRecordWaits
<1> QED BY <1>4 DEF RecordFollows

LEMMA RecordStays ==
  ASSUME NoRecordWaits, UNCHANGED writes, record' = Target'
  PROVE  RecordFollows'
BY DEF NoRecordWaits, RecordFollows

LEMMA ConnectAll ==
  ASSUME ConnInv, RegistryHasAll, NEW g \in Gens, NEW a \in Gens, NEW flag, NEW o,
         g = registry, registry' = registry, live[g][a] = Dead, Connect(g, a, flag, o)
  PROVE  /\ RegistryHasAll'
         /\ \A h, b \in Gens : ~(h = g /\ b = a) => live'[h][b] = live[h][b]
<1>1. PICK c \in Conns :
        /\ tools' = tools \cup {c}
        /\ live' = [live EXCEPT ![g][a] = [conn |-> c, flag |-> flag]]
  BY DEF Connect
<1>2. c # None /\ None \notin Gens /\ Dead.conn = None
  BY OutboundAssumption DEF Conns, None, Gens, Dead
<1>3. /\ live \in [Gens -> [Gens -> Connections]]
      /\ tools = ConnsOf(live[g]) /\ \A h \in Gens : h # g => live[h] = NothingLive
  BY <1>2 DEF ConnInv, LiveTyped, RegistryHasAll
<1>4. /\ \A h \in Gens : h # g => live'[h] = live[h]
      /\ \A b \in Gens : b # a => live'[g][b] = live[g][b]
      /\ live'[g][a].conn = c
  BY <1>1, <1>3
<1>5. ConnsOf(live'[g]) = ConnsOf(live[g]) \cup {c}
  BY <1>2, <1>4 DEF ConnsOf
<1> QED BY <1>1, <1>2, <1>3, <1>4, <1>5 DEF RegistryHasAll

LEMMA DisconnectAll ==
  ASSUME ConnInv, RegistryHasAll, NEW g \in Gens, NEW a \in Gens,
         g = registry, registry' = registry, Disconnect(g, a)
  PROVE  RegistryHasAll'
<1>1. None \notin Gens /\ Dead.conn = None
  BY OutboundAssumption DEF None, Gens, Dead
<1>2. /\ live \in [Gens -> [Gens -> Connections]]
      /\ tools = ConnsOf(live[g]) /\ \A h \in Gens : h # g => live[h] = NothingLive
  BY <1>1 DEF ConnInv, LiveTyped, RegistryHasAll
<1>3. /\ tools' = tools \ {live[g][a].conn} /\ live'[g][a].conn = None
      /\ \A h \in Gens : h # g => live'[h] = live[h]
      /\ \A b \in Gens : b # a => live'[g][b] = live[g][b]
  BY <1>1, <1>2 DEF Disconnect
<1>4. \A b \in Gens : b # a /\ live[g][b].conn # None => live[g][b].conn # live[g][a].conn
  BY <1>1 DEF ConnInv, OneHolder
<1>5. ConnsOf(live'[g]) = ConnsOf(live[g]) \ {live[g][a].conn}
  BY <1>3, <1>4 DEF ConnsOf
<1> QED BY <1>1, <1>2, <1>3, <1>5 DEF RegistryHasAll

LEMMA NothingHasNone == ConnsOf(NothingLive) = {}
BY DEF ConnsOf, NothingLive, Dead

LEMMA DisposeAllGone ==
  ASSUME ConnInv, RegistryHasAll, NEW g \in Gens, g = registry, DisposeAll(g),
         registry' \in Gens \cup {None}
  PROVE  /\ tools' = {} /\ \A h \in Gens : live'[h] = NothingLive
         /\ RegistryHasAll'
<1>1. None \notin Gens
  BY OutboundAssumption DEF None, Gens
<1>2. tools' = {}
  BY <1>1 DEF DisposeAll, RegistryHasAll
<1>3. \A h \in Gens : live'[h] = NothingLive
  BY DisposeAllKeeps DEF RegistryHasAll
<1> QED BY <1>2, <1>3, NothingHasNone DEF RegistryHasAll

LEMMA AloneKept ==
  ASSUME NEW o \in Ops, loading' = {}, \A p \in Ops : p # o => op'[p] = NoOp,
         RegistryHasAll', RecordFollows', op'[o] # NoOp => Placed(o)'
  PROVE  AloneInv'
<1>1. OneAtATime'
  BY DEF OneAtATime
<1>2. \A p \in Ops : op'[p] # NoOp => Placed(p)'
  OBVIOUS
<1> QED BY <1>1, <1>2 DEF AloneInv

LEMMA StartAlone ==
  ASSUME ConnInv, AloneInv, NEW o \in Ops, Start(o), alone'
  PROVE  AloneInv'
<1>1. alone /\ Idle /\ UNCHANGED <<record, stored, seeds, loading>>
  BY DEF Start, Add, Toggle, Refresh, Edit, SetAuth, Remove, Begin, tables, boot
<1>2. /\ RegistryHasAll /\ NoRecordWaits /\ record = Target
      /\ loading' = {} /\ \A p \in Ops : op[p] = NoOp
  BY <1>1, NoneWaits DEF AloneInv, Idle
<1>3. /\ registry \in Gens \cup {None} /\ None \notin Gens /\ intended \in Flag
      /\ op \in [Ops -> Operations] /\ writes \in Seq(Writes) /\ 1 \in Gens
      /\ "none" \notin Flag /\ NoOp.kind = "none"
  BY OutboundAssumption, NoOpTyped DEF ConnInv, TablesTyped, OpsTyped, Gens, None, Flag
<1>4. /\ registry = None => record = "none"
      /\ registry # None => record = intended /\ record \in Flag
  BY <1>2, <1>3 DEF Target
<1>5. ASSUME NEW next, op' = [op EXCEPT ![o] = next]
      PROVE  op'[o] = next /\ \A p \in Ops : p # o => op'[p] = NoOp
  BY <1>2, <1>3, <1>5
<1>6. CASE Add(o)
  <2>1. PICK flag \in Flag :
          /\ op' = [op EXCEPT ![o] = Op("add", "marked", 1, 1, flag)]
          /\ Enqueue(<<SaveRecord(flag, o)>>) /\ intended' = flag
    BY <1>6 DEF Add, Begin
  <2>2. record = "none" /\ registry' = registry /\ registry = None /\ UNCHANGED <<live, tools>>
    BY <1>3, <1>4, <1>6 DEF Add, connections
  <2>3. op'[o] = Op("add", "marked", 1, 1, flag) /\ \A p \in Ops : p # o => op'[p] = NoOp
    BY <1>5, <2>1
  <2>4. /\ op'[o].kind = "add" /\ op'[o].pc = "marked" /\ op'[o].gen = 1
        /\ op'[o].flag = flag /\ op'[o] # NoOp
    BY <1>3, <2>3 DEF Op
  <2>5. Target' = flag
    BY <2>1, <2>4 DEF Target
  <2>6. RegistryHasAll'
    BY <1>2, <2>2 DEF RegistryHasAll
  <2>7. RecordFollows'
    BY <1>2, <2>1, <2>4, <2>5, RecordSaved
  <2>8. Placed(o)'
    BY <2>1, <2>2, <2>4 DEF Placed
  <2> QED BY <1>2, <2>3, <2>6, <2>7, <2>8, AloneKept
<1>7. CASE Toggle(o)
  <2>1. PICK flag \in Flag :
          /\ op' = [op EXCEPT ![o] = Op("toggle", "marked", registry, FirstView(registry), flag)]
          /\ Enqueue(IF record # "none" THEN <<SaveRecord(flag, o)>> ELSE <<>>)
          /\ intended' = flag
    BY <1>7 DEF Toggle, Begin
  <2>2. registry # None /\ registry' = registry /\ UNCHANGED <<live, tools>>
    BY <1>7 DEF Toggle, connections
  <2>3. /\ op'[o] = Op("toggle", "marked", registry, FirstView(registry), flag)
        /\ \A p \in Ops : p # o => op'[p] = NoOp
    BY <1>5, <2>1
  <2>4. /\ op'[o].kind = "toggle" /\ op'[o].pc = "marked" /\ op'[o].gen = registry
        /\ op'[o] # NoOp
    BY <1>3, <2>3 DEF Op
  <2>5. Target' = flag
    BY <2>1, <2>2 DEF Target
  <2>6. RegistryHasAll'
    BY <1>2, <2>2 DEF RegistryHasAll
  <2>7. RecordFollows'
    BY <1>2, <1>3, <1>4, <2>1, <2>2, <2>4, <2>5, RecordSaved
  <2>8. Placed(o)'
    BY <2>2, <2>4 DEF Placed
  <2> QED BY <1>2, <2>3, <2>6, <2>7, <2>8, AloneKept
<1>8. CASE Refresh(o)
  <2>1. PICK g \in Gens : g = registry
    BY <1>3, <1>8 DEF Refresh
  <2>2. PICK a \in Gens : a = FirstView(g)
    BY <1>8, <2>1, FirstViewFacts DEF Refresh
  <2>3. PICK flag : op' = [op EXCEPT ![o] = Op("refresh", "connecting", g, a, flag)]
    BY <1>8, <2>1, <2>2 DEF Refresh, Begin
  <2>4. Disconnect(g, a) /\ registry' = registry /\ writes' = writes /\ intended' = intended
    BY <1>8, <2>1, <2>2 DEF Refresh
  <2>5. op'[o] = Op("refresh", "connecting", g, a, flag) /\ \A p \in Ops : p # o => op'[p] = NoOp
    BY <1>5, <2>3
  <2>6. /\ op'[o].kind = "refresh" /\ op'[o].pc = "connecting" /\ op'[o].gen = g
        /\ op'[o].agent = a /\ op'[o] # NoOp
    BY <1>3, <2>5 DEF Op
  <2>7. RegistryHasAll'
    BY <1>2, <2>1, <2>4, DisconnectAll
  <2>8. Target' = intended
    BY <1>3, <2>1, <2>4 DEF Target
  <2>9. RecordFollows'
    BY <1>1, <1>2, <1>3, <1>4, <2>1, <2>4, <2>8, RecordStays
  <2>10. live'[g][a] = Dead
    BY <2>4, DisconnectKeeps
  <2>11. Placed(o)'
    BY <2>1, <2>4, <2>6, <2>10 DEF Placed
  <2> QED BY <1>2, <2>5, <2>7, <2>9, <2>11, AloneKept
<1>9. CASE Edit(o)
  <2>1. /\ op' = [op EXCEPT ![o] = Op("edit", "marked", registry, made.gens + 1, record)]
        /\ Enqueue(<<SaveRecord(record, o)>>) /\ intended' = intended
        /\ registry # None /\ registry' = registry /\ UNCHANGED <<live, tools>>
    BY <1>9 DEF Edit, Begin, connections
  <2>2. /\ op'[o] = Op("edit", "marked", registry, made.gens + 1, record)
        /\ \A p \in Ops : p # o => op'[p] = NoOp
    BY <1>5, <2>1
  <2>3. /\ op'[o].kind = "edit" /\ op'[o].pc = "marked" /\ op'[o].gen = registry
        /\ op'[o] # NoOp
    BY <1>3, <2>2 DEF Op
  <2>4. Target' = record
    BY <1>4, <2>1 DEF Target
  <2>5. RegistryHasAll'
    BY <1>2, <2>1 DEF RegistryHasAll
  <2>6. RecordFollows'
    BY <1>2, <1>4, <2>1, <2>3, <2>4, RecordSaved
  <2>7. Placed(o)'
    BY <2>1, <2>3 DEF Placed
  <2> QED BY <1>2, <2>2, <2>5, <2>6, <2>7, AloneKept
<1>10. CASE Remove(o)
  <2>1. PICK g \in Gens : g = registry
    BY <1>3, <1>10 DEF Remove
  <2>2. PICK a \in Gens \cup {None} : a = FirstView(g)
    BY <2>1, FirstViewFacts
  <2>3. /\ op' = [op EXCEPT ![o] = Op("remove", "listed", g, a, "off")]
        /\ registry' = registry /\ intended' = intended
    BY <1>10, <2>1, <2>2 DEF Remove, Begin
  <2>4. op'[o] = Op("remove", "listed", g, a, "off") /\ \A p \in Ops : p # o => op'[p] = NoOp
    BY <1>5, <2>3
  <2>5. /\ op'[o].kind = "remove" /\ op'[o].pc = "listed" /\ op'[o].gen = g /\ op'[o] # NoOp
    BY <1>3, <2>4 DEF Op
  <2>6. Target' = intended /\ record' = Target'
    BY <1>1, <1>3, <1>4, <2>1, <2>3 DEF Target
  <2>7. Placed(o)'
    BY <2>1, <2>3, <2>5 DEF Placed
  <2>8. CASE UNCHANGED <<connections, writes>>
    <3>1. RegistryHasAll' /\ RecordFollows'
      BY <1>2, <2>3, <2>6, <2>8, RecordStays DEF RegistryHasAll, connections
    <3> QED BY <1>2, <2>4, <2>7, <3>1, AloneKept
  <2>9. CASE ~UNCHANGED <<connections, writes>>
    <3>1. /\ a # None /\ Disconnect(g, a) /\ views' = [views EXCEPT ![g] = Tail(@)]
          /\ Enqueue(<<SaveAgents(AllAgents(live'[g], views'[g]), o)>>)
      BY <1>10, <2>1, <2>2, <2>9 DEF Remove
    <3>2. RegistryHasAll'
      BY <1>2, <2>1, <2>2, <2>3, <3>1, DisconnectAll
    <3>3. RecordFollows'
      BY <1>2, <2>6, <3>1, AgentsAsked
    <3> QED BY <1>2, <2>4, <2>7, <3>2, <3>3, AloneKept
  <2> QED BY <2>8, <2>9
<1>11. CASE SetAuth(o)
  <2>1. /\ op' = [op EXCEPT ![o] = Op("edit", "storing", registry, made.gens + 1, record)]
        /\ UNCHANGED writes /\ intended' = intended
        /\ registry # None /\ registry' = registry /\ UNCHANGED <<live, tools>>
    BY <1>11 DEF SetAuth, Begin, connections
  <2>2. /\ op'[o] = Op("edit", "storing", registry, made.gens + 1, record)
        /\ \A p \in Ops : p # o => op'[p] = NoOp
    BY <1>5, <2>1
  <2>3. /\ op'[o].kind = "edit" /\ op'[o].pc = "storing" /\ op'[o].gen = registry
        /\ op'[o].flag = record
    BY <2>2 DEF Op
  <2>4. Target' = record /\ record = intended
    BY <1>4, <2>1 DEF Target
  <2>5. RegistryHasAll'
    BY <1>2, <2>1 DEF RegistryHasAll
  <2>6. RecordFollows'
    BY <1>1, <1>2, <2>1, <2>4, RecordStays
  <2>7. Placed(o)'
    BY <2>1, <2>3, <2>4 DEF Placed
  <2> QED BY <1>2, <2>2, <2>5, <2>6, <2>7, AloneKept
<1> QED BY <1>6, <1>7, <1>8, <1>9, <1>10, <1>11 DEF Start

LEMMA ContinueAlone ==
  ASSUME ConnInv, AloneInv, NEW o \in Ops, Continue(o), alone'
  PROVE  AloneInv'
<1>1. /\ alone /\ UNCHANGED <<record, stored, seeds, loading, intended>>
      /\ op[o].kind # "none" /\ (Saved(o) \/ op[o].pc = "connecting")
  <2>1. alone /\ UNCHANGED <<record, stored, seeds, loading, intended>>
    BY DEF Continue, history, tables, boot
  <2>2. op[o] \in Operations /\ Named(op[o])
    BY DEF ConnInv, OpsTyped
  <2>3. op[o].kind # "none" \/ op[o].pc \in {"connecting", "carded", "stamped"}
    BY DEF Continue, AddSaved, TokenStored, EditSaved, ToggleSaved, Connects, ConnectFails, Carded, Listed,
       Stamped, At
  <2>4. Saved(o) \/ op[o].pc = "connecting"
    BY DEF Continue, AddSaved, TokenStored, EditSaved, ToggleSaved, Connects, ConnectFails, Carded, Listed,
       Stamped, At
  <2> QED BY <2>1, <2>2, <2>3, <2>4 DEF Named
<1>2. op[o] # NoOp
  BY <1>1, NoOpTyped
<1>3. /\ RegistryHasAll /\ Placed(o) /\ NoRecordWaits /\ record = Target /\ record' = Target
      /\ \A p \in Ops : p # o => op[p] = NoOp
  BY <1>1, <1>2, NoneWaits DEF AloneInv, OneAtATime
<1>4. loading' = {}
  BY <1>1, <1>2 DEF AloneInv, OneAtATime, ConnInv, TablesTyped
<1>5. PICK g \in Gens, a \in Gens \cup {None}, flag \in Flag :
        g = op[o].gen /\ a = op[o].agent /\ flag = op[o].flag
  BY <1>1, OpFacts
<1>6. /\ None \notin Gens /\ 1 \in Gens /\ registry \in Gens \cup {None} /\ intended \in Flag
      /\ NoOp.kind = "none" /\ op \in [Ops -> Operations] /\ "none" \notin Flag
  BY OutboundAssumption, NoOpTyped DEF ConnInv, TablesTyped, OpsTyped, Gens, None, Flag
<1>7. ASSUME RegistryHasAll', RecordFollows', Finish(o)
      PROVE  AloneInv'
  BY <1>3, <1>4, <1>7, FinishFacts, AloneKept
<1>8. ASSUME RegistryHasAll', RecordFollows', Placed(o)', \A p \in Ops : p # o => op'[p] = op[p]
      PROVE  AloneInv'
  BY <1>3, <1>4, <1>8, AloneKept
<1>9. ASSUME UNCHANGED <<live, tools, registry>>
      PROVE  RegistryHasAll'
  BY <1>3, <1>9 DEF RegistryHasAll
<1>10. ASSUME UNCHANGED writes, record = Target'
       PROVE  RecordFollows'
  BY <1>1, <1>3, <1>10, RecordStays
<1>11. ASSUME registry' \in Gens, registry # None \/ op[o].kind = "add"
       PROVE  Target' = record
  BY <1>1, <1>3, <1>6, <1>11 DEF Target
<1>12. CASE AddSaved(o)
  <2>1. /\ op[o].kind = "add" /\ op[o].pc = "marked" /\ registry' = 1 /\ UNCHANGED writes
        /\ UNCHANGED <<live, tools>>
        /\ Goto(o, "connecting") \/ Finish(o)
    BY <1>12 DEF AddSaved, At, connections
  <2>2. registry = None /\ g = 1 /\ flag = intended
    BY <1>3, <1>5, <2>1 DEF Placed
  <2>3. RecordFollows'
    BY <1>6, <1>10, <1>11, <2>1
  <2>4. RegistryHasAll' /\ live'[1] = NothingLive
    <3>1. tools = {} /\ \A h \in Gens : live[h] = NothingLive
      BY <1>3, <1>6, <2>2 DEF RegistryHasAll
    <3>2. tools' = {} /\ registry' = 1 /\ \A h \in Gens : live'[h] = NothingLive
      BY <2>1, <3>1
    <3>3. 1 # None /\ live'[1] = NothingLive
      BY <1>6, <3>2
    <3>4. tools' = ConnsOf(live'[registry'])
      BY <3>2, <3>3, NothingHasNone
    <3> QED BY <3>2, <3>3, <3>4 DEF RegistryHasAll
  <2>5. CASE Goto(o, "connecting")
    <3>1. a \in Gens /\ live'[1][a] = Dead
      BY <1>1, <1>5, <2>1, <2>4, OpFacts DEF NothingLive
    <3>2. /\ op'[o].kind = "add" /\ op'[o].pc = "connecting" /\ op'[o].gen = 1
          /\ op'[o].agent = a /\ op'[o].flag = flag /\ \A p \in Ops : p # o => op'[p] = op[p]
      BY <1>1, <1>5, <2>1, <2>2, <2>5, <3>1, GotoFacts
    <3>3. Placed(o)'
      BY <1>1, <2>1, <2>2, <3>1, <3>2 DEF Placed
    <3> QED BY <1>8, <2>3, <2>4, <3>2, <3>3
  <2> QED BY <1>7, <2>1, <2>3, <2>4, <2>5
<1>13. CASE EditSaved(o)
  <2>1. /\ op[o].kind = "edit" /\ op[o].pc = "marked" /\ DisposeAll(g)
        /\ registry' = a /\ UNCHANGED writes
    BY <1>5, <1>13 DEF EditSaved, At
  <2>2. registry = g /\ a \in Gens
    BY <1>1, <1>3, <1>5, <2>1, OpFacts DEF Placed
  <2>3. RegistryHasAll' /\ \A h \in Gens : live'[h] = NothingLive
    BY <1>3, <2>1, <2>2, DisposeAllGone
  <2>4. RecordFollows'
    BY <1>6, <1>10, <1>11, <2>1, <2>2
  <2>5. CASE op[o].flag = "on"
    <3>1. op' = [op EXCEPT ![o] = Op("edit", "connecting", a, a, "on")]
      BY <1>5, <1>13, <2>5 DEF EditSaved
    <3>2. op'[o] = Op("edit", "connecting", a, a, "on") /\ \A p \in Ops : p # o => op'[p] = op[p]
      BY <1>6, <3>1
    <3>3. op'[o].kind = "edit" /\ op'[o].pc = "connecting" /\ op'[o].gen = a /\ op'[o].agent = a
      BY <3>2 DEF Op
    <3>4. live'[a][a] = Dead
      BY <2>2, <2>3 DEF NothingLive
    <3>5. Placed(o)'
      BY <2>1, <3>3, <3>4 DEF Placed
    <3> QED BY <1>8, <2>3, <2>4, <3>2, <3>5
  <2>6. CASE op[o].flag # "on"
    BY <1>7, <1>13, <2>3, <2>4, <2>6 DEF EditSaved
  <2> QED BY <2>5, <2>6
<1>14. CASE ToggleSaved(o)
  <2>1. op[o].kind = "toggle" /\ op[o].pc = "marked" /\ registry' = registry
    BY <1>14 DEF ToggleSaved, At
  <2>2. registry = g
    BY <1>3, <1>5, <2>1 DEF Placed
  <2>3. Target' = record
    BY <1>6, <1>11, <2>1, <2>2
  <2>4. CASE ToggleDone(o, g, a)
    <3>1. Finish(o) /\ UNCHANGED <<live, tools>> /\ UNCHANGED writes
      BY <1>5, <1>14, <2>4 DEF ToggleSaved, connections
    <3> QED BY <1>7, <1>9, <1>10, <2>1, <2>3, <3>1
  <2>5. CASE ~ToggleDone(o, g, a) /\ op[o].flag = "on"
    <3>1. /\ op' = [op EXCEPT ![o] = Op("toggle", "connecting", g, a, FindRecord(g, a))]
          /\ UNCHANGED <<live, tools>> /\ UNCHANGED writes
      BY <1>5, <1>14, <2>5 DEF ToggleSaved, connections
    <3>2. live[g][a] = Dead
      BY <2>5 DEF ToggleDone
    <3>3. op'[o] = Op("toggle", "connecting", g, a, FindRecord(g, a))
          /\ \A p \in Ops : p # o => op'[p] = op[p]
      BY <1>6, <3>1
    <3>4. op'[o].kind = "toggle" /\ op'[o].pc = "connecting" /\ op'[o].gen = g /\ op'[o].agent = a
      BY <3>3 DEF Op
    <3>5. Placed(o)'
      BY <2>1, <2>2, <3>1, <3>2, <3>4 DEF Placed
    <3> QED BY <1>8, <1>9, <1>10, <2>1, <2>3, <3>1, <3>3, <3>5
  <2>6. CASE ~ToggleDone(o, g, a) /\ op[o].flag # "on"
    <3>1. /\ Disconnect(g, a) /\ Goto(o, "listed")
          /\ Enqueue(<<SaveAgents(AllAgents(live'[g], views'[g]), o)>>)
      BY <1>5, <1>14, <2>6 DEF ToggleSaved
    <3>2. a \in Gens
      BY <2>6, <1>5 DEF ToggleDone
    <3>3. RegistryHasAll'
      BY <1>3, <2>1, <2>2, <3>1, <3>2, DisconnectAll
    <3>4. RecordFollows'
      BY <1>1, <1>3, <2>3, <3>1, AgentsAsked
    <3>5. /\ op'[o].kind = "toggle" /\ op'[o].pc = "listed" /\ op'[o].gen = g
          /\ \A p \in Ops : p # o => op'[p] = op[p]
      BY <1>1, <1>5, <2>1, <3>1, GotoFacts
    <3>6. Placed(o)'
      BY <2>1, <2>2, <3>5 DEF Placed
    <3> QED BY <1>8, <3>3, <3>4, <3>5, <3>6
  <2> QED BY <2>4, <2>5, <2>6
<1>15. CASE Connects(o)
  <2>1. /\ op[o].pc = "connecting" /\ registry' = registry /\ Goto(o, "carded")
        /\ Connect(g, a, flag, o)
    BY <1>5, <1>15 DEF Connects
  <2>2. registry = g /\ a \in Gens /\ live[g][a] = Dead
    BY <1>1, <1>3, <1>5, <2>1, OpFacts DEF Placed
  <2>3. RegistryHasAll'
    BY <1>3, <2>1, <2>2, ConnectAll
  <2>4. Target' = record
    BY <1>6, <1>11, <2>1, <2>2
  <2>5. RecordFollows'
    BY <1>1, <1>3, <2>1, <2>4, AgentsAsked DEF Connect
  <2>6. /\ op'[o].kind = op[o].kind /\ op'[o].pc = "carded" /\ op'[o].gen = g
        /\ op'[o].flag = op[o].flag /\ \A p \in Ops : p # o => op'[p] = op[p]
    BY <1>1, <1>5, <2>1, <2>2, GotoFacts
  <2>7. Placed(o)'
    BY <1>1, <1>3, <1>5, <2>1, <2>2, <2>6 DEF Placed
  <2> QED BY <1>8, <2>3, <2>5, <2>6, <2>7
<1>16. CASE ConnectFails(o)
  <2>1. op[o].pc = "connecting" /\ Finish(o) /\ UNCHANGED <<live, tools, registry>>
        /\ UNCHANGED writes
    BY <1>16 DEF ConnectFails
  <2>2. registry = g
    BY <1>3, <1>5, <2>1 DEF Placed
  <2> QED BY <1>6, <1>7, <1>9, <1>10, <1>11, <2>1, <2>2
<1>17. CASE Carded(o)
  <2>1. op[o].pc = "carded" /\ UNCHANGED <<live, tools, registry>>
    BY <1>17 DEF Carded, connections
  <2>2. registry = g
    BY <1>3, <1>5, <2>1 DEF Placed
  <2>3. Target' = record /\ RegistryHasAll'
    BY <1>6, <1>9, <1>11, <2>1, <2>2
  <2>4. ASSUME NEW pc \in {"listed", "stamped"}, Goto(o, pc), pc = "stamped" => op[o].kind = "add"
        PROVE  /\ Placed(o)' /\ op'[o] # NoOp /\ op'[o].pc = pc
               /\ \A p \in Ops : p # o => op'[p] = op[p]
    <3>1. /\ op'[o].kind = op[o].kind /\ op'[o].pc = pc /\ op'[o].gen = g
          /\ op'[o].flag = op[o].flag /\ \A p \in Ops : p # o => op'[p] = op[p]
      BY <1>1, <1>5, <2>4, GotoFacts
    <3> QED BY <1>1, <1>3, <1>5, <1>6, <2>1, <2>2, <2>4, <3>1 DEF Placed
  <2>5. CASE op[o].kind \in {"toggle", "refresh"}
    <3>1. /\ Enqueue(<<SaveAgents(AllAgents(live[op[o].gen], views[op[o].gen]), o)>>)
          /\ Goto(o, "listed")
      BY <1>17, <2>5 DEF Carded
    <3>2. RecordFollows'
      BY <1>1, <1>3, <2>3, <3>1, AgentsAsked
    <3> QED BY <1>8, <2>3, <2>4, <3>1, <3>2
  <2>6. CASE op[o].kind = "edit"
    <3>1. PICK row : Enqueue(<<SaveAgents(row, Nobody)>>) /\ Finish(o)
      BY <1>17, <2>6 DEF Carded
    <3>2. RecordFollows'
      BY <1>1, <1>3, <2>3, <3>1, AgentsAsked
    <3> QED BY <1>7, <2>3, <3>1, <3>2
  <2>7. CASE op[o].kind = "add"
    <3>1. PICK row : /\ Enqueue(<<SaveAgents(row, Nobody), SaveRecord(op[o].flag, o)>>)
                     /\ Goto(o, "stamped")
      BY <1>17, <2>7 DEF Carded
    <3>2. op[o].flag = Target'
      BY <1>1, <1>3, <1>6, <2>1, <2>2, <2>3, <2>7 DEF Placed, Target
    <3>3. Placed(o)' /\ op'[o] # NoOp /\ op'[o].pc = "stamped" /\ \A p \in Ops : p # o => op'[p] = op[p]
      BY <2>4, <2>7, <3>1
    <3> DEFINE ws == <<SaveAgents(row, Nobody), SaveRecord(op[o].flag, o)>>
               S == {SaveAgents(row, Nobody), SaveRecord(op[o].flag, o)}
    <3>4. ws \in Seq(S) /\ Enqueue(ws)
      BY <3>1
    <3>5. /\ 2 \in DOMAIN ws /\ ws[2].table = "record" /\ ws[1].table # "record"
          /\ ws[2].value = Target' /\ ws[2].by = o /\ \A j \in DOMAIN ws : j = 1 \/ j = 2
      BY <3>2 DEF SaveAgents, SaveRecord
    <3> HIDE DEF ws, S
    <3>6. RecordFollows'
      BY <1>3, <3>3, <3>4, <3>5, RecordAsked
    <3> QED BY <1>8, <2>3, <3>3, <3>6
  <2> QED BY <1>17, <2>5, <2>6, <2>7 DEF Carded
<1>18. CASE Listed(o) /\ op[o].kind # "remove"
  <2>1. /\ op[o].pc = "listed" /\ UNCHANGED <<live, tools, registry>>
        /\ \/ Finish(o) /\ UNCHANGED writes
           \/ /\ op[o].kind = "refresh" /\ record # "none"
              /\ Enqueue(<<SaveRecord(record, o)>>) /\ Goto(o, "stamped")
    BY <1>18 DEF Listed, At, connections
  <2>2. registry = g
    BY <1>3, <1>5, <1>18, <2>1 DEF Placed
  <2>3. Target' = record /\ RegistryHasAll'
    BY <1>6, <1>9, <1>11, <2>1, <2>2
  <2>4. CASE Finish(o) /\ UNCHANGED writes
    BY <1>7, <1>10, <2>3, <2>4
  <2>5. CASE op[o].kind = "refresh" /\ Enqueue(<<SaveRecord(record, o)>>) /\ Goto(o, "stamped")
    <3>1. /\ op'[o].kind = "refresh" /\ op'[o].pc = "stamped" /\ op'[o].gen = g
          /\ \A p \in Ops : p # o => op'[p] = op[p]
      BY <1>1, <1>5, <2>5, GotoFacts
    <3>2. Placed(o)' /\ op'[o] # NoOp
      BY <1>6, <2>1, <2>2, <3>1 DEF Placed
    <3>3. RecordFollows'
      BY <1>3, <2>3, <2>5, <3>1, <3>2, RecordSaved
    <3> QED BY <1>8, <2>3, <3>1, <3>2, <3>3
  <2> QED BY <2>1, <2>4, <2>5
<1>19. CASE Listed(o) /\ op[o].kind = "remove"
  <2>1. /\ op[o].pc = "listed" /\ DisposeAll(g) /\ registry' = None
        /\ Enqueue(<<SaveRecord("none", o)>>) /\ Goto(o, "stamped")
    BY <1>5, <1>19 DEF Listed, At
  <2>2. registry = g
    BY <1>3, <1>5, <1>19, <2>1 DEF Placed
  <2>3. RegistryHasAll'
    BY <1>3, <2>1, <2>2, DisposeAllGone
  <2>4. /\ op'[o].kind = "remove" /\ op'[o].pc = "stamped" /\ op'[o] # NoOp
        /\ \A p \in Ops : p # o => op'[p] = op[p]
    BY <1>1, <1>6, <1>19, <2>1, GotoFacts
  <2>5. Target' = "none"
    BY <1>3, <1>6, <2>1, <2>4 DEF Target
  <2>6. RecordFollows'
    BY <1>3, <2>1, <2>4, <2>5, RecordSaved
  <2>7. Placed(o)'
    BY <2>1, <2>4 DEF Placed
  <2> QED BY <1>8, <2>3, <2>4, <2>6, <2>7
<1>20. CASE Stamped(o)
  <2>1. /\ op[o].pc = "stamped" /\ Finish(o) /\ UNCHANGED <<live, tools, registry>>
        /\ UNCHANGED writes
    BY <1>20 DEF Stamped, connections
  <2>2. record = Target'
    <3>1. \A p \in Ops : op'[p] = NoOp
      BY <1>3, <2>1, FinishFacts
    <3>2. registry = None => op[o].kind = "remove"
      BY <1>3, <1>5, <1>6, <2>1 DEF Placed
    <3> QED BY <1>1, <1>3, <1>6, <2>1, <3>1, <3>2 DEF Target
  <2> QED BY <1>7, <1>9, <1>10, <2>1, <2>2
<1>21. CASE TokenStored(o)
  <2>1. /\ op[o].kind = "edit" /\ op[o].pc = "storing" /\ UNCHANGED <<live, tools, registry>>
        /\ \/ Enqueue(<<SaveRecord(flag, o)>>) /\ Goto(o, "marked")
           \/ Finish(o) /\ UNCHANGED writes
    BY <1>5, <1>21 DEF TokenStored, At, connections
  <2>2. registry = g /\ flag = intended
    BY <1>3, <1>5, <2>1 DEF Placed
  <2>3. Target' = record /\ RegistryHasAll' /\ record = intended
    BY <1>1, <1>3, <1>6, <1>9, <1>11, <2>1, <2>2 DEF Target
  <2>4. CASE Finish(o) /\ UNCHANGED writes
    BY <1>7, <1>10, <2>3, <2>4
  <2>5. CASE Enqueue(<<SaveRecord(flag, o)>>) /\ Goto(o, "marked")
    <3>1. /\ op'[o].kind = "edit" /\ op'[o].pc = "marked" /\ op'[o].gen = g
          /\ \A p \in Ops : p # o => op'[p] = op[p]
      BY <1>1, <1>5, <2>1, <2>5, GotoFacts
    <3>2. Placed(o)' /\ op'[o] # NoOp
      BY <1>6, <2>1, <2>2, <3>1 DEF Placed
    <3>3. RecordFollows'
      BY <1>3, <2>2, <2>3, <2>5, <3>1, <3>2, RecordSaved
    <3> QED BY <1>8, <2>3, <3>1, <3>2, <3>3
  <2> QED BY <2>1, <2>4, <2>5
<1> QED
  BY <1>12, <1>13, <1>14, <1>15, <1>16, <1>17, <1>18, <1>19, <1>20, <1>21 DEF Continue

LEMMA WriteAlone ==
  ASSUME ConnInv, AloneInv, Write, alone'
  PROVE  AloneInv'
<1>1. /\ alone /\ writes # <<>> /\ writes' = Tail(writes) /\ writes \in Seq(Writes)
      /\ UNCHANGED <<registry, live, tools, loading, op, intended>>
      /\ \/ Head(writes).table = "record" /\ record' = Head(writes).value
         \/ Head(writes).table = "agents" /\ record' = record
  BY DEF Write, connections, boot, history, ConnInv, TablesTyped
<1>2. RegistryHasAll /\ OneAtATime /\ RecordFollows /\ \A o \in Ops : op[o] # NoOp => Placed(o)
  BY <1>1 DEF AloneInv
<1>3. RegistryHasAll' /\ OneAtATime' /\ \A o \in Ops : op'[o] # NoOp => Placed(o)'
  BY <1>1, <1>2 DEF RegistryHasAll, OneAtATime, Placed
<1>4. Target' = Target
  BY <1>1 DEF Target
<1>5. /\ \A i \in DOMAIN writes' : i + 1 \in DOMAIN writes /\ writes'[i] = writes[i + 1]
      /\ \A i \in DOMAIN writes : i = 1 \/ (i - 1 \in DOMAIN writes' /\ writes'[i - 1] = writes[i])
      /\ 1 \in DOMAIN writes /\ writes[1] = Head(writes)
  BY <1>1
<1>6. RecordFollows'
  <2>1. ASSUME NEW i \in DOMAIN writes', writes'[i].table = "record"
        PROVE  /\ writes'[i].value = Target'
               /\ \E o \in Ops : op'[o] # NoOp /\ op'[o].pc # "connecting" /\ writes'[i].by = o
    BY <1>1, <1>2, <1>4, <1>5, <2>1 DEF RecordFollows
  <2>2. ASSUME \A i \in DOMAIN writes' : writes'[i].table # "record"
        PROVE  record' = Target'
    <3>1. CASE Head(writes).table = "record"
      BY <1>1, <1>2, <1>4, <1>5, <3>1 DEF RecordFollows
    <3>2. CASE Head(writes).table = "agents"
      <4>1. \A i \in DOMAIN writes : writes[i].table # "record"
        BY <1>5, <2>2, <3>2
      <4> QED BY <1>1, <1>2, <1>4, <3>2, <4>1 DEF RecordFollows
    <3> QED BY <1>1, <3>1, <3>2
  <2> QED BY <2>1, <2>2 DEF RecordFollows
<1> QED BY <1>3, <1>6 DEF AloneInv

LEMMA RestartAlone ==
  ASSUME ConnInv, AloneInv, Restart, alone'
  PROVE  AloneInv'
<1>1. /\ alone /\ Idle /\ writes' = writes /\ record' = record /\ intended' = intended
      /\ registry' = (IF record = "none" THEN None ELSE 1) /\ tools' = {}
      /\ loading' = {a \in Gens : record = "on" /\ stored[a] = "on"}
      /\ live' = [g \in Gens |-> NothingLive] /\ \A o \in Ops : op'[o] = NoOp
  BY DEF Restart, tables
<1>2. /\ NoRecordWaits /\ record = Target /\ \A o \in Ops : op[o] = NoOp
  BY <1>1, NoneWaits DEF Idle
<1>3. None \notin Gens /\ 1 \in Gens /\ intended \in Flag /\ "none" \notin Flag /\ NoOp.kind = "none"
  BY OutboundAssumption, NoOpTyped DEF ConnInv, TablesTyped, Gens, None, Flag
<1>4. Target' = record
  BY <1>1, <1>2, <1>3 DEF Target
<1>5. RecordFollows'
  BY <1>1, <1>2, <1>4, RecordStays
<1>6. RegistryHasAll'
  BY <1>1, <1>3, NothingHasNone DEF RegistryHasAll
<1>7. OneAtATime'
  <2>1. \A a \in loading' : registry' = 1 /\ live'[1][a] = Dead
    BY <1>1, <1>3 DEF NothingLive
  <2> QED BY <1>1, <2>1 DEF OneAtATime
<1> QED BY <1>1, <1>5, <1>6, <1>7 DEF AloneInv

LEMMA LoadAlone ==
  ASSUME ConnInv, AloneInv, NEW a \in Gens, Load(a), alone'
  PROVE  AloneInv'
<1>1. /\ alone /\ a \in loading /\ loading' = loading \ {a} /\ loading \subseteq Gens
      /\ UNCHANGED <<record, registry, op, intended>>
      /\ Connect(1, a, "on", Nobody) \/ (UNCHANGED <<live, tools>> /\ UNCHANGED writes)
  BY DEF Load, history, tables, connections, ConnInv, TablesTyped
<1>2. /\ RegistryHasAll /\ OneAtATime /\ registry = 1 /\ live[1][a] = Dead
      /\ \A o \in Ops : op'[o] = NoOp
  BY <1>1 DEF AloneInv, OneAtATime
<1>3. NoRecordWaits /\ record = Target
  BY <1>1, <1>2, NoneWaits DEF Idle, AloneInv, RecordFollows, NoRecordWaits
<1>4. record' = Target'
  BY <1>1, <1>3 DEF Target
<1>5. 1 \in Gens
  BY OutboundAssumption DEF Gens
<1>6. CASE Connect(1, a, "on", Nobody)
  <2>1. /\ RegistryHasAll'
        /\ \A h, b \in Gens : ~(h = 1 /\ b = a) => live'[h][b] = live[h][b]
    BY <1>1, <1>2, <1>5, <1>6, ConnectAll
  <2>2. RecordFollows'
    BY <1>3, <1>4, <1>6, AgentsAsked DEF Connect
  <2>3. OneAtATime'
    BY <1>1, <1>2, <1>5, <2>1 DEF OneAtATime
  <2> QED BY <1>2, <2>1, <2>2, <2>3 DEF AloneInv
<1>7. CASE UNCHANGED <<live, tools>> /\ UNCHANGED writes
  <2>1. RegistryHasAll' /\ OneAtATime'
    BY <1>1, <1>2, <1>7 DEF RegistryHasAll, OneAtATime
  <2>2. RecordFollows'
    BY <1>3, <1>4, <1>7, RecordStays
  <2> QED BY <1>2, <2>1, <2>2 DEF AloneInv
<1> QED BY <1>1, <1>6, <1>7

LEMMA AloneInvInit == Init => AloneInv
<1> SUFFICES ASSUME Init PROVE AloneInv
  OBVIOUS
<1>1. \A o \in Ops : op[o] = NoOp
  BY DEF Init
<1>2. RegistryHasAll /\ OneAtATime
  BY <1>1 DEF Init, RegistryHasAll, OneAtATime
<1>3. RecordFollows
  <2>1. Target = "none"
    BY <1>1, NoOpTyped DEF Init, Target
  <2> QED BY <2>1 DEF Init, RecordFollows
<1> QED BY <1>1, <1>2, <1>3 DEF AloneInv

LEMMA AloneInvNext == ConnInv /\ AloneInv /\ [Next]_vars => AloneInv'
<1> SUFFICES ASSUME ConnInv, AloneInv, [Next]_vars PROVE AloneInv'
  OBVIOUS
<1>1. CASE ~alone'
  BY <1>1 DEF AloneInv
<1>2. CASE alone' /\ Next
  BY <1>2, StartAlone, ContinueAlone, WriteAlone, RestartAlone, LoadAlone DEF Next
<1>3. CASE UNCHANGED vars
  BY <1>3 DEF vars, tables, boot, connections, history, AloneInv, RegistryHasAll, OneAtATime,
     RecordFollows, Target, Placed
<1> QED BY <1>1, <1>2, <1>3

\* While operations come one at a time, the connections are those of the registry
\* that the manager holds, and the record is what was asked for last, or will be
\* when the writes have arrived.
THEOREM AloneHolds == Spec => []AloneInv
BY AloneInvInit, AloneInvNext, ConnectionsHold, PTL DEF Spec

\* When operations came one at a time and the last one ended, no tools and no
\* record are left behind and the flag asked for is saved, restarts included.
THEOREM NothingLeftBehind == Spec => []QuietIsConsistent
<1>1. ConnInv /\ AloneInv => QuietIsConsistent
  <2> SUFFICES ASSUME ConnInv, AloneInv, alone, Quiet
               PROVE  \/ /\ registry # None /\ tools = ConnsOf(live[registry])
                         /\ record \in {"none", intended}
                      \/ registry = None /\ tools = {} /\ record = "none"
    BY DEF QuietIsConsistent
  <2>1. record = Target /\ RegistryHasAll
    BY NoneWaits DEF Quiet, AloneInv
  <2>2. \A o \in Ops : op[o].kind = "none"
    BY NoOpTyped DEF Quiet, Idle
  <2> QED BY <2>1, <2>2 DEF Target, RegistryHasAll
<1> QED BY <1>1, ConnectionsHold, AloneHolds, PTL
=============================================================================
