--------------------------- MODULE InboundTasksProofs ---------------------------
(***************************************************************************)
(* Proofs about InboundTasks, for any number of servers, tasks, peers and  *)
(* requests: what an edit may do to a settled task, who waits and who is   *)
(* told, and which streams are counted.                                    *)
(***************************************************************************)
EXTENDS InboundTasks, FiniteSetTheorems, TLAPS

\* What makes it inductive: who runs a task has taken a message for it, and a run
\* that is under way while its task is settled has been overtaken by another
\* instance, or the task was canceled.
Overtaken ==
  \A r \in runs : IsTerminal(state[r.task]) /\ state[r.task] # "CANCELED" => TakenTwice(r.task)

AreRuns(some) == \A r \in some : r = Run(r.task, r.gen) /\ r.task \in Tasks

RunsInv ==
  /\ state = [t \in Tasks |-> state[t]]
  /\ runs \subseteq taken
  /\ AreRuns(taken)
  /\ \A r \in runs : state[r.task] # ABSENT
  /\ Overtaken

\* The states the code gives a task with a run or at its beginning are not settled.
LEMMA StatesDiffer ==
  /\ ~IsTerminal("WORKING") /\ ~IsTerminal("INPUT_REQUIRED") /\ ~IsTerminal(ABSENT)
  /\ IsTerminal("CANCELED")
  /\ ABSENT \notin {"WORKING", "INPUT_REQUIRED", "COMPLETED", "FAILED", "CANCELED"}
BY DEF IsTerminal, TERMINAL_STATES, ABSENT

\* A step that leaves runs alone and settles tasks, if any, as canceled.
LEMMA RunsKept ==
  ASSUME RunsInv, UNCHANGED <<runs, taken>>, state' = [t \in Tasks |-> state'[t]],
         \A t \in Tasks : \/ state'[t] = state[t]
                          \/ state'[t] # ABSENT /\ ~IsTerminal(state'[t])
                          \/ state'[t] = "CANCELED"
  PROVE  RunsInv'
BY StatesDiffer DEF RunsInv, Overtaken, AreRuns, TakenTwice, TakenElsewhere

\* Cancel settles as canceled.
LEMMA CancelKeeps ==
  ASSUME NEW s, NEW ids, Cancel(s, ids)
  PROVE  /\ state' = [t \in Tasks |-> state'[t]]
         /\ \A t \in Tasks : state'[t] = state[t] \/ state'[t] = "CANCELED"
BY DEF Cancel

\* The same run in another instance is another run: what remains when one has
\* settled a task has a companion among the runs so far.
LEMMA RunEndsKeeps ==
  ASSUME RunsInv, NEW r \in runs, RunEnds(r)
  PROVE  RunsInv'
<1>1. runs' = runs \ {r} /\ taken' = taken /\ r \in taken
  BY DEF RunEnds, RunsInv
<1>2. /\ state' = [t \in Tasks |-> state'[t]]
      /\ \A t \in Tasks : t # r.task => state'[t] = state[t]
  BY DEF RunEnds, RunsInv
<1>3. \A q \in runs \ {r} : q.task = r.task => TakenTwice(r.task)
  <2> SUFFICES ASSUME NEW q \in runs \ {r}, q.task = r.task PROVE TakenTwice(r.task)
    OBVIOUS
  <2>1. q.gen # r.gen
    BY DEF RunsInv, AreRuns, Run
  <2> QED BY <2>1, <1>1 DEF TakenTwice, TakenElsewhere, RunsInv
<1>4. \A t : TakenTwice(t)' <=> TakenTwice(t)
  BY <1>1 DEF TakenTwice, TakenElsewhere
<1>5. Overtaken'
  <2> SUFFICES ASSUME NEW q \in runs \ {r}, IsTerminal(state'[q.task]),
                      state'[q.task] # "CANCELED"
               PROVE  TakenTwice(q.task)
    BY <1>1, <1>4 DEF Overtaken
  <2>1. CASE q.task = r.task
    BY <2>1, <1>3
  <2>2. CASE q.task # r.task
    BY <2>2, <1>2 DEF RunsInv, Overtaken, AreRuns
  <2> QED BY <2>1, <2>2
<1>6. state'[r.task] # ABSENT
  BY StatesDiffer DEF RunEnds, Outcomes, RunsInv, AreRuns
<1>7. \A q \in runs' : state'[q.task] # ABSENT
  BY <1>1, <1>2, <1>6 DEF RunsInv, AreRuns
<1> QED BY <1>1, <1>2, <1>5, <1>7 DEF RunsInv, AreRuns

LEMMA StartsKeeps ==
  ASSUME RunsInv, NEW c \in Calls, Starts(c)
  PROVE  RunsInv'
<1>1. PICK t \in Tasks :
        /\ state' = [state EXCEPT ![t] = "WORKING"]
        /\ runs' = runs \cup {Run(t, call[c].gen)}
        /\ taken' = taken \cup {Run(t, call[c].gen)}
  BY DEF Starts, Continuable, Unused, Mine
<1>2. state' = [u \in Tasks |-> IF u = t THEN "WORKING" ELSE state[u]]
  BY <1>1 DEF RunsInv
<1>3. AreRuns(taken') /\ runs' \subseteq taken'
  BY <1>1 DEF RunsInv, AreRuns, Run
<1>4. \A u : TakenTwice(u) => TakenTwice(u)'
  BY <1>1 DEF TakenTwice, TakenElsewhere
<1>5. Overtaken'
  <2> SUFFICES ASSUME NEW q \in runs', IsTerminal(state'[q.task]), state'[q.task] # "CANCELED"
               PROVE  TakenTwice(q.task)'
    BY DEF Overtaken
  <2>1. q.task # t /\ q.task \in Tasks
    BY <1>2, <1>3, StatesDiffer DEF AreRuns
  <2>2. q \in runs /\ state'[q.task] = state[q.task]
    BY <2>1, <1>1, <1>2 DEF Run
  <2> QED BY <2>2, <1>4 DEF RunsInv, Overtaken
<1>6. \A q \in runs' : state'[q.task] # ABSENT
  BY <1>1, <1>2, <1>3, StatesDiffer DEF RunsInv, AreRuns, Run
<1> QED BY <1>2, <1>3, <1>5, <1>6 DEF RunsInv

\* A task fails for the quota: a run of it that is under way is in another
\* instance, and this one has taken a message for it as well.
LEMMA OverQuotaKeeps ==
  ASSUME RunsInv, NEW c \in Calls, OverQuota(c)
  PROVE  RunsInv'
<1>1. PICK t \in Continuable(c) \cup Unused :
        /\ state' = [state EXCEPT ![t] = "FAILED"]
        /\ taken' = taken \cup {Run(t, call[c].gen)}
  BY DEF OverQuota
<1>2. runs' = runs /\ t \in Tasks
  BY DEF OverQuota, Continuable, Unused, Mine
<1>3. state' = [u \in Tasks |-> IF u = t THEN "FAILED" ELSE state[u]]
  BY <1>1 DEF RunsInv
<1>4. AreRuns(taken') /\ runs' \subseteq taken'
  BY <1>1, <1>2 DEF RunsInv, AreRuns, Run
<1>5. \A u : TakenTwice(u) => TakenTwice(u)'
  BY <1>1 DEF TakenTwice, TakenElsewhere
<1>6. ASSUME NEW q \in runs, q.task = t
      PROVE  TakenTwice(t)'
  <2>1. ~RunsIn(t, call[c].gen)
    BY <1>6 DEF Continuable, Unused, RunsInv
  <2>2. q.gen # call[c].gen
    BY <1>6, <2>1 DEF RunsIn, RunsInv, AreRuns
  <2>3. q \in taken' /\ Run(t, call[c].gen) \in taken'
    BY <1>1 DEF RunsInv
  <2> QED BY <1>6, <2>2, <2>3 DEF TakenTwice, TakenElsewhere, Run
<1>7. Overtaken'
  <2> SUFFICES ASSUME NEW q \in runs, IsTerminal(state'[q.task]), state'[q.task] # "CANCELED"
               PROVE  TakenTwice(q.task)'
    BY <1>2 DEF Overtaken
  <2>1. CASE q.task = t
    BY <2>1, <1>6
  <2>2. CASE q.task # t
    BY <2>2, <1>3, <1>5 DEF RunsInv, Overtaken, AreRuns
  <2> QED BY <2>1, <2>2
<1>8. \A q \in runs' : state'[q.task] # ABSENT
  BY <1>2, <1>3, StatesDiffer DEF RunsInv, AreRuns
<1> QED BY <1>3, <1>4, <1>7, <1>8 DEF RunsInv

\* Every step keeps RunsInv: one step for each action that touches what it is about.
LEMMA StepKeeps ==
  ASSUME RunsInv, [Next]_vars
  PROVE  RunsInv'
<1>1. CASE UNCHANGED <<state, runs, taken>>
  BY <1>1, RunsKept DEF RunsInv
<1>2. ASSUME NEW r \in runs, Report(r) PROVE RunsInv'
  BY <1>2, RunsKept, StatesDiffer DEF Report, RunsInv
<1>3. ASSUME NEW r \in runs, RunEnds(r) PROVE RunsInv'
  BY <1>3, RunEndsKeeps
<1>4. ASSUME NEW c \in Calls, Starts(c) \/ OverQuota(c) PROVE RunsInv'
  BY <1>4, StartsKeeps, OverQuotaKeeps
<1>5. ASSUME NEW s, NEW ids, Cancel(s, ids), UNCHANGED <<runs, taken>> PROVE RunsInv'
  BY <1>5, RunsKept, CancelKeeps
<1>6. ASSUME NEW c \in Calls, Request(c) PROVE RunsInv'
  BY <1>6, <1>1, <1>4 DEF Request, Arrive, Subscribe, Refused, Replays, Answer
<1>7. ASSUME NEW s \in Servers, Control(s) PROVE RunsInv'
  BY <1>7, <1>1, <1>5 DEF Control, Shown, CloseInbound, CancelTask, CancelTasks, Edit
<1> QED BY <1>1, <1>2, <1>3, <1>6, <1>7 DEF Next, vars

\* In every reachable state a run that is under way behind a settled task has
\* been overtaken by another instance, which ran the task or failed it for its
\* quota, or the task was canceled (runTask in src/server/a2a-server.ts across
\* the swap of an edit).
THEOREM RunsOvertaken == Spec => []RunsInv
<1>1. Init => RunsInv
  BY DEF Init, RunsInv, Overtaken, AreRuns
<1>2. RunsInv /\ [Next]_vars => RunsInv'
  BY StepKeeps
<1> QED BY <1>1, <1>2, PTL DEF Spec

\* For any number of servers, edits and requests and any quota: a settled task
\* changes only where an edit let two instances take messages for it, and a
\* canceled one never.
THEOREM SettledUnlessEdited == Spec => SettledByOneInstance
<1> DEFINE Step ==
      \A t \in Tasks : IsTerminal(state[t]) /\ state'[t] # state[t] =>
        state[t] # "CANCELED" /\ TakenTwice(t)
<1>1. RunsInv /\ [Next]_vars => [Step]_vars
  <2> SUFFICES ASSUME RunsInv, Next PROVE Step
    OBVIOUS
  <2>1. ASSUME NEW r \in runs, Report(r) PROVE Step
    BY <2>1 DEF Report, RunsInv, AreRuns
  <2>2. ASSUME NEW r \in runs, RunEnds(r) PROVE Step
    BY <2>2 DEF RunEnds, Outcomes, RunsInv, Overtaken
  <2>3. ASSUME NEW c \in Calls, Starts(c) \/ OverQuota(c) PROVE Step
    BY <2>3, StatesDiffer DEF Starts, OverQuota, Continuable, Unused, Mine, RunsInv
  <2>4. ASSUME NEW s, NEW ids, Cancel(s, ids) PROVE Step
    BY <2>4 DEF Cancel, Cancelable
  <2>5. ASSUME UNCHANGED state PROVE Step
    BY <2>5
  <2>6. ASSUME NEW c \in Calls, Request(c) PROVE Step
    BY <2>6, <2>3, <2>5 DEF Request, Arrive, Subscribe, Refused, Replays, Answer
  <2>7. ASSUME NEW s \in Servers, Control(s) PROVE Step
    BY <2>7, <2>4, <2>5 DEF Control, Shown, CloseInbound, CancelTask, CancelTasks, Edit
  <2> QED BY <2>1, <2>2, <2>6, <2>7 DEF Next
<1> QED BY <1>1, RunsOvertaken, PTL DEF Spec, SettledByOneInstance
-----------------------------------------------------------------------------
(* Types, and what a request and a run know of their task *)

CallRecord ==
  [at : {"idle", "gate", "waiting", "running", "woken"}, method : Methods \cup {"none"},
   server : Servers \cup {None}, gen : Nat, peer : Peers \cup {None},
   task : Tasks \cup {None}]

Typed ==
  /\ gen \in [Servers -> Nat]
  /\ owner \in [Tasks -> Servers \cup {None}]
  /\ state = [t \in Tasks |-> state[t]]
  /\ call \in [Calls -> CallRecord]
  /\ active \in [Servers -> [Peers -> SUBSET Tasks]]
  /\ listed \in [Servers -> SUBSET Peers]
  /\ streams \in [Servers -> [Tasks -> Nat]]

\* A request that came in knows its server, its peer and an instance that was
\* live then; one that has a task has one of its server's, and only messages
\* pass the gate, and only blocking ones wait for their run.
KnowsOf(x, owners, gens) ==
  /\ x.at # "idle" => x.server \in Servers /\ x.peer \in Peers /\ x.gen <= gens[x.server]
  /\ x.at \in {"waiting", "running", "woken"} =>
       x.task \in Tasks /\ owners[x.task] = x.server
  /\ x.at = "gate" => x.method # "subscribe"
  /\ x.at = "running" => x.method \notin Streaming

CallsKnow == \A c \in Calls : KnowsOf(call[c], owner, gen)

\* A task exists when a server owns it; one that is not settled is being run.
OwnersKnow ==
  \A t \in Tasks :
    /\ owner[t] = None <=> state[t] = ABSENT
    /\ state[t] = ABSENT \/ IsSettled(state[t]) \/ \E r \in runs : r.task = t

RunsKnow ==
  \A r \in runs : r.gen \in Nat /\ owner[r.task] \in Servers /\ r.gen <= gen[owner[r.task]]

ListedKnow == \A s \in Servers, p \in Peers : active[s][p] # {} => p \in listed[s]

Known == RunsInv /\ Typed /\ CallsKnow /\ OwnersKnow /\ RunsKnow /\ ListedKnow

LEMMA ServersAreNumbers == None \notin Servers /\ Servers \subseteq Nat
BY ServersAssumption DEF None

LEMMA KnownStates ==
  /\ IsSettled("COMPLETED") /\ IsSettled("FAILED") /\ IsSettled("CANCELED")
  /\ IsSettled("INPUT_REQUIRED") /\ ~IsSettled("WORKING") /\ ~IsSettled(ABSENT)
  /\ \A now \in INTERRUPTED_STATES : IsSettled(now) /\ now # ABSENT
  /\ ABSENT \notin {"WORKING", "COMPLETED", "FAILED", "CANCELED", "INPUT_REQUIRED"}
  /\ \A now : IsTerminal(now) => IsSettled(now)
BY DEF IsSettled, IsTerminal, TERMINAL_STATES, INTERRUPTED_STATES, ABSENT

\* What is told of a peer keeps the types, and lists who has tasks.
LEMMA NoteKeeps ==
  ASSUME Typed, ListedKnow, NEW s \in Servers, NEW p \in Peers,
         NEW ids \in SUBSET Tasks, Note(s, p, ids)
  PROVE  /\ active' \in [Servers -> [Peers -> SUBSET Tasks]]
         /\ listed' \in [Servers -> SUBSET Peers]
         /\ ListedKnow'
         /\ \A z \in Servers, q \in Peers : active[z][q] \subseteq active'[z][q]
         /\ ids \subseteq active'[s][p]
BY DEF Typed, Note, ListedKnow

LEMMA NoteForKeeps ==
  ASSUME Typed, ListedKnow, CallsKnow, NEW c \in Calls, call[c].at # "idle",
         NEW ids \in SUBSET Tasks, NoteFor(c, ids)
  PROVE  /\ active' \in [Servers -> [Peers -> SUBSET Tasks]]
         /\ listed' \in [Servers -> SUBSET Peers]
         /\ ListedKnow'
         /\ \A z \in Servers, q \in Peers : active[z][q] \subseteq active'[z][q]
         /\ IsLive(c) => ids \subseteq active'[call[c].server][call[c].peer]
<1>1. call[c].server \in Servers /\ call[c].peer \in Peers
  BY DEF CallsKnow, KnowsOf
<1>2. CASE IsLive(c)
  BY <1>1, <1>2, NoteKeeps DEF NoteFor
<1>3. CASE ~IsLive(c)
  BY <1>3 DEF NoteFor, peers, Typed, ListedKnow
<1> QED BY <1>2, <1>3

LEMMA StreamOpensType ==
  ASSUME Typed, NEW s \in Servers, NEW t \in Tasks, StreamOpens(s, t)
  PROVE  streams' \in [Servers -> [Tasks -> Nat]]
BY DEF Typed, StreamOpens

LEMMA StreamCloseType ==
  ASSUME Typed, NEW s \in Servers, NEW t \in Tasks, StreamCloses(s, t)
  PROVE  streams' \in [Servers -> [Tasks -> Nat]]
<1>1. streams[s][t] \in Nat
  BY DEF Typed
<1>2. (IF streams[s][t] <= 1 THEN 0 ELSE streams[s][t] - 1) \in Nat
  BY <1>1
<1> QED BY <1>2 DEF Typed, StreamCloses

\* A waking request keeps what it knows; here all that one is doing may change.
Wakes(x, y) ==
  \/ y = x
  \/ x.at \in {"waiting", "running"} /\ y = [x EXCEPT !.at = "woken"]

LEMMA WakingOne ==
  ASSUME NEW x \in CallRecord, NEW y, Wakes(x, y), NEW owners, NEW gens,
         KnowsOf(x, owners, gens)
  PROVE  y \in CallRecord /\ KnowsOf(y, owners, gens)
<1>1. CASE y = x
  BY <1>1
<1>2. CASE x.at \in {"waiting", "running"} /\ y = [x EXCEPT !.at = "woken"]
  <2>1. /\ y.at = "woken" /\ y.method = x.method /\ y.server = x.server
        /\ y.gen = x.gen /\ y.peer = x.peer /\ y.task = x.task
    BY <1>2 DEF CallRecord
  <2>2. y \in CallRecord
    BY <1>2 DEF CallRecord
  <2> QED BY <1>2, <2>1, <2>2 DEF KnowsOf
<1> QED BY <1>1, <1>2 DEF Wakes

LEMMA WakingKeeps ==
  ASSUME Typed, CallsKnow, UNCHANGED <<gen, owner>>, call' = [c \in Calls |-> call'[c]],
         \A c \in Calls : Wakes(call[c], call'[c])
  PROVE  call' \in [Calls -> CallRecord] /\ CallsKnow'
<1>1. \A c \in Calls : call'[c] \in CallRecord /\ KnowsOf(call'[c], owner, gen)
  BY WakingOne DEF Typed, CallsKnow
<1> QED BY <1>1 DEF CallsKnow

\* One request changes, the others keep their slots.
LEMMA OneCallKeeps ==
  ASSUME call \in [Calls -> CallRecord], \A d \in Calls : KnowsOf(call[d], owner', gen'),
         NEW c \in Calls, NEW x \in CallRecord, KnowsOf(x, owner', gen'),
         call' = [call EXCEPT ![c] = x]
  PROVE  call' \in [Calls -> CallRecord] /\ CallsKnow'
<1>1. call' \in [Calls -> CallRecord]
  OBVIOUS
<1>2. ASSUME NEW d \in Calls PROVE KnowsOf(call'[d], owner', gen')
  <2>1. call'[d] = IF d = c THEN x ELSE call[d]
    OBVIOUS
  <2> QED BY <2>1
<1> QED BY <1>1, <1>2 DEF CallsKnow

LEMMA NoCallKnows == NoCall \in CallRecord /\ \A o, g : KnowsOf(NoCall, o, g)
BY DEF NoCall, CallRecord, KnowsOf, None

\* A message starts a run: the task is its server's from now on.
LEMMA StartsKnown ==
  ASSUME Known, NEW c \in Calls, Starts(c)
  PROVE  Known'
<1>. USE DEF Known
<1>1. PICK t \in Continuable(c) \cup Unused :
        /\ owner' = [owner EXCEPT ![t] = call[c].server]
        /\ state' = [state EXCEPT ![t] = "WORKING"]
        /\ runs' = runs \cup {Run(t, call[c].gen)}
        /\ \/ /\ call[c].method = "stream"
              /\ Streams(c, t)
              /\ call' = [call EXCEPT ![c].at = "waiting", ![c].task = t]
           \/ /\ call[c].method = "send"
              /\ call' = [call EXCEPT ![c].at = "running", ![c].task = t]
              /\ UNCHANGED <<peers, streams>>
           \/ /\ call[c].method = "sendImmediately"
              /\ NoteFor(c, {t})
              /\ call' = [call EXCEPT ![c] = NoCall]
              /\ UNCHANGED streams
  BY DEF Starts
<1>2. t \in Tasks /\ owner[t] \in {None, call[c].server} /\ gen' = gen
  BY <1>1 DEF Continuable, Unused, Mine, OwnersKnow, Starts
<1>3. /\ call[c].at = "gate" /\ call[c].server \in Servers /\ call[c].peer \in Peers
      /\ call[c].gen \in Nat /\ call[c].gen <= gen[call[c].server] /\ call[c] \in CallRecord
  BY DEF Starts, CallsKnow, KnowsOf, Typed, CallRecord
<1>4. owner' \in [Tasks -> Servers \cup {None}] /\ owner'[t] = call[c].server
  BY <1>1, <1>2, <1>3 DEF Typed
<1>5. \A u \in Tasks : owner[u] # None => owner'[u] = owner[u]
  BY <1>1, <1>2, <1>3 DEF Typed
<1>6. \A d \in Calls : KnowsOf(call[d], owner', gen')
  BY <1>2, <1>5, ServersAreNumbers DEF CallsKnow, KnowsOf
<1>7. call' \in [Calls -> CallRecord] /\ CallsKnow'
  <2> DEFINE Waits == [call[c] EXCEPT !.at = "waiting", !.task = t]
             Runs == [call[c] EXCEPT !.at = "running", !.task = t]
  <2>1. Waits \in CallRecord /\ Runs \in CallRecord
    BY <1>2, <1>3 DEF CallRecord
  <2>2. KnowsOf(Waits, owner', gen')
    BY <1>2, <1>3, <1>4 DEF KnowsOf, CallRecord
  <2>3. call[c].method = "send" => KnowsOf(Runs, owner', gen')
    BY <1>2, <1>3, <1>4 DEF KnowsOf, CallRecord, Streaming
  <2>4. \/ call' = [call EXCEPT ![c] = Waits]
        \/ call[c].method = "send" /\ call' = [call EXCEPT ![c] = Runs]
        \/ call' = [call EXCEPT ![c] = NoCall]
    BY <1>1 DEF Typed
  <2> HIDE DEF Waits, Runs
  <2>5. PICK x \in CallRecord : KnowsOf(x, owner', gen') /\ call' = [call EXCEPT ![c] = x]
    BY <2>1, <2>2, <2>3, <2>4, NoCallKnows
  <2> QED BY <2>5, <1>6, OneCallKeeps DEF Typed
<1>8. OwnersKnow'
  <2>1. \A u \in Tasks : state'[u] = IF u = t THEN "WORKING" ELSE state[u]
    BY <1>1, <1>2 DEF Typed
  <2>2. \A u \in Tasks : u # t => owner'[u] = owner[u]
    BY <1>1, <1>2 DEF Typed
  <2>3. Run(t, call[c].gen) \in runs' /\ Run(t, call[c].gen).task = t /\ runs \subseteq runs'
    BY <1>1 DEF Run
  <2> QED BY <2>1, <2>2, <2>3, <1>3, <1>4, KnownStates, ServersAreNumbers DEF OwnersKnow
<1>9. RunsKnow'
  <2> SUFFICES ASSUME NEW r \in runs'
               PROVE  r.gen \in Nat /\ owner'[r.task] \in Servers /\ r.gen <= gen[owner'[r.task]]
    BY <1>2 DEF RunsKnow
  <2>1. CASE r = Run(t, call[c].gen)
    BY <2>1, <1>3, <1>4 DEF Run
  <2>2. CASE r \in runs
    BY <2>2, <1>5, ServersAreNumbers DEF RunsKnow, RunsInv, AreRuns
  <2> QED BY <2>1, <2>2, <1>1
<1>10. /\ active' \in [Servers -> [Peers -> SUBSET Tasks]]
       /\ listed' \in [Servers -> SUBSET Peers] /\ ListedKnow'
  <2>1. CASE NoteFor(c, {t})
    BY <2>1, <1>2, <1>3, NoteForKeeps
  <2>2. CASE UNCHANGED peers
    BY <2>2 DEF peers, Typed, ListedKnow
  <2> QED BY <2>1, <2>2, <1>1 DEF Streams
<1>11. streams' \in [Servers -> [Tasks -> Nat]]
  BY <1>1, <1>2, <1>3, StreamOpensType DEF Streams, Typed
<1>12. gen' \in [Servers -> Nat] /\ state' = [u \in Tasks |-> state'[u]] /\ RunsInv'
  BY <1>1, <1>2, StartsKeeps DEF Typed
<1> QED BY <1>4, <1>7, <1>8, <1>9, <1>10, <1>11, <1>12 DEF Typed

\* What a message that fails a task for the quota has to answer.
FailedAnswer(x, t) ==
  IF x.method = "sendImmediately" THEN NoCall ELSE [x EXCEPT !.at = "woken", !.task = t]

\* The task it fails, and the requests after it: those of the instance that wait
\* for the task are woken.
FailsForQuota(c, t) ==
  /\ owner' = [owner EXCEPT ![t] = call[c].server]
  /\ state' = [state EXCEPT ![t] = "FAILED"]
  /\ taken' = taken \cup {Run(t, call[c].gen)}
  /\ NoteFailed(c, t)
  /\ IF call[c].method = "stream" /\ IsLive(c) THEN StreamOpens(call[c].server, t)
     ELSE UNCHANGED streams
  /\ call' = [d \in Calls |-> call'[d]]
  /\ call'[c] = FailedAnswer(call[c], t)
  /\ \A d \in Calls \ {c} :
       /\ Wakes(call[d], call'[d])
       /\ call'[d].at = "waiting" =>
            /\ call'[d] = call[d]
            /\ ~(call[d].server = call[c].server /\ call[d].gen = call[c].gen
                  /\ call[d].task = t)

LEMMA OverQuotaFacts ==
  ASSUME Known, NEW c \in Calls, OverQuota(c)
  PROVE  /\ call[c].at = "gate" /\ UNCHANGED <<gen, runs>> /\ call[c] \in CallRecord
         /\ call[c].server \in Servers /\ call[c].peer \in Peers /\ call[c].gen \in Nat
         /\ \E t \in Tasks :
              /\ owner[t] \in {None, call[c].server} /\ ~RunsIn(t, call[c].gen)
              /\ ~IsTerminal(state[t])
              /\ FailsForQuota(c, t)
<1>1. /\ call[c].at = "gate" /\ UNCHANGED <<gen, runs>> /\ call[c] \in CallRecord
      /\ call[c].server \in Servers /\ call[c].peer \in Peers /\ call[c].gen \in Nat
  BY DEF OverQuota, Known, Typed, CallsKnow, KnowsOf, CallRecord
<1>2. PICK t \in Continuable(c) \cup Unused :
        /\ owner' = [owner EXCEPT ![t] = call[c].server]
        /\ state' = [state EXCEPT ![t] = "FAILED"]
        /\ taken' = taken \cup {Run(t, call[c].gen)}
        /\ NoteFailed(c, t)
        /\ IF call[c].method = "stream" /\ IsLive(c) THEN StreamOpens(call[c].server, t)
           ELSE UNCHANGED streams
        /\ call' = [Woken(call[c].server, call[c].gen, t, call) EXCEPT
             ![c] = IF call[c].method = "sendImmediately" THEN NoCall
                    ELSE [@ EXCEPT !.at = "woken", !.task = t]]
  BY DEF OverQuota
<1>3. t \in Tasks /\ owner[t] \in {None, call[c].server}
  BY <1>1 DEF Continuable, Unused, Mine, Known, OwnersKnow
<1>4. ~IsTerminal(state[t]) /\ ~RunsIn(t, call[c].gen)
  <2>1. CASE t \in Continuable(c)
    BY <2>1 DEF Continuable
  <2>2. CASE t \in Unused
    BY <2>2, StatesDiffer DEF Unused, RunsIn, Run, Known, RunsInv
  <2> QED BY <2>1, <2>2
<1> DEFINE W == Woken(call[c].server, call[c].gen, t, call)
<1>5. W = [d \in Calls |-> W[d]] /\ W[c] = call[c]
  BY <1>1 DEF Woken
<1>6. \A d \in Calls :
        /\ Wakes(call[d], W[d])
        /\ W[d].at = "waiting" =>
             /\ W[d] = call[d]
             /\ ~(call[d].server = call[c].server /\ call[d].gen = call[c].gen
                   /\ call[d].task = t)
  <2> SUFFICES ASSUME NEW d \in Calls
               PROVE  /\ Wakes(call[d], W[d])
                      /\ W[d].at = "waiting" =>
                           /\ W[d] = call[d]
                           /\ ~(call[d].server = call[c].server /\ call[d].gen = call[c].gen
                                 /\ call[d].task = t)
    OBVIOUS
  <2> DEFINE Here == call[d].server = call[c].server /\ call[d].gen = call[c].gen
                       /\ call[d].task = t /\ call[d].at = "waiting"
  <2>1. CASE Here
    <3>1. W[d] = [call[d] EXCEPT !.at = "woken"]
      BY <2>1 DEF Woken
    <3>2. W[d].at = "woken"
      BY <3>1 DEF Known, Typed, CallRecord
    <3> QED BY <2>1, <3>1, <3>2 DEF Wakes
  <2>2. CASE ~Here
    <3>1. W[d] = call[d]
      BY <2>2 DEF Woken
    <3> QED BY <2>2, <3>1 DEF Wakes
  <2> QED BY <2>1, <2>2
<1>7. call' = [W EXCEPT ![c] = FailedAnswer(W[c], t)]
  BY <1>2, <1>5 DEF FailedAnswer
<1> HIDE DEF W
<1>8. /\ call' = [d \in Calls |-> call'[d]]
      /\ call'[c] = FailedAnswer(call[c], t)
      /\ \A d \in Calls \ {c} : call'[d] = W[d]
  BY <1>5, <1>7
<1>9. FailsForQuota(c, t)
  BY <1>2, <1>6, <1>8 DEF FailsForQuota
<1> QED BY <1>1, <1>3, <1>4, <1>9

LEMMA NoteFailedKeeps ==
  ASSUME Typed, ListedKnow, NEW c \in Calls, call[c].server \in Servers,
         call[c].peer \in Peers, NEW t \in Tasks, NoteFailed(c, t)
  PROVE  /\ active' \in [Servers -> [Peers -> SUBSET Tasks]]
         /\ listed' \in [Servers -> SUBSET Peers]
         /\ ListedKnow'
         /\ \A z \in Servers, q \in Peers : active[z][q] \ {t} \subseteq active'[z][q]
<1> DEFINE s == call[c].server
           p == call[c].peer
<1>1. /\ active \in [Servers -> [Peers -> SUBSET Tasks]]
      /\ listed \in [Servers -> SUBSET Peers] /\ ListedKnow
  BY DEF Typed
<1>2. CASE IsLive(c)
  <2>1. Dropped(s, t) \in [Servers -> [Peers -> SUBSET Tasks]]
    BY <1>1 DEF Dropped
  <2>2. \A z \in Servers, q \in Peers :
          Dropped(s, t)[z][q] = IF z = s THEN active[z][q] \ {t} ELSE active[z][q]
    BY <1>1 DEF Dropped
  <2>3. active' = [Dropped(s, t) EXCEPT
          ![s][p] = IF call[c].method = "sendImmediately" THEN @ \cup {t} ELSE @]
    BY <1>2 DEF NoteFailed
  <2>4. listed' = [listed EXCEPT ![s] = IF call[c].method = "send" THEN @ ELSE @ \cup {p}]
    BY <1>2 DEF NoteFailed
  <2>5. /\ active' \in [Servers -> [Peers -> SUBSET Tasks]]
        /\ listed' \in [Servers -> SUBSET Peers]
    BY <1>1, <2>1, <2>3, <2>4
  <2>6. \A z \in Servers, q \in Peers :
          active'[z][q] = IF z = s /\ q = p /\ call[c].method = "sendImmediately"
                          THEN Dropped(s, t)[z][q] \cup {t} ELSE Dropped(s, t)[z][q]
    BY <2>1, <2>3
  <2>7. \A z \in Servers : /\ listed[z] \subseteq listed'[z]
                           /\ z = s /\ call[c].method = "sendImmediately" => p \in listed'[z]
    BY <1>1, <2>4
  <2>8. ListedKnow'
    <3> SUFFICES ASSUME NEW z \in Servers, NEW q \in Peers, active'[z][q] # {}
                 PROVE  q \in listed'[z]
      BY DEF ListedKnow
    <3>1. CASE z = s /\ q = p /\ call[c].method = "sendImmediately"
      BY <2>7, <3>1
    <3>2. CASE ~(z = s /\ q = p /\ call[c].method = "sendImmediately")
      <4>1. active'[z][q] = Dropped(s, t)[z][q]
        BY <2>6, <3>2
      <4>2. active'[z][q] \subseteq active[z][q]
        BY <2>2, <4>1
      <4>3. active[z][q] # {}
        BY <4>2
      <4> QED BY <4>3, <1>1, <2>7 DEF ListedKnow
    <3> QED BY <3>1, <3>2
  <2>9. ASSUME NEW z \in Servers, NEW q \in Peers
        PROVE  active[z][q] \ {t} \subseteq active'[z][q]
    <3>1. Dropped(s, t)[z][q] \subseteq active'[z][q]
      BY <2>6
    <3>2. active[z][q] \ {t} \subseteq Dropped(s, t)[z][q]
      BY <2>2
    <3> QED BY <3>1, <3>2
  <2> QED BY <2>5, <2>8, <2>9
<1>3. CASE ~IsLive(c)
  BY <1>1, <1>3 DEF NoteFailed, peers, ListedKnow
<1> QED BY <1>2, <1>3

\* A task that fails for the quota is its server's and has settled.
LEMMA OverQuotaKnown ==
  ASSUME Known, NEW c \in Calls, OverQuota(c)
  PROVE  Known'
<1>. USE DEF Known
<1>1. /\ call[c].at = "gate" /\ UNCHANGED <<gen, runs>> /\ call[c] \in CallRecord
      /\ call[c].server \in Servers /\ call[c].peer \in Peers /\ call[c].gen \in Nat
  BY OverQuotaFacts
<1>2. PICK t \in Tasks : /\ owner[t] \in {None, call[c].server}
                         /\ FailsForQuota(c, t)
  BY OverQuotaFacts
<1>3. /\ owner' \in [Tasks -> Servers \cup {None}] /\ owner'[t] = call[c].server
      /\ \A u \in Tasks : u # t => owner'[u] = owner[u]
      /\ \A u \in Tasks : owner[u] # None => owner'[u] = owner[u]
  BY <1>1, <1>2 DEF FailsForQuota, Typed
<1>4. /\ state' = [u \in Tasks |-> state'[u]]
      /\ \A u \in Tasks : state'[u] = IF u = t THEN "FAILED" ELSE state[u]
  BY <1>2 DEF FailsForQuota, Typed
<1>5. \A d \in Calls : KnowsOf(call[d], owner', gen')
  BY <1>1, <1>3, ServersAreNumbers DEF CallsKnow, KnowsOf
<1>6. FailedAnswer(call[c], t) \in CallRecord /\ KnowsOf(FailedAnswer(call[c], t), owner', gen')
  <2>1. CASE call[c].method = "sendImmediately"
    BY <2>1, NoCallKnows DEF FailedAnswer
  <2>2. CASE call[c].method # "sendImmediately"
    <3> DEFINE x == [call[c] EXCEPT !.at = "woken", !.task = t]
    <3>1. /\ x.at = "woken" /\ x.task = t /\ x.server = call[c].server
          /\ x.gen = call[c].gen /\ x.peer = call[c].peer
      BY <1>1 DEF CallRecord
    <3>2. x \in CallRecord
      BY <1>1 DEF CallRecord
    <3>3. call[c].gen <= gen'[call[c].server]
      BY <1>1, <1>5 DEF KnowsOf
    <3>4. FailedAnswer(call[c], t) = x
      BY <2>2 DEF FailedAnswer
    <3> HIDE DEF x
    <3> QED BY <1>1, <1>3, <3>1, <3>2, <3>3, <3>4 DEF KnowsOf
  <2> QED BY <2>1, <2>2
<1>7. ASSUME NEW d \in Calls PROVE call'[d] \in CallRecord /\ KnowsOf(call'[d], owner', gen')
  <2>1. CASE d = c
    BY <2>1, <1>2, <1>6 DEF FailsForQuota
  <2>2. CASE d # c
    <3>1. Wakes(call[d], call'[d]) /\ call[d] \in CallRecord
      BY <2>2, <1>2 DEF FailsForQuota, Typed
    <3> QED BY <3>1, <1>5, WakingOne
  <2> QED BY <2>1, <2>2
<1>8. call' \in [Calls -> CallRecord] /\ CallsKnow'
  BY <1>2, <1>7 DEF FailsForQuota, CallsKnow
<1>9. OwnersKnow'
  BY <1>1, <1>3, <1>4, KnownStates, ServersAreNumbers DEF OwnersKnow
<1>10. RunsKnow'
  BY <1>1, <1>3, ServersAreNumbers DEF RunsKnow, RunsInv, AreRuns
<1>11. /\ active' \in [Servers -> [Peers -> SUBSET Tasks]]
       /\ listed' \in [Servers -> SUBSET Peers] /\ ListedKnow'
  BY <1>1, <1>2, NoteFailedKeeps DEF FailsForQuota
<1>12. streams' \in [Servers -> [Tasks -> Nat]]
  BY <1>1, <1>2, StreamOpensType DEF FailsForQuota, Typed
<1>13. RunsInv' /\ gen' \in [Servers -> Nat]
  BY <1>1, OverQuotaKeeps DEF Typed
<1> QED BY <1>3, <1>4, <1>8, <1>9, <1>10, <1>11, <1>12, <1>13 DEF Typed

\* A request that takes a task which exists, or gives its slot up, and what it
\* tells the registries.
LEMMA CallTurnKnown ==
  ASSUME Known, UNCHANGED <<gen, owner, state, runs, taken>>, NEW c \in Calls,
         NEW x \in CallRecord, KnowsOf(x, owner, gen), call' = [call EXCEPT ![c] = x],
         /\ active' \in [Servers -> [Peers -> SUBSET Tasks]]
         /\ listed' \in [Servers -> SUBSET Peers]
         /\ ListedKnow',
         streams' \in [Servers -> [Tasks -> Nat]]
  PROVE  Known'
<1>1. call' \in [Calls -> CallRecord] /\ CallsKnow'
  BY OneCallKeeps DEF Known, Typed, CallsKnow
<1>2. RunsInv'
  BY RunsKept DEF Known, RunsInv
<1> QED BY <1>1, <1>2 DEF Known, Typed, OwnersKnow, RunsKnow

LEMMA WaitForKnows ==
  ASSUME Known, NEW c \in Calls, call[c].at = "gate", NEW t \in Mine(call[c].server)
  PROVE  /\ t \in Tasks /\ owner[t] = call[c].server
         /\ WaitFor(c, t) \in CallRecord /\ KnowsOf(WaitFor(c, t), owner, gen)
<1>1. t \in Tasks /\ owner[t] = call[c].server
  BY DEF Mine
<1>2. call[c] \in CallRecord /\ KnowsOf(call[c], owner, gen)
  BY DEF Known, Typed, CallsKnow
<1>3. WaitFor(c, t) \in CallRecord
  BY <1>1, <1>2 DEF WaitFor, CallRecord
<1>4. /\ WaitFor(c, t).at \in {"waiting", "woken"} /\ WaitFor(c, t).task = t
      /\ WaitFor(c, t).server = call[c].server /\ WaitFor(c, t).gen = call[c].gen
      /\ WaitFor(c, t).peer = call[c].peer
  BY <1>2 DEF WaitFor, CallRecord
<1> QED BY <1>1, <1>2, <1>3, <1>4 DEF KnowsOf

LEMMA ReplaysKnown ==
  ASSUME Known, NEW c \in Calls, Replays(c)
  PROVE  Known'
<1>1. PICK t \in Mine(call[c].server) :
        \/ /\ Streams(c, t)
           /\ call' = [call EXCEPT ![c] = WaitFor(c, t)]
        \/ /\ call' = [call EXCEPT ![c] = WaitFor(c, t)]
           /\ UNCHANGED <<peers, streams>>
        \/ /\ NoteFor(c, {t})
           /\ call' = [call EXCEPT ![c] = NoCall]
           /\ UNCHANGED streams
  BY DEF Replays
<1>2. call[c].at = "gate" /\ UNCHANGED <<gen, owner, state, runs, taken>>
  BY DEF Replays
<1>3. call[c].server \in Servers
  BY <1>2 DEF Known, CallsKnow, KnowsOf
<1>4. t \in Tasks
  BY <1>2, WaitForKnows
<1>5. /\ active' \in [Servers -> [Peers -> SUBSET Tasks]]
      /\ listed' \in [Servers -> SUBSET Peers] /\ ListedKnow'
  <2>1. CASE NoteFor(c, {t})
    BY <2>1, <1>2, <1>4, NoteForKeeps DEF Known
  <2>2. CASE UNCHANGED peers
    BY <2>2 DEF peers, Known, Typed, ListedKnow
  <2> QED BY <2>1, <2>2, <1>1 DEF Streams
<1>6. streams' \in [Servers -> [Tasks -> Nat]]
  BY <1>1, <1>3, <1>4, StreamOpensType DEF Streams, Known, Typed
<1>7. PICK x \in CallRecord : KnowsOf(x, owner, gen) /\ call' = [call EXCEPT ![c] = x]
  BY <1>1, <1>2, WaitForKnows, NoCallKnows
<1> QED BY <1>2, <1>5, <1>6, <1>7, CallTurnKnown

LEMMA AnswerKnown ==
  ASSUME Known, NEW c \in Calls, Answer(c)
  PROVE  Known'
<1>1. /\ call[c].at = "woken" /\ call' = [call EXCEPT ![c] = NoCall]
      /\ UNCHANGED <<gen, owner, state, runs, taken>>
  BY DEF Answer
<1>2. call[c].server \in Servers /\ call[c].task \in Tasks
  BY <1>1 DEF Known, CallsKnow, KnowsOf
<1>3. /\ active' \in [Servers -> [Peers -> SUBSET Tasks]]
      /\ listed' \in [Servers -> SUBSET Peers] /\ ListedKnow'
  <2>1. CASE NoteFor(c, {call[c].task})
    BY <2>1, <1>1, <1>2, NoteForKeeps DEF Known
  <2>2. CASE UNCHANGED peers
    BY <2>2 DEF peers, Known, Typed, ListedKnow
  <2> QED BY <2>1, <2>2 DEF Answer
<1>4. streams' \in [Servers -> [Tasks -> Nat]]
  BY <1>2, StreamCloseType DEF Answer, Known, Typed
<1> QED BY <1>1, <1>3, <1>4, CallTurnKnown, NoCallKnows

LEMMA ArriveKnown ==
  ASSUME Known, NEW c \in Calls, NEW s \in Servers, NEW p \in Peers,
         NEW method \in Methods \ {"subscribe"}, Arrive(c, s, p, method)
  PROVE  Known'
<1> DEFINE x == [at |-> "gate", method |-> method, server |-> s, gen |-> gen[s],
                 peer |-> p, task |-> None]
<1>1. call' = [call EXCEPT ![c] = x] /\ UNCHANGED <<gen, owner, state, runs, peers, streams, taken>>
  BY DEF Arrive
<1>2. x \in CallRecord /\ KnowsOf(x, owner, gen)
  BY DEF CallRecord, KnowsOf, Known, Typed
<1> HIDE DEF x
<1>3. ListedKnow'
  BY <1>1 DEF Known, ListedKnow, peers
<1> QED BY <1>1, <1>2, <1>3, CallTurnKnown DEF Known, Typed, peers

LEMMA SubscribeKnown ==
  ASSUME Known, NEW c \in Calls, NEW s \in Servers, NEW p \in Peers, NEW t \in Tasks,
         Subscribe(c, s, p, t)
  PROVE  Known'
<1> DEFINE x == [at |-> IF IsSettled(state[t]) THEN "woken" ELSE "waiting",
                 method |-> "subscribe", server |-> s, gen |-> gen[s], peer |-> p, task |-> t]
<1>1. Note(s, p, {t}) /\ UNCHANGED <<gen, owner, state, runs, taken>>
  BY DEF Subscribe
<1>2. /\ active' \in [Servers -> [Peers -> SUBSET Tasks]]
      /\ listed' \in [Servers -> SUBSET Peers] /\ ListedKnow'
  BY <1>1, NoteKeeps DEF Known
<1>3. CASE t \in Mine(s) /\ call' = [call EXCEPT ![c] = x] /\ StreamOpens(s, t)
  <2>1. x \in CallRecord /\ KnowsOf(x, owner, gen)
    BY <1>3 DEF CallRecord, KnowsOf, Known, Typed, Mine, Methods
  <2> HIDE DEF x
  <2> QED BY <2>1, <1>1, <1>2, <1>3, CallTurnKnown, StreamOpensType DEF Known
<1>4. CASE UNCHANGED <<call, streams>>
  <2>1. call' = [call EXCEPT ![c] = call[c]]
    BY <1>4 DEF Known, Typed
  <2> QED BY <2>1, <1>1, <1>2, <1>4, CallTurnKnown DEF Known, Typed, CallsKnow
<1> QED BY <1>3, <1>4 DEF Subscribe

\* A step that wakes requests and changes the states of tasks which exist.
LEMMA SettlingKnown ==
  ASSUME Known, UNCHANGED <<gen, owner, streams>>, RunsInv', runs' \subseteq runs,
         call' = [c \in Calls |-> call'[c]],
         \A c \in Calls : Wakes(call[c], call'[c]),
         state' = [t \in Tasks |-> state'[t]],
         \A t \in Tasks : \/ state'[t] = state[t]
                          \/ owner[t] # None /\ state'[t] # ABSENT,
         \A t \in Tasks : \/ state'[t] = ABSENT \/ IsSettled(state'[t])
                          \/ \E r \in runs' : r.task = t,
         /\ active' \in [Servers -> [Peers -> SUBSET Tasks]]
         /\ listed' \in [Servers -> SUBSET Peers]
         /\ ListedKnow'
  PROVE  Known'
<1>1. call' \in [Calls -> CallRecord] /\ CallsKnow'
  BY WakingKeeps DEF Known
<1>2. OwnersKnow'
  BY DEF Known, OwnersKnow
<1>3. RunsKnow'
  BY DEF Known, RunsKnow
<1> QED BY <1>1, <1>2, <1>3 DEF Known, Typed

LEMMA ReportKnown ==
  ASSUME Known, NEW r \in runs, Report(r)
  PROVE  Known'
<1>1. /\ UNCHANGED <<gen, owner, runs, call, peers, streams, taken>> /\ r.task \in Tasks
      /\ owner[r.task] # None
  BY ServersAreNumbers DEF Report, Known, RunsInv, AreRuns, RunsKnow
<1>2. PICK new \in {"INPUT_REQUIRED", "WORKING"} : state' = [state EXCEPT ![r.task] = new]
  BY DEF Report
<1>3. \A t \in Tasks : state'[t] = IF t = r.task THEN new ELSE state[t]
  BY <1>2 DEF Known, Typed
<1>4. RunsInv'
  BY <1>1, <1>2, RunsKept, StatesDiffer DEF Known, RunsInv
<1>5. \A t \in Tasks : t = r.task \/ state'[t] = state[t]
  BY <1>3
<1>6. ListedKnow' /\ \A c \in Calls : Wakes(call[c], call'[c])
  BY <1>1 DEF Known, ListedKnow, peers, Wakes
<1>7. \A t \in Tasks : state'[t] = state[t] \/ (owner[t] # None /\ state'[t] # ABSENT)
  BY <1>1, <1>3, KnownStates
<1>8. \A t \in Tasks : \/ state'[t] = ABSENT \/ IsSettled(state'[t])
                       \/ \E q \in runs' : q.task = t
  BY <1>1, <1>5 DEF Known, OwnersKnow
<1>9. state' = [t \in Tasks |-> state'[t]] /\ call' = [c \in Calls |-> call'[c]]
  BY <1>1, <1>2 DEF Known, Typed
<1> QED BY <1>1, <1>4, <1>6, <1>7, <1>8, <1>9, SettlingKnown DEF Known, Typed, peers

\* The requests and the states at the end of a run: one that the run or the
\* waiters' list of its instance holds is woken, and the task has settled.
LEMMA RunEndsFacts ==
  ASSUME Known, NEW r \in runs, RunEnds(r)
  PROVE  /\ r \in taken /\ r.task \in Tasks /\ r.gen \in Nat /\ owner[r.task] \in Servers
         /\ call' = [c \in Calls |-> call'[c]]
         /\ \A c \in Calls : Wakes(call[c], call'[c])
         /\ \A c \in Calls : call'[c].at = "waiting" =>
              /\ call'[c] = call[c]
              /\ call[c].task = r.task => call[c].gen # r.gen
         /\ state' = [t \in Tasks |-> state'[t]] /\ IsSettled(state'[r.task])
         /\ \A t \in Tasks : t # r.task => state'[t] = state[t]
<1>1. r \in taken /\ r.task \in Tasks /\ r.gen \in Nat /\ owner[r.task] \in Servers
  BY DEF Known, RunsInv, AreRuns, RunsKnow
<1> DEFINE Told == [c \in Calls |-> IF call[c].at = "running" /\ call[c].server = owner[r.task]
                                        /\ call[c].gen = r.gen /\ call[c].task = r.task
                                    THEN [call[c] EXCEPT !.at = "woken"] ELSE call[c]]
<1>2. call' = Woken(owner[r.task], r.gen, r.task, Told)
  BY DEF RunEnds
<1>3. \A c \in Calls : \/ Told[c] = call[c]
                       \/ call[c].at = "running" /\ Told[c] = [call[c] EXCEPT !.at = "woken"]
  OBVIOUS
<1>4. \A c \in Calls : [call[c] EXCEPT !.at = "woken"].at = "woken"
  BY DEF Known, Typed, CallRecord
<1> HIDE DEF Told
<1>5. \A c \in Calls : call'[c] = IF Told[c].server = owner[r.task] /\ Told[c].gen = r.gen
                                     /\ Told[c].task = r.task /\ Told[c].at = "waiting"
                                  THEN [Told[c] EXCEPT !.at = "woken"] ELSE Told[c]
  BY <1>2 DEF Woken
<1>6. ASSUME NEW c \in Calls
      PROVE  Wakes(call[c], call'[c]) /\ (call'[c].at = "waiting" =>
               call'[c] = call[c] /\ (call[c].task = r.task => call[c].gen # r.gen))
  <2>1. CASE Told[c] = call[c]
    BY <2>1, <1>4, <1>5 DEF Wakes, Known, CallsKnow, KnowsOf
  <2>2. CASE call[c].at = "running" /\ Told[c] = [call[c] EXCEPT !.at = "woken"]
    <3>1. Told[c].at = "woken"
      BY <2>2, <1>4
    <3>2. call'[c] = Told[c]
      BY <3>1, <1>5
    <3> QED BY <2>2, <3>1, <3>2 DEF Wakes
  <2> QED BY <2>1, <2>2, <1>3
<1>7. PICK new \in Outcomes(state[r.task]) : state' = [state EXCEPT ![r.task] = new]
  BY DEF RunEnds
<1>8. IsSettled(new)
  BY KnownStates DEF Outcomes
<1>9. call' = [c \in Calls |-> call'[c]]
  BY <1>2 DEF Woken
<1> QED BY <1>1, <1>6, <1>7, <1>8, <1>9 DEF Known, Typed

LEMMA DroppedKeeps ==
  ASSUME Known, NEW s \in Servers, NEW t \in Tasks, listed' = listed,
         active' = Dropped(s, t) \/ active' = active
  PROVE  /\ active' \in [Servers -> [Peers -> SUBSET Tasks]]
         /\ listed' \in [Servers -> SUBSET Peers] /\ ListedKnow'
         /\ \A z \in Servers, q \in Peers : active[z][q] \ {t} \subseteq active'[z][q]
<1>1. /\ active \in [Servers -> [Peers -> SUBSET Tasks]]
      /\ listed \in [Servers -> SUBSET Peers] /\ ListedKnow
  BY DEF Known, Typed
<1>2. CASE active' = Dropped(s, t)
  <2>1. \A z \in Servers : active'[z] = IF z = s THEN [p \in Peers |-> active[s][p] \ {t}] ELSE active[z]
    BY <1>1, <1>2 DEF Dropped
  <2>2. active' \in [Servers -> [Peers -> SUBSET Tasks]]
    BY <1>1, <1>2 DEF Dropped
  <2>3. \A z \in Servers, q \in Peers : active'[z][q] = IF z = s THEN active[z][q] \ {t} ELSE active[z][q]
    BY <2>1
  <2>4. ListedKnow'
    BY <1>1, <2>3 DEF ListedKnow
  <2> QED BY <1>1, <2>2, <2>3, <2>4
<1>3. CASE active' = active
  BY <1>1, <1>3 DEF ListedKnow
<1> QED BY <1>2, <1>3

LEMMA RunEndsKnown ==
  ASSUME Known, NEW r \in runs, RunEnds(r)
  PROVE  Known'
<1>1. RunsInv'
  BY RunEndsKeeps DEF Known
<1>2. runs' = runs \ {r} /\ UNCHANGED <<gen, owner, listed, streams>>
  BY DEF RunEnds
<1>3. /\ active' \in [Servers -> [Peers -> SUBSET Tasks]]
      /\ listed' \in [Servers -> SUBSET Peers] /\ ListedKnow'
  BY DroppedKeeps, RunEndsFacts DEF RunEnds
<1>4. \A t \in Tasks : state'[t] = state[t] \/ (owner[t] # None /\ state'[t] # ABSENT)
  BY RunEndsFacts, KnownStates, ServersAreNumbers
<1>5. \A t \in Tasks : \/ state'[t] = ABSENT \/ IsSettled(state'[t])
                       \/ \E q \in runs' : q.task = t
  BY <1>2, RunEndsFacts DEF Known, OwnersKnow
<1> QED BY <1>1, <1>2, <1>3, <1>4, <1>5, RunEndsFacts, SettlingKnown

LEMMA CancelKnown ==
  ASSUME Known, NEW s \in Servers, NEW ids \in SUBSET Tasks, Cancel(s, ids),
         UNCHANGED <<gen, owner, runs, taken, streams>>,
         /\ active' \in [Servers -> [Peers -> SUBSET Tasks]]
         /\ listed' \in [Servers -> SUBSET Peers]
         /\ ListedKnow'
  PROVE  Known'
<1>1. RunsInv'
  BY CancelKeeps, RunsKept DEF Known
<1>2. \A t \in Tasks : \/ state'[t] = state[t]
                       \/ owner[t] = s /\ state'[t] = "CANCELED"
  BY DEF Cancel, Cancelable, Mine
<1>3. \A c \in Calls : Wakes(call[c], call'[c])
  BY DEF Cancel, WokenAll, Wakes
<1>4. \A t \in Tasks : state'[t] = state[t] \/ (owner[t] # None /\ state'[t] # ABSENT)
  BY <1>2, KnownStates, ServersAreNumbers
<1>5. \A t \in Tasks : \/ state'[t] = ABSENT \/ IsSettled(state'[t])
                       \/ \E q \in runs' : q.task = t
  BY <1>2, KnownStates DEF Known, OwnersKnow
<1>6. call' = [c \in Calls |-> call'[c]] /\ state' = [t \in Tasks |-> state'[t]]
  BY DEF Cancel, WokenAll
<1> QED BY <1>1, <1>3, <1>4, <1>5, <1>6, SettlingKnown

LEMMA CloseInboundKnown ==
  ASSUME Known, NEW s \in Servers, NEW p \in Peers, CloseInbound(s, p)
  PROVE  Known'
<1>1. active[s][p] \in SUBSET Tasks
  BY DEF Known, Typed
<1>2. /\ active' \in [Servers -> [Peers -> SUBSET Tasks]]
      /\ listed' \in [Servers -> SUBSET Peers] /\ ListedKnow'
  BY DEF CloseInbound, Known, Typed, ListedKnow
<1> QED BY <1>1, <1>2, CancelKnown DEF CloseInbound

LEMMA EditKnown ==
  ASSUME Known, NEW s \in Servers, Edit(s)
  PROVE  Known'
<1>1. gen' \in [Servers -> Nat] /\ \A z \in Servers : gen[z] <= gen'[z]
  BY DEF Edit, Known, Typed
<1>2. /\ active' \in [Servers -> [Peers -> SUBSET Tasks]]
      /\ listed' \in [Servers -> SUBSET Peers] /\ ListedKnow'
      /\ streams' \in [Servers -> [Tasks -> Nat]]
  BY DEF Edit, Known, Typed, ListedKnow
<1>3. UNCHANGED <<owner, state, runs, call, taken>>
  BY DEF Edit
<1>4. CallsKnow'
  <2> SUFFICES ASSUME NEW c \in Calls PROVE KnowsOf(call[c], owner, gen')
    BY <1>3 DEF CallsKnow
  <2>1. call[c].gen \in Nat
    BY DEF Known, Typed, CallRecord
  <2>2. \A z \in Servers : gen[z] \in Nat /\ gen'[z] \in Nat /\ gen[z] <= gen'[z]
    BY <1>1 DEF Known, Typed
  <2> QED BY <2>1, <2>2 DEF Known, CallsKnow, KnowsOf
<1>5. RunsKnow'
  <2>1. \A z \in Servers : gen[z] \in Nat /\ gen'[z] \in Nat /\ gen[z] <= gen'[z]
    BY <1>1 DEF Known, Typed
  <2> QED BY <2>1, <1>3 DEF Known, RunsKnow
<1>6. RunsInv'
  BY <1>3, RunsKept DEF Known, RunsInv
<1> QED BY <1>1, <1>2, <1>3, <1>4, <1>5, <1>6 DEF Known, Typed, OwnersKnow

\* Every step keeps what is known of requests, tasks, runs and the registries.
LEMMA StepKnown ==
  ASSUME Known, [Next]_vars
  PROVE  Known'
<1>1. CASE UNCHANGED vars
  BY <1>1 DEF vars, peers, Known, RunsInv, Overtaken, AreRuns, TakenTwice, TakenElsewhere, Typed,
     CallsKnow, OwnersKnow, RunsKnow, ListedKnow
<1>2. ASSUME NEW c \in Calls, Request(c) PROVE Known'
  <2>1. CASE Refused(c)
    <3>1. /\ call' = [call EXCEPT ![c] = NoCall]
          /\ UNCHANGED <<gen, owner, state, runs, peers, streams, taken>>
      BY <2>1 DEF Refused
    <3>2. ListedKnow'
      BY <3>1 DEF Known, ListedKnow, peers
    <3> QED BY <3>1, <3>2, CallTurnKnown, NoCallKnows DEF Known, Typed, peers
  <2> QED BY <1>2, <2>1, ArriveKnown, SubscribeKnown, StartsKnown, OverQuotaKnown,
          ReplaysKnown, AnswerKnown
          DEF Request
<1>3. ASSUME NEW r \in runs, Report(r) \/ RunEnds(r) PROVE Known'
  BY <1>3, ReportKnown, RunEndsKnown
<1>4. ASSUME NEW s \in Servers, Control(s) PROVE Known'
  <2>1. ASSUME NEW p \in Peers, Shown(s, p) PROVE Known'
    <3>1. PICK ids \in SUBSET Tasks : Note(s, p, ids)
      BY <2>1 DEF Shown, Mine
    <3>2. UNCHANGED <<gen, owner, state, runs, call, streams, taken>>
      BY <2>1 DEF Shown
    <3>3. RunsInv'
      BY <3>2, RunsKept DEF Known, RunsInv
    <3>4. CallsKnow' /\ OwnersKnow' /\ RunsKnow'
      BY <3>2 DEF Known, CallsKnow, OwnersKnow, RunsKnow
    <3> QED BY <3>1, <3>2, <3>3, <3>4, NoteKeeps DEF Known, Typed
  <2>2. ASSUME NEW p \in Peers, NEW t \in Tasks, CancelTask(s, p, t) PROVE Known'
    BY <2>2, CancelKnown, NoteKeeps DEF CancelTask, Known
  <2>3. ASSUME NEW ids \in SUBSET Tasks, CancelTasks(s, ids) PROVE Known'
    <3>1. UNCHANGED peers /\ ListedKnow'
      BY <2>3 DEF CancelTasks, peers, Known, ListedKnow
    <3> QED BY <2>3, <3>1, CancelKnown DEF CancelTasks, peers, Known, Typed
  <2> QED BY <1>4, <2>1, <2>2, <2>3, CloseInboundKnown, EditKnown DEF Control
<1> QED BY <1>1, <1>2, <1>3, <1>4 DEF Next

\* In every reachable state: runs, requests and registries are of tasks and
\* instances that exist, a task is being run unless it has settled.
THEOREM KnownHolds == Spec => []Known
<1>1. Init => Known
  <2> SUFFICES ASSUME Init PROVE Known
    OBVIOUS
  <2>1. RunsInv
    BY DEF Init, RunsInv, Overtaken, AreRuns
  <2>2. Typed
    BY NoCallKnows DEF Init, Typed
  <2>3. CallsKnow
    BY NoCallKnows DEF Init, CallsKnow
  <2> QED BY <2>1, <2>2, <2>3 DEF Init, Known, OwnersKnow, RunsKnow, ListedKnow
<1>2. Known /\ [Next]_vars => Known'
  BY StepKnown
<1> QED BY <1>1, <1>2, PTL DEF Spec

\* For every value of the constants: owners are of tasks that exist, runs of
\* instances that have been, and who has tasks noted is listed.
THEOREM TypesKept == Spec => []TypeOK
<1>1. Known => TypeOK
  BY ServersAreNumbers DEF Known, TypeOK, OwnersKnow, RunsKnow, CallsKnow, KnowsOf, ListedKnow
<1> QED BY <1>1, KnownHolds, PTL
-----------------------------------------------------------------------------
(* Who waits will hear *)

\* WaitersReached of one request, whose record is x.
ReachedIn(x) ==
  /\ RunsIn(x.task, x.gen) \/ ~IsSettled(state[x.task]) \/ TakenElsewhere(x.task, x.gen)
  /\ x.method \in Streaming /\ x.gen = gen[x.server] /\ ~IsTerminal(state[x.task]) =>
       x.task \in active[x.server][x.peer] \/ TakenTwice(x.task)

Reached == \A c \in Calls : call[c].at = "waiting" => ReachedIn(call[c])

LEMMA ReachedIsInvariant == Reached <=> WaitersReached
BY DEF Reached, ReachedIn, WaitersReached, IsLive

\* Who waits for a task with a run hears from it, or waits in another instance.
LEMMA RunReaches ==
  ASSUME Known, NEW r \in runs, NEW g
  PROVE  RunsIn(r.task, g) \/ TakenElsewhere(r.task, g)
BY DEF Known, RunsInv, AreRuns, RunsIn, TakenElsewhere, Run

\* Steps after which runs and notes are no fewer and no terminal state is left,
\* where only a task with a run settles, but for the requests that begin to wait.
LEMMA GrowthReached ==
  ASSUME Known, Reached, UNCHANGED gen, runs \subseteq runs', taken \subseteq taken',
         \A t \in Tasks : \/ state'[t] = state[t]
                          \/ ~IsTerminal(state[t]),
         \A t \in Tasks : \/ state'[t] = state[t]
                          \/ ~IsSettled(state'[t])
                          \/ \E r \in runs : r.task = t,
         \A z \in Servers, q \in Peers : active[z][q] \subseteq active'[z][q],
         \A c \in Calls : \/ call'[c] = call[c]
                          \/ call'[c].at # "waiting"
                          \/ ReachedIn(call[c])'
  PROVE  Reached'
<1> SUFFICES ASSUME NEW c \in Calls, call'[c] = call[c], call[c].at = "waiting"
             PROVE  ReachedIn(call[c])'
  BY DEF Reached
<1>1. call[c].task \in Tasks /\ call[c].server \in Servers /\ call[c].peer \in Peers
  BY DEF Known, CallsKnow, KnowsOf
<1>2. ReachedIn(call[c])
  BY DEF Reached
<1>3. RunsIn(call[c].task, call[c].gen) => RunsIn(call[c].task, call[c].gen)'
  BY DEF RunsIn
<1>4. TakenElsewhere(call[c].task, call[c].gen) => TakenElsewhere(call[c].task, call[c].gen)'
  BY DEF TakenElsewhere
<1>5. TakenTwice(call[c].task) => TakenTwice(call[c].task)'
  BY DEF TakenTwice, TakenElsewhere
<1>6. (\E r \in runs : r.task = call[c].task) =>
        RunsIn(call[c].task, call[c].gen) \/ TakenElsewhere(call[c].task, call[c].gen)
  BY RunReaches
<1> QED BY <1>1, <1>2, <1>3, <1>4, <1>5, <1>6 DEF ReachedIn

LEMMA StartsReached ==
  ASSUME Known, Reached, NEW c \in Calls, Starts(c)
  PROVE  Reached'
<1>1. PICK t \in Continuable(c) \cup Unused :
        /\ state' = [state EXCEPT ![t] = "WORKING"]
        /\ runs' = runs \cup {Run(t, call[c].gen)}
        /\ taken' = taken \cup {Run(t, call[c].gen)}
        /\ \/ /\ Streams(c, t)
              /\ call' = [call EXCEPT ![c].at = "waiting", ![c].task = t]
           \/ /\ call' = [call EXCEPT ![c].at = "running", ![c].task = t]
              /\ UNCHANGED peers
           \/ /\ NoteFor(c, {t})
              /\ call' = [call EXCEPT ![c] = NoCall]
  BY DEF Starts
<1>2. /\ t \in Tasks /\ ~IsTerminal(state[t]) /\ gen' = gen /\ call[c].at # "idle"
      /\ call[c] \in CallRecord
  BY StatesDiffer DEF Starts, Continuable, Unused, Mine, Known, Typed
<1>3. \A u \in Tasks : state'[u] = IF u = t THEN "WORKING" ELSE state[u]
  BY <1>1 DEF Known, Typed
<1>4. /\ \A z \in Servers, q \in Peers : active[z][q] \subseteq active'[z][q]
      /\ \/ UNCHANGED peers
         \/ IsLive(c) => t \in active'[call[c].server][call[c].peer]
  <2>1. CASE NoteFor(c, {t})
    BY <2>1, <1>2, NoteForKeeps DEF Known
  <2>2. CASE UNCHANGED peers
    BY <2>2 DEF peers
  <2> QED BY <2>1, <2>2, <1>1 DEF Streams
<1>5. ASSUME NEW d \in Calls
      PROVE  \/ call'[d] = call[d]
             \/ call'[d].at # "waiting"
             \/ ReachedIn(call[d])'
  <2>1. CASE d # c
    BY <2>1, <1>1 DEF Known, Typed
  <2>2. CASE /\ d = c /\ Streams(c, t)
             /\ call' = [call EXCEPT ![c].at = "waiting", ![c].task = t]
    <3>1. /\ call'[c].task = t /\ call'[c].gen = call[c].gen
          /\ call'[c].server = call[c].server /\ call'[c].peer = call[c].peer
      BY <2>2, <1>2 DEF Known, Typed, CallRecord
    <3>2. Run(call'[c].task, call'[c].gen) \in runs'
      BY <3>1, <1>1
    <3>3. IsLive(c) => t \in active'[call[c].server][call[c].peer]
      BY <2>2, <1>2, NoteForKeeps DEF Streams, Known
    <3> QED BY <2>2, <3>1, <3>2, <3>3, <1>2 DEF ReachedIn, IsLive, RunsIn
  <2>3. CASE /\ d = c
             /\ \/ call' = [call EXCEPT ![c].at = "running", ![c].task = t]
                \/ call' = [call EXCEPT ![c] = NoCall]
    BY <2>3, <1>2 DEF Known, Typed, CallRecord, NoCall
  <2> QED BY <2>1, <2>2, <2>3, <1>1
<1> QED BY <1>1, <1>2, <1>3, <1>4, <1>5, KnownStates, GrowthReached

\* Steps of requests on tasks that are there: the states and the runs stay.
LEMMA CallTurnReached ==
  ASSUME Known, Reached, UNCHANGED <<gen, state, runs, taken>>, NEW c \in Calls,
         NEW x, call' = [call EXCEPT ![c] = x],
         \A z \in Servers, q \in Peers : active[z][q] \subseteq active'[z][q],
         x = call[c] \/ (x.at = "waiting" =>
           /\ ~IsSettled(state[x.task])
           /\ x.method \in Streaming /\ x.gen = gen[x.server] =>
                x.task \in active'[x.server][x.peer])
  PROVE  Reached'
<1>1. ASSUME NEW d \in Calls
      PROVE  \/ call'[d] = call[d]
             \/ call'[d].at # "waiting"
             \/ ReachedIn(call[d])'
  <2>1. call'[d] = IF d = c THEN x ELSE call[d]
    BY DEF Known, Typed
  <2> QED BY <2>1 DEF ReachedIn
<1> QED BY <1>1, GrowthReached

LEMMA NotesGrow ==
  UNCHANGED peers => \A z \in Servers, q \in Peers : active[z][q] \subseteq active'[z][q]
BY DEF peers

LEMMA ReplaysReached ==
  ASSUME Known, Reached, NEW c \in Calls, Replays(c)
  PROVE  Reached'
<1>1. call[c].at = "gate" /\ UNCHANGED <<gen, owner, state, runs, taken>>
  BY DEF Replays
<1>2. PICK t \in Mine(call[c].server) :
        \/ /\ Streams(c, t)
           /\ call' = [call EXCEPT ![c] = WaitFor(c, t)]
        \/ /\ call[c].method = "send"
           /\ call' = [call EXCEPT ![c] = WaitFor(c, t)]
           /\ UNCHANGED <<peers, streams>>
        \/ /\ NoteFor(c, {t})
           /\ call' = [call EXCEPT ![c] = NoCall]
  BY DEF Replays
<1>3. t \in Tasks
  BY <1>1, WaitForKnows
<1>4. /\ WaitFor(c, t).at = "waiting" => ~IsSettled(state[t])
      /\ WaitFor(c, t).task = t /\ WaitFor(c, t).server = call[c].server
      /\ WaitFor(c, t).gen = call[c].gen /\ WaitFor(c, t).peer = call[c].peer
      /\ WaitFor(c, t).method = call[c].method
  BY DEF WaitFor, Known, Typed, CallRecord
<1>5. CASE Streams(c, t) /\ call' = [call EXCEPT ![c] = WaitFor(c, t)]
  <2>1. /\ \A z \in Servers, q \in Peers : active[z][q] \subseteq active'[z][q]
        /\ IsLive(c) => t \in active'[call[c].server][call[c].peer]
    BY <1>1, <1>3, <1>5, NoteForKeeps DEF Known, Streams
  <2> QED BY <2>1, <1>1, <1>4, <1>5, CallTurnReached DEF IsLive
<1>6. CASE /\ call[c].method = "send" /\ UNCHANGED peers
           /\ call' = [call EXCEPT ![c] = WaitFor(c, t)]
  BY <1>1, <1>4, <1>6, NotesGrow, CallTurnReached DEF Streaming
<1>7. CASE NoteFor(c, {t}) /\ call' = [call EXCEPT ![c] = NoCall]
  <2>1. \A z \in Servers, q \in Peers : active[z][q] \subseteq active'[z][q]
    BY <1>1, <1>3, <1>7, NoteForKeeps DEF Known
  <2> QED BY <2>1, <1>1, <1>7, CallTurnReached DEF NoCall
<1> QED BY <1>2, <1>5, <1>6, <1>7

LEMMA SubscribeReached ==
  ASSUME Known, Reached, NEW c \in Calls, NEW s \in Servers, NEW p \in Peers, NEW t \in Tasks,
         Subscribe(c, s, p, t)
  PROVE  Reached'
<1> DEFINE x == [at |-> IF IsSettled(state[t]) THEN "woken" ELSE "waiting",
                 method |-> "subscribe", server |-> s, gen |-> gen[s], peer |-> p, task |-> t]
<1>1. UNCHANGED <<gen, owner, state, runs, taken>>
  BY DEF Subscribe
<1>2. /\ \A z \in Servers, q \in Peers : active[z][q] \subseteq active'[z][q]
      /\ t \in active'[s][p]
  BY NoteKeeps DEF Known, Subscribe
<1>3. CASE call' = [call EXCEPT ![c] = x]
  <2>1. x.at = "waiting" => ~IsSettled(state[t])
    OBVIOUS
  <2>2. x.task = t /\ x.server = s /\ x.peer = p
    OBVIOUS
  <2> HIDE DEF x
  <2> QED BY <2>1, <2>2, <1>1, <1>2, <1>3, CallTurnReached
<1>4. CASE call' = call
  <2>1. call' = [call EXCEPT ![c] = call[c]]
    BY <1>4 DEF Known, Typed
  <2> QED BY <2>1, <1>1, <1>2, CallTurnReached
<1> QED BY <1>3, <1>4 DEF Subscribe

\* The run that ends wakes those who wait for it; who still waits for the task
\* does so in another instance.
LEMMA RunEndsReached ==
  ASSUME Known, Reached, NEW r \in runs, RunEnds(r)
  PROVE  Reached'
<1>1. /\ runs' = runs \ {r} /\ UNCHANGED <<gen, owner, taken>>
      /\ active' = IF r.gen = gen[owner[r.task]] THEN Dropped(owner[r.task], r.task) ELSE active
  BY DEF RunEnds
<1>2. SUFFICES ASSUME NEW c \in Calls, call'[c].at = "waiting"
               PROVE  ReachedIn(call[c])'
  BY DEF Reached
<1>3. /\ call'[c] = call[c] /\ call[c].at = "waiting" /\ ReachedIn(call[c])
      /\ call[c].task = r.task => call[c].gen # r.gen
  BY <1>2, RunEndsFacts DEF Reached
<1>4. /\ call[c].task \in Tasks /\ call[c].server \in Servers /\ call[c].peer \in Peers
      /\ owner[call[c].task] = call[c].server
  BY <1>3 DEF Known, CallsKnow, KnowsOf
<1>5. (\A u : TakenTwice(u) <=> TakenTwice(u)') /\ \A u, g : TakenElsewhere(u, g) <=> (\E q \in taken' : q.task = u /\ q.gen # g)
  BY <1>1 DEF TakenTwice, TakenElsewhere
<1>6. CASE call[c].task = r.task
  <2>1. TakenElsewhere(r.task, call[c].gen)
    BY <1>3, <1>6, RunEndsFacts DEF TakenElsewhere
  <2>2. ASSUME call[c].gen = gen[call[c].server], ~IsTerminal(state'[r.task]),
               call[c].method \in Streaming
        PROVE  r.task \in active'[call[c].server][call[c].peer] \/ TakenTwice(r.task)
    <3>1. active' = active
      BY <2>2, <1>1, <1>3, <1>4, <1>6
    <3>2. CASE IsTerminal(state[r.task])
      <4>1. state[r.task] # "CANCELED"
        BY <2>2, <3>2, StatesDiffer, RunEndsFacts DEF RunEnds, Outcomes, Known, Typed
      <4> QED BY <4>1, <3>2 DEF Known, RunsInv, Overtaken
    <3>3. CASE ~IsTerminal(state[r.task])
      BY <2>2, <3>1, <3>3, <1>3, <1>6 DEF ReachedIn
    <3> QED BY <3>2, <3>3
  <2> QED BY <2>1, <2>2, <1>1, <1>3, <1>5, <1>6 DEF ReachedIn, TakenElsewhere
<1>7. CASE call[c].task # r.task
  <2>1. state'[call[c].task] = state[call[c].task]
    BY <1>4, <1>7, RunEndsFacts
  <2>2. active[call[c].server][call[c].peer] \ {r.task} \subseteq active'[call[c].server][call[c].peer]
    <3>1. owner[r.task] \in Servers /\ r.task \in Tasks /\ listed' = listed
      BY RunEndsFacts DEF RunEnds
    <3>2. \A z \in Servers, q \in Peers : active[z][q] \ {r.task} \subseteq active'[z][q]
      BY <3>1, <1>1, DroppedKeeps
    <3> QED BY <3>2, <1>4
  <2>3. RunsIn(call[c].task, call[c].gen) => Run(call[c].task, call[c].gen) \in runs'
    BY <1>1, <1>7 DEF RunsIn, Run
  <2> QED BY <2>1, <2>2, <2>3, <1>1, <1>3, <1>5, <1>7 DEF ReachedIn, RunsIn, TakenElsewhere
<1> QED BY <1>6, <1>7

\* A task that fails for the quota: those who wait for it in the instance are
\* woken, and the others know that another instance took it.
LEMMA OverQuotaReached ==
  ASSUME Known, Reached, NEW c \in Calls, OverQuota(c)
  PROVE  Reached'
<1>1. /\ UNCHANGED <<gen, runs>> /\ call[c].server \in Servers /\ call[c].peer \in Peers
      /\ call[c].gen \in Nat
  BY OverQuotaFacts
<1>2. PICK t \in Tasks : /\ owner[t] \in {None, call[c].server} /\ FailsForQuota(c, t)
  BY OverQuotaFacts
<1>3. \A u \in Tasks : state'[u] = IF u = t THEN "FAILED" ELSE state[u]
  BY <1>2 DEF FailsForQuota, Known, Typed
<1>4. taken' = taken \cup {Run(t, call[c].gen)}
  BY <1>2 DEF FailsForQuota
<1>5. SUFFICES ASSUME NEW d \in Calls, call'[d].at = "waiting"
               PROVE  ReachedIn(call[d])'
  BY DEF Reached
<1>6. d # c
  <2>1. call'[c].at # "waiting"
    BY <1>2 DEF FailsForQuota, FailedAnswer, NoCall, Known, Typed, CallRecord
  <2> QED BY <1>5, <2>1
<1>7. /\ call'[d] = call[d] /\ call[d].at = "waiting"
      /\ ~(call[d].server = call[c].server /\ call[d].gen = call[c].gen /\ call[d].task = t)
  BY <1>2, <1>5, <1>6 DEF FailsForQuota
<1>8. /\ call[d].task \in Tasks /\ call[d].server \in Servers /\ call[d].peer \in Peers
      /\ owner[call[d].task] = call[d].server /\ ReachedIn(call[d])
  BY <1>7 DEF Known, CallsKnow, KnowsOf, Reached
<1>9. CASE call[d].task = t
  <2>1. call[d].gen # call[c].gen
    BY <1>2, <1>7, <1>8, <1>9, ServersAreNumbers
  <2>2. \E q \in taken' : q.task = t /\ q.gen # call[d].gen
    <3>1. /\ Run(t, call[c].gen) \in taken' /\ Run(t, call[c].gen).task = t
          /\ Run(t, call[c].gen).gen = call[c].gen
      BY <1>4 DEF Run
    <3> QED BY <2>1, <3>1
  <2>3. IsTerminal(state'[t])
    BY <1>3 DEF IsTerminal, TERMINAL_STATES
  <2> QED BY <1>7, <1>9, <2>2, <2>3 DEF ReachedIn, TakenElsewhere
<1>10. CASE call[d].task # t
  <2>1. state'[call[d].task] = state[call[d].task]
    BY <1>3, <1>8, <1>10
  <2>2. active[call[d].server][call[d].peer] \ {t} \subseteq active'[call[d].server][call[d].peer]
    BY <1>1, <1>2, <1>8, NoteFailedKeeps DEF Known, FailsForQuota
  <2>3. /\ RunsIn(call[d].task, call[d].gen) => Run(call[d].task, call[d].gen) \in runs'
        /\ \A u : TakenTwice(u) => TakenTwice(u)'
    BY <1>1, <1>4 DEF RunsIn, TakenTwice, TakenElsewhere
  <2>4. TakenElsewhere(call[d].task, call[d].gen) =>
          \E q \in taken' : q.task = call[d].task /\ q.gen # call[d].gen
    BY <1>4 DEF TakenElsewhere
  <2> QED BY <1>1, <1>7, <1>8, <1>10, <2>1, <2>2, <2>3, <2>4
          DEF ReachedIn, RunsIn, TakenElsewhere
<1> QED BY <1>7, <1>9, <1>10

\* To cancel is to wake those who wait in the live instance; those elsewhere had a
\* run of their own, or another instance runs the task.
LEMMA CancelReached ==
  ASSUME Known, Reached, NEW s \in Servers, NEW ids \in SUBSET Tasks, Cancel(s, ids),
         UNCHANGED <<gen, runs, taken>>,
         \A z \in Servers, q \in Peers : \A t \in active[z][q] :
           t \in active'[z][q] \/ (z = s /\ t \in ids)
  PROVE  Reached'
<1>1. SUFFICES ASSUME NEW c \in Calls, call'[c].at = "waiting"
               PROVE  ReachedIn(call[c])'
  BY DEF Reached
<1>2. /\ call'[c] = call[c] /\ call[c].at = "waiting" /\ ReachedIn(call[c])
      /\ ~(call[c].server = s /\ IsLive(c) /\ call[c].task \in Cancelable(s, ids))
  BY <1>1 DEF Cancel, WokenAll, Known, Typed, CallRecord, Reached
<1>3. /\ call[c].task \in Tasks /\ call[c].server \in Servers /\ call[c].peer \in Peers
      /\ owner[call[c].task] = call[c].server /\ state[call[c].task] # ABSENT
  BY <1>2, ServersAreNumbers DEF Known, CallsKnow, KnowsOf, OwnersKnow
<1> DEFINE t == call[c].task
<1>4. RunsIn(t, call[c].gen) \/ TakenElsewhere(t, call[c].gen) \/ state'[t] = state[t]
  <2>1. CASE IsSettled(state[t])
    BY <2>1, <1>2 DEF ReachedIn
  <2>2. CASE ~IsSettled(state[t])
    BY <2>2, <1>3, RunReaches DEF Known, OwnersKnow
  <2> QED BY <2>1, <2>2
<1>5. state'[t] = state[t] \/ IsTerminal(state'[t])
  BY <1>3, StatesDiffer DEF Cancel
<1>6. t \in active[call[c].server][call[c].peer] =>
        t \in active'[call[c].server][call[c].peer] \/ ~IsLive(c) \/ IsTerminal(state'[t])
  <2>1. CASE t \in active'[call[c].server][call[c].peer]
    BY <2>1
  <2>2. CASE call[c].server = s /\ t \in ids
    BY <2>2, <1>2, <1>3, <1>5 DEF Cancelable, Mine, Cancel
  <2> QED BY <2>1, <2>2, <1>3
<1>7. (TakenTwice(t) <=> TakenTwice(t)') /\ (RunsIn(t, call[c].gen) => Run(t, call[c].gen) \in runs')
      /\ (TakenElsewhere(t, call[c].gen) => \E q \in taken' : q.task = t /\ q.gen # call[c].gen)
  BY <1>2 DEF TakenTwice, TakenElsewhere, RunsIn
<1> QED BY <1>2, <1>4, <1>5, <1>6, <1>7 DEF ReachedIn, RunsIn, TakenElsewhere, IsLive

\* An edit leaves nobody in the live instance of the server.
LEMMA EditReached ==
  ASSUME Known, Reached, NEW s \in Servers, Edit(s)
  PROVE  Reached'
<1>1. /\ gen' = [gen EXCEPT ![s] = @ + 1] /\ UNCHANGED <<owner, state, runs, call, taken>>
      /\ \A z \in Servers : z # s => active'[z] = active[z]
  BY DEF Edit, Known, Typed
<1>2. SUFFICES ASSUME NEW c \in Calls, call[c].at = "waiting" PROVE ReachedIn(call[c])'
  BY <1>1 DEF Reached
<1>3. /\ call[c].server \in Servers /\ call[c].gen \in Nat /\ gen[s] \in Nat
      /\ call[c].gen <= gen[call[c].server] /\ ReachedIn(call[c])
  BY <1>2 DEF Known, CallsKnow, KnowsOf, Reached, Typed, CallRecord
<1>4. call[c].gen = gen'[call[c].server] =>
        gen'[call[c].server] = gen[call[c].server] /\ call[c].server # s
  BY <1>1, <1>3 DEF Known, Typed
<1> QED BY <1>1, <1>3, <1>4 DEF ReachedIn, RunsIn, TakenElsewhere, TakenTwice

LEMMA StepReached ==
  ASSUME Known, Reached, [Next]_vars
  PROVE  Reached'
<1>1. CASE UNCHANGED vars
  BY <1>1 DEF vars, peers, Reached, ReachedIn, RunsIn, TakenElsewhere, TakenTwice
<1>2. ASSUME NEW c \in Calls, Request(c) PROVE Reached'
  <2>1. ASSUME call' = [call EXCEPT ![c] = NoCall], UNCHANGED <<gen, state, runs, taken>>,
               \A z \in Servers, q \in Peers : active[z][q] \subseteq active'[z][q]
        PROVE  Reached'
    BY <2>1, CallTurnReached DEF NoCall
  <2>2. CASE Refused(c)
    BY <2>1, <2>2, NotesGrow DEF Refused
  <2>3. CASE Answer(c)
    <3>1. call[c].at = "woken" /\ call[c].task \in Tasks
      BY <2>3 DEF Answer, Known, CallsKnow, KnowsOf
    <3>2. \A z \in Servers, q \in Peers : active[z][q] \subseteq active'[z][q]
      BY <2>3, <3>1, NotesGrow, NoteForKeeps DEF Answer, Known
    <3> QED BY <2>1, <2>3, <3>2 DEF Answer
  <2>4. ASSUME NEW s \in Servers, NEW p \in Peers, NEW method, Arrive(c, s, p, method)
        PROVE  Reached'
    BY <2>4, NotesGrow, CallTurnReached DEF Arrive
  <2> QED BY <1>2, <2>2, <2>3, <2>4, SubscribeReached, StartsReached, OverQuotaReached,
          ReplaysReached DEF Request
<1>3. ASSUME NEW r \in runs, Report(r) PROVE Reached'
  <2>1. r.task \in Tasks /\ \A t \in Tasks : t # r.task => state'[t] = state[t]
    BY <1>3 DEF Report, Known, Typed, RunsInv, AreRuns
  <2> QED BY <1>3, <2>1, NotesGrow, GrowthReached DEF Report
<1>4. ASSUME NEW s \in Servers, Control(s) PROVE Reached'
  <2>1. ASSUME NEW p \in Peers, Shown(s, p) PROVE Reached'
    <3>1. \A z \in Servers, q \in Peers : active[z][q] \subseteq active'[z][q]
      BY <2>1, NoteKeeps DEF Shown, Known, Mine
    <3> QED BY <2>1, <3>1, GrowthReached DEF Shown
  <2>2. ASSUME NEW p \in Peers, NEW t \in Tasks, CancelTask(s, p, t) PROVE Reached'
    <3>1. \A z \in Servers, q \in Peers : active[z][q] \subseteq active'[z][q]
      BY <2>2, NoteKeeps DEF CancelTask, Known
    <3> QED BY <2>2, <3>1, CancelReached DEF CancelTask
  <2>3. ASSUME NEW ids \in SUBSET Tasks, CancelTasks(s, ids) PROVE Reached'
    BY <2>3, NotesGrow, CancelReached DEF CancelTasks
  <2>4. ASSUME NEW p \in Peers, CloseInbound(s, p) PROVE Reached'
    <3>1. active[s][p] \in SUBSET Tasks
      BY DEF Known, Typed
    <3>2. \A z \in Servers, q \in Peers : \A t \in active[z][q] :
            t \in active'[z][q] \/ (z = s /\ t \in active[s][p])
      BY <2>4 DEF CloseInbound, Known, Typed
    <3> QED BY <2>4, <3>1, <3>2, CancelReached DEF CloseInbound
  <2> QED BY <1>4, <2>1, <2>2, <2>3, <2>4, EditReached DEF Control
<1> QED BY <1>1, <1>2, <1>3, <1>4, RunEndsReached DEF Next

\* For any number of servers, edits and requests: whoever waits has a run that
\* will wake it or a task that has not settled, unless another instance took the
\* task; and closing the peer of a live stream cancels its task.
THEOREM WaitersWillHear == Spec => []WaitersReached
<1>1. Init => Reached
  BY DEF Init, Reached, NoCall
<1>2. Known /\ Reached /\ [Next]_vars => Reached'
  BY StepReached
<1>3. Reached <=> WaitersReached
  BY ReachedIsInvariant
<1> QED BY <1>1, <1>2, <1>3, KnownHolds, PTL DEF Spec
-----------------------------------------------------------------------------
(* The streams that are counted *)

\* The request whose record is x has a stream of the task open.
HasOpen(x, s, t) ==
  x.at \in {"waiting", "woken"} /\ x.method \in Streaming /\ x.server = s /\ x.task = t

OpenStreams(s, t) == {c \in Calls : HasOpen(call[c], s, t) /\ IsLive(c)}

\* What makes it inductive: no count is of an infinite set, whatever the slots.
Counted ==
  \A s \in Servers, t \in Tasks :
    IsFiniteSet(OpenStreams(s, t)) /\ streams[s][t] = Cardinality(OpenStreams(s, t))

LEMMA CountedIsInvariant == Counted => StreamsCounted
<1> SUFFICES ASSUME Counted, NEW s \in Servers, NEW t \in Tasks
             PROVE  streams[s][t] = Cardinality({c \in Calls :
                      /\ call[c].at \in {"waiting", "woken"} /\ call[c].method \in Streaming
                      /\ call[c].server = s /\ call[c].task = t /\ IsLive(c)})
  BY DEF StreamsCounted
<1>1. OpenStreams(s, t) = {c \in Calls :
                      /\ call[c].at \in {"waiting", "woken"} /\ call[c].method \in Streaming
                      /\ call[c].server = s /\ call[c].task = t /\ IsLive(c)}
  BY DEF OpenStreams, HasOpen
<1> QED BY <1>1 DEF Counted

\* Steps that leave every stream open that is and open none.
LEMMA SameStreams ==
  ASSUME Known, Counted, UNCHANGED <<gen, streams>>,
         \A c \in Calls, s \in Servers, t \in Tasks :
           /\ HasOpen(call'[c], s, t) <=> HasOpen(call[c], s, t)
           /\ HasOpen(call[c], s, t) => call'[c].gen = call[c].gen
  PROVE  Counted'
<1> SUFFICES ASSUME NEW s \in Servers, NEW t \in Tasks
             PROVE  OpenStreams(s, t)' = OpenStreams(s, t)
  BY DEF Counted
<1> QED BY DEF OpenStreams, HasOpen, IsLive

\* A waiting request that is woken has its stream still open.
LEMMA WakingOpen ==
  ASSUME Known, NEW c \in Calls, NEW y, Wakes(call[c], y), NEW s, NEW t
  PROVE  /\ HasOpen(y, s, t) <=> HasOpen(call[c], s, t)
         /\ HasOpen(call[c], s, t) => y.gen = call[c].gen
<1>1. CASE y = call[c]
  BY <1>1
<1>2. CASE /\ call[c].at \in {"waiting", "running"}
           /\ y = [call[c] EXCEPT !.at = "woken"]
  <2>1. /\ y.at = "woken" /\ y.method = call[c].method
        /\ y.server = call[c].server /\ y.gen = call[c].gen
        /\ y.task = call[c].task
    BY <1>2 DEF Known, Typed, CallRecord
  <2>2. call[c].at = "running" => call[c].method \notin Streaming
    BY DEF Known, CallsKnow, KnowsOf
  <2> QED BY <1>2, <2>1, <2>2 DEF HasOpen
<1> QED BY <1>1, <1>2 DEF Wakes

LEMMA WakingStreams ==
  ASSUME Known, Counted, UNCHANGED <<gen, streams>>,
         \A c \in Calls : Wakes(call[c], call'[c])
  PROVE  Counted'
BY WakingOpen, SameStreams

\* Steps of one request that opens no stream and had none open in the live instance.
LEMMA QuietCall ==
  ASSUME Known, Counted, UNCHANGED <<gen, streams>>, NEW c \in Calls, NEW x,
         call' = [call EXCEPT ![c] = x],
         \A s \in Servers, t \in Tasks :
           /\ HasOpen(call[c], s, t) => call[c].gen # gen[s]
           /\ HasOpen(x, s, t) => x.gen # gen[s]
  PROVE  Counted'
<1> SUFFICES ASSUME NEW s \in Servers, NEW t \in Tasks
             PROVE  OpenStreams(s, t)' = OpenStreams(s, t)
  BY DEF Counted
<1>1. \A d \in Calls : call'[d] = IF d = c THEN x ELSE call[d]
  BY DEF Known, Typed
<1>2. ASSUME NEW d \in Calls
      PROVE  HasOpen(call'[d], s, t) /\ IsLive(d)' <=> HasOpen(call[d], s, t) /\ IsLive(d)
  BY <1>1 DEF IsLive, HasOpen
<1> QED BY <1>2 DEF OpenStreams

\* A request opens a stream in the live instance, which counts it.
LEMMA OpeningCall ==
  ASSUME Known, Counted, UNCHANGED gen, NEW c \in Calls, NEW x,
         call' = [call EXCEPT ![c] = x], NEW s \in Servers, NEW t \in Tasks,
         HasOpen(x, s, t), x.gen = gen[s], call[c].at \in {"idle", "gate"},
         StreamOpens(s, t)
  PROVE  Counted'
<1>1. \A d \in Calls : call'[d] = IF d = c THEN x ELSE call[d]
  BY DEF Known, Typed
<1>2. \A z \in Servers, u \in Tasks :
        streams'[z][u] = IF z = s /\ u = t THEN streams[s][t] + 1 ELSE streams[z][u]
  BY DEF StreamOpens, Known, Typed
<1>3. /\ OpenStreams(s, t)' = OpenStreams(s, t) \cup {c}
      /\ c \notin OpenStreams(s, t)
  BY <1>1 DEF OpenStreams, HasOpen, IsLive
<1>4. ASSUME NEW z \in Servers, NEW u \in Tasks, z # s \/ u # t
      PROVE  OpenStreams(z, u)' = OpenStreams(z, u)
  BY <1>1, <1>4 DEF OpenStreams, HasOpen, IsLive
<1>5. /\ IsFiniteSet(OpenStreams(s, t)')
      /\ Cardinality(OpenStreams(s, t)') = Cardinality(OpenStreams(s, t)) + 1
  BY <1>3, FS_AddElement DEF Counted
<1> QED BY <1>2, <1>4, <1>5 DEF Counted

\* A stream of the live instance ends: there was one to count down.
LEMMA ClosingCall ==
  ASSUME Known, Counted, UNCHANGED gen, NEW c \in Calls, call' = [call EXCEPT ![c] = NoCall],
         NEW s \in Servers, NEW t \in Tasks, HasOpen(call[c], s, t), IsLive(c),
         StreamCloses(s, t)
  PROVE  Counted'
<1>1. \A d \in Calls : call'[d] = IF d = c THEN NoCall ELSE call[d]
  BY DEF Known, Typed
<1>2. \A z \in Servers, u \in Tasks : ~HasOpen(NoCall, z, u)
  BY DEF HasOpen, NoCall
<1>3. /\ OpenStreams(s, t)' = OpenStreams(s, t) \ {c}
      /\ c \in OpenStreams(s, t)
  BY <1>1, <1>2 DEF OpenStreams, IsLive
<1>4. ASSUME NEW z \in Servers, NEW u \in Tasks, z # s \/ u # t
      PROVE  OpenStreams(z, u)' = OpenStreams(z, u)
  BY <1>1, <1>2, <1>4 DEF OpenStreams, HasOpen, IsLive
<1>5. /\ IsFiniteSet(OpenStreams(s, t)')
      /\ Cardinality(OpenStreams(s, t)') = Cardinality(OpenStreams(s, t)) - 1
  BY <1>3, FS_RemoveElement DEF Counted
<1>6. /\ Cardinality(OpenStreams(s, t)) \in Nat /\ Cardinality(OpenStreams(s, t)') \in Nat
      /\ streams[s][t] = Cardinality(OpenStreams(s, t))
  BY <1>5, FS_CardinalityType DEF Counted
<1>7. streams'[s][t] = IF streams[s][t] <= 1 THEN 0 ELSE streams[s][t] - 1
  BY DEF StreamCloses, Known, Typed
<1>8. streams'[s][t] = Cardinality(OpenStreams(s, t)')
  BY <1>5, <1>6, <1>7
<1>9. \A z \in Servers, u \in Tasks : z # s \/ u # t => streams'[z][u] = streams[z][u]
  BY DEF StreamCloses, Known, Typed
<1> QED BY <1>4, <1>5, <1>8, <1>9 DEF Counted

LEMMA ClosedSlot ==
  \A s \in Servers, t \in Tasks : ~HasOpen(NoCall, s, t)
BY DEF HasOpen, NoCall

\* A request that has its task: a stream is open from now on.
LEMMA StreamsCount ==
  ASSUME Known, Counted, UNCHANGED gen, NEW c \in Calls, call[c].at = "gate",
         NEW t \in Tasks, NEW x, call' = [call EXCEPT ![c] = x],
         x.at \in {"waiting", "woken"}, x.method \in Streaming,
         x.server = call[c].server, x.gen = call[c].gen, x.task = t, Streams(c, t)
  PROVE  Counted'
<1>1. call[c].server \in Servers /\ HasOpen(x, call[c].server, t)
  BY DEF Known, CallsKnow, KnowsOf, HasOpen
<1>2. CASE IsLive(c)
  BY <1>1, <1>2, OpeningCall DEF Streams, IsLive
<1>3. CASE ~IsLive(c)
  <2>1. \A z \in Servers, u \in Tasks :
          /\ HasOpen(call[c], z, u) => call[c].gen # gen[z]
          /\ HasOpen(x, z, u) => x.gen # gen[z]
    BY <1>3 DEF HasOpen, IsLive
  <2>2. UNCHANGED <<gen, streams>>
    BY <1>3 DEF Streams
  <2> QED BY <2>1, <2>2, QuietCall
<1> QED BY <1>2, <1>3

LEMMA StartsCounted ==
  ASSUME Known, Counted, NEW c \in Calls, Starts(c)
  PROVE  Counted'
<1>1. /\ call[c].at = "gate" /\ gen' = gen /\ call[c] \in CallRecord
      /\ \A z \in Servers, u \in Tasks : ~HasOpen(call[c], z, u)
  BY DEF Starts, Known, Typed, HasOpen
<1>2. PICK t \in Tasks :
        \/ /\ call[c].method = "stream"
           /\ Streams(c, t)
           /\ call' = [call EXCEPT ![c].at = "waiting", ![c].task = t]
        \/ /\ call' = [call EXCEPT ![c].at = "running", ![c].task = t]
           /\ UNCHANGED streams
        \/ /\ call' = [call EXCEPT ![c] = NoCall]
           /\ UNCHANGED streams
  BY DEF Starts, Continuable, Unused, Mine
<1>3. CASE /\ call[c].method = "stream"
           /\ Streams(c, t)
           /\ call' = [call EXCEPT ![c].at = "waiting", ![c].task = t]
  <2> DEFINE x == [call[c] EXCEPT !.at = "waiting", !.task = t]
  <2>1. call' = [call EXCEPT ![c] = x]
    BY <1>3 DEF Known, Typed
  <2>2. /\ x.at = "waiting" /\ x.method \in Streaming /\ x.server = call[c].server
        /\ x.gen = call[c].gen /\ x.task = t
    BY <1>1, <1>3 DEF CallRecord, Streaming
  <2> HIDE DEF x
  <2> QED BY <1>1, <1>3, <2>1, <2>2, StreamsCount
<1>4. CASE /\ call' = [call EXCEPT ![c].at = "running", ![c].task = t]
           /\ UNCHANGED streams
  <2> DEFINE x == [call[c] EXCEPT !.at = "running", !.task = t]
  <2>1. call' = [call EXCEPT ![c] = x]
    BY <1>4 DEF Known, Typed
  <2>2. x.at = "running"
    BY <1>1 DEF CallRecord
  <2> HIDE DEF x
  <2>3. \A z \in Servers, u \in Tasks : ~HasOpen(x, z, u)
    BY <2>2 DEF HasOpen
  <2> QED BY <1>1, <1>4, <2>1, <2>3, QuietCall
<1>5. CASE call' = [call EXCEPT ![c] = NoCall] /\ UNCHANGED streams
  BY <1>1, <1>5, ClosedSlot, QuietCall
<1> QED BY <1>2, <1>3, <1>4, <1>5

\* The requests of a task that fails for the quota keep their streams open, and
\* the one that fails it opens one.
LEMMA OverQuotaCounted ==
  ASSUME Known, Counted, NEW c \in Calls, OverQuota(c)
  PROVE  Counted'
<1>1. /\ call[c].at = "gate" /\ UNCHANGED <<gen, runs>> /\ call[c] \in CallRecord
      /\ call[c].server \in Servers
  BY OverQuotaFacts
<1>2. PICK t \in Tasks : FailsForQuota(c, t)
  BY OverQuotaFacts
<1>3. ASSUME NEW d \in Calls, d # c, NEW s \in Servers, NEW u \in Tasks
      PROVE  /\ HasOpen(call'[d], s, u) <=> HasOpen(call[d], s, u)
             /\ HasOpen(call[d], s, u) => call'[d].gen = call[d].gen
  BY <1>2, <1>3, WakingOpen DEF FailsForQuota
<1>4. ASSUME NEW d \in Calls, d # c, NEW s \in Servers, NEW u \in Tasks
      PROVE  HasOpen(call'[d], s, u) /\ call'[d].gen = gen'[s]
               <=> HasOpen(call[d], s, u) /\ call[d].gen = gen[s]
  BY <1>1, <1>3, <1>4
<1> DEFINE Opens == call[c].method = "stream" /\ IsLive(c)
<1>5. \A s \in Servers, u \in Tasks :
        /\ ~HasOpen(call[c], s, u)
        /\ HasOpen(call'[c], s, u) /\ call'[c].gen = gen'[s]
             <=> Opens /\ s = call[c].server /\ u = t
  <2>1. call'[c] = FailedAnswer(call[c], t)
    BY <1>2 DEF FailsForQuota
  <2>2. CASE call[c].method = "sendImmediately"
    BY <1>1, <2>1, <2>2, ClosedSlot DEF FailedAnswer, HasOpen
  <2>3. CASE call[c].method # "sendImmediately"
    <3>1. /\ call'[c].at = "woken" /\ call'[c].method = call[c].method
          /\ call'[c].server = call[c].server /\ call'[c].gen = call[c].gen
          /\ call'[c].task = t
      BY <1>1, <2>1, <2>3 DEF FailedAnswer, CallRecord
    <3>2. call[c].method # "subscribe"
      BY <1>1 DEF Known, CallsKnow, KnowsOf
    <3> QED BY <1>1, <2>3, <3>1, <3>2 DEF HasOpen, IsLive, Streaming
  <2> QED BY <2>2, <2>3
<1>6. ASSUME NEW s \in Servers, NEW u \in Tasks, ~(Opens /\ s = call[c].server /\ u = t)
      PROVE  OpenStreams(s, u)' = OpenStreams(s, u) /\ streams'[s][u] = streams[s][u]
  <2>1. streams'[s][u] = streams[s][u]
    BY <1>1, <1>2, <1>6 DEF FailsForQuota, StreamOpens, Known, Typed
  <2> QED BY <1>4, <1>5, <1>6, <2>1 DEF OpenStreams, HasOpen, IsLive
<1>7. ASSUME Opens, NEW s, s = call[c].server
      PROVE  /\ IsFiniteSet(OpenStreams(s, t)')
             /\ streams'[s][t] = Cardinality(OpenStreams(s, t)')
  <2>1. OpenStreams(s, t)' = OpenStreams(s, t) \cup {c} /\ c \notin OpenStreams(s, t)
    BY <1>1, <1>4, <1>5, <1>7 DEF OpenStreams, HasOpen, IsLive
  <2>2. streams'[s][t] = streams[s][t] + 1
    BY <1>1, <1>2, <1>7 DEF FailsForQuota, StreamOpens, Known, Typed
  <2>3. IsFiniteSet(OpenStreams(s, t)) /\ streams[s][t] = Cardinality(OpenStreams(s, t))
    BY <1>1, <1>7 DEF Counted
  <2>4. /\ IsFiniteSet(OpenStreams(s, t)')
        /\ Cardinality(OpenStreams(s, t)') = Cardinality(OpenStreams(s, t)) + 1
    BY <2>1, <2>3, FS_AddElement
  <2> QED BY <2>2, <2>3, <2>4
<1> HIDE DEF Opens
<1> QED BY <1>6, <1>7 DEF Counted

LEMMA ReplaysCounted ==
  ASSUME Known, Counted, NEW c \in Calls, Replays(c)
  PROVE  Counted'
<1>1. /\ call[c].at = "gate" /\ gen' = gen /\ call[c] \in CallRecord
      /\ \A z \in Servers, u \in Tasks : ~HasOpen(call[c], z, u)
  BY DEF Replays, Known, Typed, HasOpen
<1>2. PICK t \in Mine(call[c].server) :
        \/ /\ call[c].method = "stream"
           /\ Streams(c, t)
           /\ call' = [call EXCEPT ![c] = WaitFor(c, t)]
        \/ /\ call[c].method = "send"
           /\ call' = [call EXCEPT ![c] = WaitFor(c, t)]
           /\ UNCHANGED streams
        \/ /\ call' = [call EXCEPT ![c] = NoCall]
           /\ UNCHANGED streams
  BY DEF Replays
<1>3. /\ t \in Tasks /\ WaitFor(c, t).at \in {"waiting", "woken"}
      /\ WaitFor(c, t).method = call[c].method /\ WaitFor(c, t).server = call[c].server
      /\ WaitFor(c, t).gen = call[c].gen /\ WaitFor(c, t).task = t
  BY <1>1 DEF WaitFor, Mine, CallRecord
<1>4. CASE /\ call[c].method = "stream"
           /\ Streams(c, t)
           /\ call' = [call EXCEPT ![c] = WaitFor(c, t)]
  BY <1>1, <1>3, <1>4, StreamsCount DEF Streaming
<1>5. CASE /\ call[c].method = "send"
           /\ call' = [call EXCEPT ![c] = WaitFor(c, t)]
           /\ UNCHANGED streams
  <2>1. \A z \in Servers, u \in Tasks : ~HasOpen(WaitFor(c, t), z, u)
    BY <1>3, <1>5 DEF HasOpen, Streaming
  <2> QED BY <1>1, <1>5, <2>1, QuietCall
<1>6. CASE call' = [call EXCEPT ![c] = NoCall] /\ UNCHANGED streams
  BY <1>1, <1>6, ClosedSlot, QuietCall
<1> QED BY <1>2, <1>4, <1>5, <1>6

LEMMA SubscribeCounted ==
  ASSUME Known, Counted, NEW c \in Calls, NEW s \in Servers, NEW p \in Peers, NEW t \in Tasks,
         Subscribe(c, s, p, t)
  PROVE  Counted'
<1> DEFINE x == [at |-> IF IsSettled(state[t]) THEN "woken" ELSE "waiting",
                 method |-> "subscribe", server |-> s, gen |-> gen[s], peer |-> p, task |-> t]
<1>1. gen' = gen /\ call[c] = NoCall
  BY DEF Subscribe
<1>2. CASE call' = [call EXCEPT ![c] = x] /\ StreamOpens(s, t)
  <2>1. HasOpen(x, s, t) /\ x.gen = gen[s]
    BY DEF HasOpen, Streaming
  <2>2. call[c].at = "idle"
    BY <1>1 DEF NoCall
  <2> HIDE DEF x
  <2> QED BY <1>1, <1>2, <2>1, <2>2, OpeningCall
<1>3. CASE UNCHANGED <<call, streams>>
  BY <1>1, <1>3, SameStreams
<1> QED BY <1>2, <1>3 DEF Subscribe

LEMMA AnswerCounted ==
  ASSUME Known, Counted, NEW c \in Calls, Answer(c)
  PROVE  Counted'
<1>1. /\ call[c].at = "woken" /\ call' = [call EXCEPT ![c] = NoCall] /\ gen' = gen
      /\ call[c].server \in Servers /\ call[c].task \in Tasks
  BY DEF Answer, Known, CallsKnow, KnowsOf
<1>2. CASE call[c].method \in Streaming /\ IsLive(c)
  <2>1. HasOpen(call[c], call[c].server, call[c].task)
    BY <1>1, <1>2 DEF HasOpen
  <2> QED BY <1>1, <1>2, <2>1, ClosingCall DEF Answer
<1>3. CASE ~(call[c].method \in Streaming /\ IsLive(c))
  <2>1. UNCHANGED streams
    BY <1>3 DEF Answer
  <2>2. \A z \in Servers, u \in Tasks : HasOpen(call[c], z, u) => call[c].gen # gen[z]
    BY <1>3 DEF HasOpen, IsLive
  <2> QED BY <1>1, <2>1, <2>2, ClosedSlot, QuietCall
<1> QED BY <1>2, <1>3

\* The next instance has no stream, and those of the last one are not its own.
LEMMA EditCounted ==
  ASSUME Known, Counted, NEW s \in Servers, Edit(s)
  PROVE  Counted'
<1>1. /\ gen' = [gen EXCEPT ![s] = @ + 1] /\ call' = call
      /\ \A z \in Servers, u \in Tasks : streams'[z][u] = IF z = s THEN 0 ELSE streams[z][u]
  BY DEF Edit, Known, Typed
<1>2. SUFFICES ASSUME NEW z \in Servers, NEW t \in Tasks
               PROVE  /\ IsFiniteSet(OpenStreams(z, t)')
                      /\ streams'[z][t] = Cardinality(OpenStreams(z, t)')
  BY DEF Counted
<1>3. CASE z # s
  <2>1. OpenStreams(z, t)' = OpenStreams(z, t)
    BY <1>1, <1>3 DEF OpenStreams, HasOpen, IsLive, Known, Typed
  <2> QED BY <1>1, <1>3, <2>1 DEF Counted
<1>4. CASE z = s
  <2>1. ASSUME NEW c \in Calls, HasOpen(call[c], s, t) PROVE call[c].gen # gen'[s]
    <3>1. call[c].gen \in Nat /\ gen[s] \in Nat /\ gen'[s] = gen[s] + 1
      BY <1>1 DEF Known, Typed, CallRecord
    <3>2. call[c].gen <= gen[s]
      BY <2>1 DEF HasOpen, Known, CallsKnow, KnowsOf
    <3> QED BY <3>1, <3>2
  <2>2. OpenStreams(s, t)' = {}
    BY <1>1, <2>1 DEF OpenStreams, HasOpen, IsLive
  <2> QED BY <1>1, <1>4, <2>2, FS_EmptySet
<1> QED BY <1>3, <1>4

LEMMA StepCounted ==
  ASSUME Known, Counted, [Next]_vars
  PROVE  Counted'
<1>1. ASSUME UNCHANGED <<gen, call, streams>> PROVE Counted'
  BY <1>1, SameStreams
<1>2. ASSUME NEW c \in Calls, Request(c) PROVE Counted'
  <2>1. CASE Refused(c)
    <3>1. \A z \in Servers, u \in Tasks : ~HasOpen(call[c], z, u)
      BY <2>1 DEF Refused, HasOpen
    <3> QED BY <2>1, <3>1, ClosedSlot, QuietCall DEF Refused
  <2>2. ASSUME NEW s \in Servers, NEW p \in Peers, NEW method, Arrive(c, s, p, method)
        PROVE  Counted'
    <3> DEFINE x == [at |-> "gate", method |-> method, server |-> s, gen |-> gen[s],
                     peer |-> p, task |-> None]
    <3>1. \A z \in Servers, u \in Tasks : ~HasOpen(call[c], z, u) /\ ~HasOpen(x, z, u)
      BY <2>2 DEF Arrive, HasOpen, NoCall
    <3>2. UNCHANGED <<gen, streams>> /\ call' = [call EXCEPT ![c] = x]
      BY <2>2 DEF Arrive
    <3> HIDE DEF x
    <3> QED BY <3>1, <3>2, QuietCall
  <2> QED BY <1>2, <2>1, <2>2, SubscribeCounted, StartsCounted, OverQuotaCounted,
          ReplaysCounted, AnswerCounted DEF Request
<1>3. ASSUME NEW r \in runs, Report(r) PROVE Counted'
  BY <1>3, <1>1 DEF Report
<1>4. ASSUME NEW r \in runs, RunEnds(r) PROVE Counted'
  BY <1>4, RunEndsFacts, WakingStreams DEF RunEnds
<1>5. ASSUME NEW s \in Servers, Control(s) PROVE Counted'
  <2>1. ASSUME NEW ids, Cancel(s, ids), UNCHANGED <<gen, streams>> PROVE Counted'
    <3>1. \A c \in Calls : Wakes(call[c], call'[c])
      BY <2>1 DEF Cancel, WokenAll, Wakes
    <3> QED BY <2>1, <3>1, WakingStreams
  <2> QED BY <1>1, <1>5, <2>1, EditCounted
          DEF Control, Shown, CancelTask, CancelTasks, CloseInbound
<1> QED BY <1>1, <1>2, <1>3, <1>4, <1>5 DEF Next, vars

\* For any number of servers, edits and requests the live instance counts the
\* streams that are open on it, no more and no fewer.
THEOREM StreamsAreCounted == Spec => []StreamsCounted
<1>1. Init => Counted
  <2> SUFFICES ASSUME Init, NEW s \in Servers, NEW t \in Tasks
               PROVE  /\ IsFiniteSet(OpenStreams(s, t))
                      /\ streams[s][t] = Cardinality(OpenStreams(s, t))
    BY DEF Counted
  <2>1. OpenStreams(s, t) = {}
    BY DEF Init, OpenStreams, HasOpen, NoCall
  <2> QED BY <2>1, FS_EmptySet DEF Init
<1>2. Known /\ Counted /\ [Next]_vars => Counted'
  BY StepCounted
<1>3. Counted => StreamsCounted
  BY CountedIsInvariant
<1> QED BY <1>1, <1>2, <1>3, KnownHolds, PTL DEF Spec
=============================================================================
