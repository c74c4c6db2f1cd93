------------------------------ MODULE CopyProofs ------------------------------
(***************************************************************************)
(* Proofs about what is shown elsewhere than it is made: the copy of a     *)
(* task a client folds out of its event stream (EventStream), and the      *)
(* version strip of the dashboard (UpdateChecker).                         *)
(***************************************************************************)
EXTENDS EventStream, UpdateChecker, FiniteSetTheorems, SequenceTheorems, TLAPS

-----------------------------------------------------------------------------
(* Event streams: the inductive invariant.                                   *)

Frames ==
  [id : Nat, kind : {"status", "artifact", "task"}, state : TaskState, parts : Seq(Nat),
   append : BOOLEAN]
Copies == [state : TaskState, parts : Seq(Nat)]

Typed ==
  /\ state \in TaskState /\ content \in Seq(Nat) /\ running \in BOOLEAN
  /\ turns \in 0..MaxTurns /\ nextEventId \in 1..(MaxEvents + 1)
  /\ log \in Seq(Frames) /\ Len(log) <= MaxLog
  /\ connected \subseteq Clients
  /\ inbox \in [Clients -> Seq(Frames)]
  /\ view \in [Clients -> Copies]
  /\ cursor \in [Clients -> 0..MaxEvents]
  /\ since \in [Clients -> Nat]
  /\ seen \in [Clients -> Seq(Nat)]
  /\ behind \in [Clients -> Nat]

\* The frames go up.
Rising(frames) == \A i, j \in 1..Len(frames) : i < j => frames[i].id < frames[j].id

\* The retained frames go up, and the last one that shows a state shows the task's.
LogInv ==
  /\ \A i \in 1..Len(log) : log[i].id \in 1..(nextEventId - 1)
  /\ Rising(log)
  /\ \A i \in 1..Len(log) :
       /\ log[i].kind # "artifact"
       /\ \A j \in 1..Len(log) : i < j => log[j].kind = "artifact"
       => log[i].state = state

\* No task frame is retained in the first turn, nothing before it, and nobody
\* listens between turns.
TurnInv ==
  /\ turns <= 1 /\ (running \/ turns = 0) => \A i \in 1..Len(log) : log[i].kind # "task"
  /\ turns = 0 => ~running /\ Len(log) = 0 /\ connected = {}
  /\ ~running /\ turns > 0 => IsSettled(state) /\ connected = {}

\* The numbered frames of q go up, from low, which they are past, to high at most.
InOrder(q, low, high) ==
  /\ \A i \in 1..Len(q) :
       /\ q[i].id <= high
       /\ q[i].id # 0 => low < q[i].id
       /\ q[i].kind = "status" => q[i].id # 0
  /\ \A i, j \in 1..Len(q) : i < j /\ q[i].id # 0 /\ q[j].id # 0 => q[i].id < q[j].id

\* What c has read and will read was emitted; frames out of order are sent to it in
\* a later turn than the first.
Bounded(c) ==
  /\ cursor[c] <= nextEventId - 1
  /\ \A i \in 1..Len(inbox[c]) : inbox[c][i].id <= nextEventId - 1
  /\ behind[c] <= nextEventId - 1
  /\ behind[c] # 0 => turns > 1

\* What c will read next goes up from what it has read.
Ordered(c) ==
  /\ InOrder(inbox[c], cursor[c], nextEventId - 1)
  /\ \A i \in 1..Len(seen[c]) : seen[c][i] \in 1..cursor[c]
  /\ \A i, j \in 1..Len(seen[c]) : i < j => seen[c][i] < seen[c][j]
  /\ cursor[c] <= nextEventId - 1

\* A status frame f that a client has asked for was read or is on its way: the
\* client is connected or not (on), q is what it will read, ids what it has read
\* of the status frames, low its cursor, and it never asked for those up to from.
IsComing(q, id) == \E j \in 1..Len(q) : q[j].kind = "status" /\ q[j].id = id
Reaches(on, q, id) == on \/ \E j \in 1..Len(q) : id <= q[j].id
Passes(f, on, q, ids, low, from) ==
  f.kind = "status" /\ from < f.id =>
    /\ f.id <= low => \E j \in 1..Len(ids) : ids[j] = f.id
    /\ low < f.id /\ Reaches(on, q, f.id) => IsComing(q, f.id)

\* None that is still retained passes c by.
Covered(c) ==
  \A i \in 1..Len(log) :
    Passes(log[i], c \in connected, inbox[c], seen[c], cursor[c], since[c])

\* Whatever the order, c has read it or will, if it stays connected.
Expected(f, q, ids, from) ==
  f.kind = "status" /\ from < f.id => (\E j \in 1..Len(ids) : ids[j] = f.id) \/ IsComing(q, f.id)
Awaited(c) ==
  c \in connected => \A i \in 1..Len(log) : Expected(log[i], inbox[c], seen[c], since[c])

\* Reading the frames of q, a client whose copy is v makes the copies g.
Leads(g, v, q) ==
  /\ g \in [0..Len(q) -> Copies]
  /\ g[0] = v
  /\ \A i \in 1..Len(q) : g[i] = Apply(g[i - 1], q[i])

\* When a connected client has read all it was sent, its copy is what the task is,
\* the parts in the first turn only; one that was sent frames out of order, when a
\* later frame shows the state.
LeadsTo(v, q, s, n, parts) ==
  \E g : Leads(g, v, q) /\ g[Len(q)].state = s /\ (n <= 1 => g[Len(q)].parts = parts)
Shown(frames, id) == \E i \in 1..Len(frames) : frames[i].kind # "artifact" /\ frames[i].id > id
Ahead(c) ==
  c \in connected /\ (behind[c] = 0 \/ Shown(log, behind[c])) =>
    LeadsTo(view[c], inbox[c], state, turns, content)

StreamInv ==
  /\ Typed /\ LogInv /\ TurnInv
  /\ \A c \in Clients :
       /\ Bounded(c) /\ Awaited(c) /\ Ahead(c)
       /\ behind[c] = 0 => Ordered(c) /\ Covered(c)
-----------------------------------------------------------------------------

\* Every set of numbers that is not empty has a least one.
LEMMA LeastExists ==
  ASSUME NEW S \in SUBSET Nat, S # {}
  PROVE  \E n \in S : \A m \in S : n <= m
<1> DEFINE R == {p \in Nat \X Nat : p[1] < p[2]}
<1>1. IsWellFoundedOn(R, Nat)
  BY NatLessThanWellFounded DEF OpToRel
<1>2. \E n \in S : \A m \in S : ~ (<<m, n>> \in R)
  <2> HIDE DEF R
  <2> QED BY <1>1, WFMin
<1>3. PICK n \in S : \A m \in S : ~ (<<m, n>> \in R)
  BY <1>2
<1>4. \A m \in S : ~ (m < n)
  BY <1>3
<1> QED BY <1>4

\* A set that begins with 0 and goes on by one has every number up to its bound.
LEMMA UpTo ==
  ASSUME NEW n \in Nat, NEW S, 0 \in S, \A i \in 1..n : i - 1 \in S => i \in S
  PROVE  0..n \subseteq S
<1> DEFINE missing == (0..n) \ S
<1>1. ASSUME missing # {} PROVE FALSE
  <2>1. missing \in SUBSET Nat
    OBVIOUS
  <2>2. PICK k \in missing : \A j \in missing : k <= j
    <3> HIDE DEF missing
    <3> QED BY <1>1, <2>1, LeastExists
  <2>3. k \in 1..n /\ k \notin S
    BY <2>2
  <2>4. k - 1 \in 0..n /\ ~ (k <= k - 1)
    BY <2>3
  <2>5. k - 1 \notin missing
    <3> HIDE DEF missing
    <3> QED BY <2>2, <2>4
  <2> QED BY <2>3, <2>4, <2>5
<1> QED BY <1>1

\* What the loop of replay() has written after i frames.
Again(frames, g, from, i) ==
  IF i = 0 THEN <<>>
  ELSE IF Replayable(frames[i], from) THEN Append(g[i - 1], frames[i]) ELSE g[i - 1]

\* The fold of replay() over the log is defined for every prefix of it.
LEMMA AgainExists ==
  ASSUME NEW n \in Nat, NEW frames, NEW from
  PROVE  \E g : g = [i \in 0..n |-> Again(frames, g, from, i)]
<1> DEFINE done == {k \in 0..n : \E g : g = [i \in 0..k |-> Again(frames, g, from, i)]}
<1>1. 0 \in done
  <2>1. [i \in 0..0 |-> <<>>] = [i \in 0..0 |-> Again(frames, [j \in 0..0 |-> <<>>], from, i)]
    BY DEF Again
  <2> QED BY <2>1
<1>2. ASSUME NEW k \in 1..n, k - 1 \in done PROVE k \in done
  <2>1. PICK g : g = [i \in 0..(k - 1) |-> Again(frames, g, from, i)]
    BY <1>2
  <2> DEFINE h == [i \in 0..k |-> IF i = k THEN Again(frames, g, from, k) ELSE g[i]]
  <2>2. \A i \in 0..k : i = k \/ i \in 0..(k - 1)
    OBVIOUS
  <2>3. \A i \in 0..(k - 1) : h[i] = g[i] /\ g[i] = Again(frames, g, from, i)
    BY <2>1
  <2>4. h[k] = Again(frames, g, from, k) /\ DOMAIN h = 0..k
    OBVIOUS
  <2>5. \A i \in 1..k : i - 1 \in 0..(k - 1) /\ h[i - 1] = g[i - 1]
    BY <2>3
  <2> HIDE DEF h
  <2>6. \A i \in 0..k : Again(frames, h, from, i) = Again(frames, g, from, i)
    BY <2>5 DEF Again
  <2>7. \A i \in 0..k : h[i] = Again(frames, h, from, i)
    BY <2>2, <2>3, <2>4, <2>6
  <2>8. h = [i \in 0..k |-> Again(frames, h, from, i)]
    BY <2>4, <2>7 DEF h
  <2>9. \E f : f = [i \in 0..k |-> Again(frames, f, from, i)]
    BY <2>8
  <2> QED BY <2>9
<1>3. 0..n \subseteq done
  <2> HIDE DEF done
  <2> QED BY <1>1, <1>2, UpTo
<1>4. n \in 0..n
  OBVIOUS
<1> QED BY <1>3, <1>4

\* replay() is the last value of that fold.
LEMMA ReplayIs ==
  ASSUME NEW frames, NEW from, Len(frames) \in Nat
  PROVE  \E g : /\ g = [i \in 0..Len(frames) |-> Again(frames, g, from, i)]
                /\ Replay(frames, from) = IF from = 0 THEN <<>> ELSE g[Len(frames)]
<1> DEFINE g == CHOOSE g : g = [i \in 0..Len(frames) |-> Again(frames, g, from, i)]
<1>1. g = [i \in 0..Len(frames) |-> Again(frames, g, from, i)]
  BY AgainExists
<1>2. Replay(frames, from) = IF from = 0 THEN <<>> ELSE g[Len(frames)]
  BY DEF Replay, Again
<1> QED BY <1>1, <1>2
-----------------------------------------------------------------------------
(* What a replay holds *)

\* q holds the frames of the first k retained ones that are to be replayed, in order.
Replays(frames, q, k, from) ==
  /\ q \in Seq(Frames)
  /\ \A j \in 1..Len(q) : \E i \in 1..k : q[j] = frames[i] /\ Replayable(frames[i], from)
  /\ \A i \in 1..k : Replayable(frames[i], from) => \E j \in 1..Len(q) : q[j] = frames[i]
  /\ \A i, j \in 1..Len(q) : i < j => q[i].id < q[j].id

\* One more frame of the log is sent, or passed over.
LEMMA ReplaysStep ==
  ASSUME NEW frames \in Seq(Frames), Rising(frames), NEW from \in Nat,
         NEW k \in 1..Len(frames), NEW q, Replays(frames, q, k - 1, from)
  PROVE  Replays(frames, IF Replayable(frames[k], from) THEN Append(q, frames[k]) ELSE q, k, from)
<1>1. frames \in Seq(Frames) /\ Len(frames) \in Nat /\ frames[k] \in Frames /\ k - 1 \in Nat
  OBVIOUS
<1>2. \A i \in 1..(k - 1) : i \in 1..k /\ i < k /\ i \in DOMAIN frames /\ k \in DOMAIN frames
  BY <1>1
<1>3. \A i \in 1..k : i = k \/ i \in 1..(k - 1)
  BY <1>1
<1>4. CASE ~Replayable(frames[k], from)
  BY <1>2, <1>3, <1>4 DEF Replays
<1>5. CASE Replayable(frames[k], from)
  <2> DEFINE r == Append(q, frames[k])
  <2>1. q \in Seq(Frames) /\ Len(q) \in Nat
    BY DEF Replays
  <2>2. /\ r \in Seq(Frames) /\ Len(r) = Len(q) + 1 /\ r[Len(q) + 1] = frames[k]
        /\ \A j \in 1..Len(q) : r[j] = q[j]
    BY <1>1, <2>1
  <2>3. \A j \in 1..Len(r) : j = Len(q) + 1 \/ j \in 1..Len(q)
    BY <2>1, <2>2
  <2>4. Len(q) + 1 \in 1..Len(r) /\ \A j \in 1..Len(q) : j \in 1..Len(r)
    BY <2>1, <2>2
  <2> HIDE DEF r
  <2>5. \A j \in 1..Len(r) : \E i \in 1..k : r[j] = frames[i] /\ Replayable(frames[i], from)
    <3> SUFFICES ASSUME NEW j \in 1..Len(r)
                 PROVE  \E i \in 1..k : r[j] = frames[i] /\ Replayable(frames[i], from)
      OBVIOUS
    <3>1. CASE j = Len(q) + 1
      BY <1>5, <2>2, <3>1
    <3>2. CASE j \in 1..Len(q)
      <4>1. PICK i \in 1..(k - 1) : q[j] = frames[i] /\ Replayable(frames[i], from)
        BY <3>2 DEF Replays
      <4> QED BY <1>2, <2>2, <3>2, <4>1
    <3> QED BY <2>3, <3>1, <3>2
  <2>6. \A i \in 1..k : Replayable(frames[i], from) => \E j \in 1..Len(r) : r[j] = frames[i]
    BY <1>3, <2>2, <2>4 DEF Replays
  <2>7. ASSUME NEW i \in 1..Len(r), NEW j \in 1..Len(r), i < j PROVE r[i].id < r[j].id
    <3>1. i \in 1..Len(q)
      BY <2>1, <2>2, <2>7
    <3>2. CASE j \in 1..Len(q)
      BY <2>2, <2>7, <3>1, <3>2 DEF Replays
    <3>3. CASE j = Len(q) + 1
      <4>1. PICK n \in 1..(k - 1) : q[i] = frames[n]
        BY <3>1 DEF Replays
      <4>2. frames[n].id < frames[k].id
        BY <1>2, <4>1 DEF Rising
      <4> QED BY <2>2, <3>1, <3>3, <4>1, <4>2
    <3> QED BY <2>3, <3>2, <3>3
  <2>8. Replays(frames, r, k, from)
    BY <2>2, <2>5, <2>6, <2>7 DEF Replays
  <2> QED BY <1>5, <2>8 DEF r
<1> QED BY <1>4, <1>5

\* A reconnect gets again the retained status and task frames it has not read, once
\* and in order.
LEMMA ReplayHolds ==
  ASSUME NEW frames \in Seq(Frames), Rising(frames), NEW from \in Nat, from # 0
  PROVE  Replays(frames, Replay(frames, from), Len(frames), from)
<1>1. frames \in Seq(Frames) /\ Len(frames) \in Nat
  OBVIOUS
<1>2. PICK g : /\ g = [i \in 0..Len(frames) |-> Again(frames, g, from, i)]
               /\ Replay(frames, from) = g[Len(frames)]
  BY <1>1, ReplayIs
<1> DEFINE good == {k \in 0..Len(frames) : Replays(frames, g[k], k, from)}
<1>3. 0 \in good
  <2>1. g[0] = <<>>
    BY <1>1, <1>2 DEF Again
  <2>2. <<>> \in Seq(Frames) /\ Len(<<>>) = 0 /\ 1..0 = {}
    OBVIOUS
  <2>3. Replays(frames, <<>>, 0, from)
    BY <2>2 DEF Replays
  <2> QED BY <1>1, <2>1, <2>3
<1>4. ASSUME NEW k \in 1..Len(frames), k - 1 \in good PROVE k \in good
  <2>1. Replays(frames, g[k - 1], k - 1, from)
    BY <1>4
  <2>2. g[k] = IF Replayable(frames[k], from) THEN Append(g[k - 1], frames[k]) ELSE g[k - 1]
    <3>1. k \in 0..Len(frames) /\ k # 0
      BY <1>1
    <3> QED BY <1>2, <3>1 DEF Again
  <2>3. Replays(frames, IF Replayable(frames[k], from) THEN Append(g[k - 1], frames[k]) ELSE g[k - 1], k, from)
    BY <2>1, ReplaysStep
  <2> QED BY <1>1, <2>2, <2>3
<1>5. 0..Len(frames) \subseteq good
  <2> HIDE DEF good
  <2> QED BY <1>1, <1>3, <1>4, UpTo
<1>6. Len(frames) \in 0..Len(frames)
  BY <1>1
<1> QED BY <1>2, <1>5, <1>6

\* The last frame of a replay of the log shows the task's state.
LEMMA ReplayEndsNow ==
  ASSUME Typed, LogInv, NEW from \in Nat, NEW q, Replays(log, q, Len(log), from), Len(q) > 0
  PROVE  q[Len(q)].state = state
<1>1. log \in Seq(Frames) /\ DOMAIN log = 1..Len(log) /\ q \in Seq(Frames) /\ Len(q) \in 1..Len(q)
  BY DEF Typed, Replays
<1>2. PICK i \in 1..Len(log) : q[Len(q)] = log[i] /\ Replayable(log[i], from)
  BY <1>1 DEF Replays
<1>3. ASSUME NEW j \in 1..Len(log), i < j, log[j].kind # "artifact" PROVE FALSE
  <2>1. log[i].id < log[j].id
    BY <1>1, <1>3 DEF LogInv, Rising
  <2> log[i] \in Frames /\ log[j] \in Frames
    BY <1>1, <1>3
  <2> log[i].id \in Nat /\ log[j].id \in Nat
    BY DEF Frames
  <2>2. Replayable(log[j], from)
    BY <1>2, <1>3, <2>1 DEF Replayable
  <2>3. PICK k \in 1..Len(q) : q[k] = log[j]
    BY <2>2 DEF Replays
  <2>4. k = Len(q) \/ k < Len(q)
    BY <1>1, <2>3
  <2>5. ~ (q[k].id < q[Len(q)].id)
    BY <1>2, <2>1, <2>3
  <2>6. k = Len(q)
    BY <1>1, <2>3, <2>4, <2>5 DEF Replays
  <2> QED BY <1>2, <2>1, <2>3, <2>6
<1>4. log[i].kind # "artifact"
  BY <1>2 DEF Replayable
<1> QED BY <1>1, <1>2, <1>3, <1>4 DEF LogInv
-----------------------------------------------------------------------------
(* Reading *)

\* Folding a frame into a copy gives a copy.
LEMMA ApplyType ==
  ASSUME NEW v \in Copies, NEW f \in Frames
  PROVE  Apply(v, f) \in Copies
<1>1. v.state \in TaskState /\ v.parts \in Seq(Nat) /\ f.state \in TaskState /\ f.parts \in Seq(Nat)
  BY DEF Copies, Frames
<1>2. v.parts \o f.parts \in Seq(Nat)
  BY <1>1, ConcatProperties
<1> QED BY <1>1, <1>2 DEF Apply, Copies

\* One frame more is read after all the others.
LEMMA LeadsOn ==
  ASSUME NEW g, NEW v, NEW q \in Seq(Frames), NEW f \in Frames, Leads(g, v, q)
  PROVE  \E h : Leads(h, v, Append(q, f)) /\ h[Len(Append(q, f))] = Apply(g[Len(q)], f)
<1> DEFINE r == Append(q, f)
           h == [i \in 0..Len(r) |-> IF i = Len(r) THEN Apply(g[Len(q)], f) ELSE g[i]]
<1>1. Len(q) \in Nat /\ Len(q) \in 0..Len(q)
  OBVIOUS
<1>2. /\ r \in Seq(Frames) /\ Len(r) = Len(q) + 1 /\ r[Len(q) + 1] = f
      /\ \A i \in 1..Len(q) : r[i] = q[i]
  BY <1>1
<1> HIDE DEF r
<1>3. \A i \in 0..Len(r) : i = Len(r) \/ i \in 0..Len(q)
  BY <1>1, <1>2
<1>4. \A i \in 0..Len(q) : i \in 0..Len(r) /\ i # Len(r) /\ h[i] = g[i]
  BY <1>1, <1>2
<1>5. h[Len(r)] = Apply(g[Len(q)], f)
  BY <1>1, <1>2
<1>6. Apply(g[Len(q)], f) \in Copies
  <2>1. g[Len(q)] \in Copies
    BY <1>1 DEF Leads
  <2> QED BY <2>1, ApplyType
<1>7. \A i \in 0..Len(r) : h[i] \in Copies
  BY <1>3, <1>4, <1>5, <1>6 DEF Leads
<1>8. h \in [0..Len(r) -> Copies]
  BY <1>7
<1> HIDE DEF h
<1>9. ASSUME NEW i \in 1..Len(r) PROVE h[i] = Apply(h[i - 1], r[i])
  <2>1. CASE i = Len(q) + 1
    <3>1. i - 1 = Len(q)
      BY <1>1, <2>1
    <3> QED BY <1>1, <1>2, <1>4, <1>5, <2>1, <3>1
  <2>2. CASE i \in 1..Len(q)
    <3>1. i \in 0..Len(q) /\ i - 1 \in 0..Len(q)
      BY <1>1, <2>2
    <3>2. g[i] = Apply(g[i - 1], q[i])
      BY <2>2 DEF Leads
    <3> QED BY <1>2, <1>4, <2>2, <3>1, <3>2
  <2>3. i = Len(q) + 1 \/ i \in 1..Len(q)
    BY <1>1, <1>2
  <2> QED BY <2>1, <2>2, <2>3
<1>10. h[0] = v
  <2>1. 0 \in 0..Len(q)
    BY <1>1
  <2> QED BY <1>4, <2>1 DEF Leads
<1>11. Leads(h, v, r)
  BY <1>8, <1>9, <1>10 DEF Leads
<1> QED BY <1>5, <1>11 DEF r

\* The rest is read from the copy the first frame makes.
LEMMA LeadsFrom ==
  ASSUME NEW g, NEW v, NEW q \in Seq(Frames), q # <<>>, Leads(g, v, q)
  PROVE  \E h : Leads(h, Apply(v, Head(q)), Tail(q)) /\ h[Len(Tail(q))] = g[Len(q)]
<1> DEFINE r == Tail(q)
           h == [i \in 0..Len(r) |-> g[i + 1]]
<1>1. /\ Len(q) \in Nat /\ Len(q) > 0 /\ Head(q) = q[1]
      /\ r \in Seq(Frames) /\ Len(r) = Len(q) - 1 /\ \A i \in 1..Len(r) : r[i] = q[i + 1]
  BY HeadTailProperties
<1> HIDE DEF r
<1>2. \A i \in 0..Len(r) : i + 1 \in 0..Len(q) /\ i + 1 \in 1..Len(q) /\ h[i] = g[i + 1]
  BY <1>1
<1>3. \A i \in 0..Len(r) : h[i] \in Copies
  BY <1>2 DEF Leads
<1>4. h \in [0..Len(r) -> Copies]
  BY <1>3
<1> HIDE DEF h
<1>5. h[0] = Apply(v, Head(q))
  <2>1. 0 \in 0..Len(r) /\ 1 \in 1..Len(q) /\ 0 + 1 = 1 /\ 1 - 1 = 0
    BY <1>1
  <2>2. g[1] = Apply(g[1 - 1], q[1])
    BY <2>1 DEF Leads
  <2> QED BY <1>1, <1>2, <2>1, <2>2 DEF Leads
<1>6. ASSUME NEW i \in 1..Len(r) PROVE h[i] = Apply(h[i - 1], r[i])
  <2>1. i \in 0..Len(r) /\ i - 1 \in 0..Len(r) /\ (i + 1) - 1 = i /\ (i - 1) + 1 = i
    BY <1>1
  <2>2. g[i + 1] = Apply(g[(i + 1) - 1], q[i + 1])
    BY <1>2, <2>1 DEF Leads
  <2> QED BY <1>1, <1>2, <2>1, <2>2
<1>7. h[Len(r)] = g[Len(q)]
  <2>1. Len(r) \in 0..Len(r) /\ Len(r) + 1 = Len(q)
    BY <1>1
  <2> QED BY <1>2, <2>1
<1>8. Leads(h, Apply(v, Head(q)), r)
  BY <1>4, <1>5, <1>6 DEF Leads
<1> QED BY <1>7, <1>8 DEF r

\* Frames can always be read.
LEMMA LeadsSomewhere ==
  ASSUME NEW q \in Seq(Frames), NEW v \in Copies
  PROVE  \E g : Leads(g, v, q)
<1> DEFINE done == {k \in 0..Len(q) : \E g : Leads(g, v, SubSeq(q, 1, k))}
<1>1. Len(q) \in Nat
  OBVIOUS
<1>2. \A k \in 0..Len(q) : /\ SubSeq(q, 1, k) \in Seq(Frames) /\ Len(SubSeq(q, 1, k)) = k
                          /\ \A i \in 1..k : SubSeq(q, 1, k)[i] = q[i]
  BY <1>1, SubSeqProperties
<1>3. 0 \in done
  <2> DEFINE g == [i \in 0..0 |-> v]
  <2>1. Len(SubSeq(q, 1, 0)) = 0 /\ 1..0 = {} /\ 0 \in 0..Len(q)
    BY <1>1, <1>2
  <2>2. Leads(g, v, SubSeq(q, 1, 0))
    BY <2>1 DEF Leads
  <2> QED BY <2>1, <2>2
<1>4. ASSUME NEW k \in 1..Len(q), k - 1 \in done PROVE k \in done
  <2>1. PICK g : Leads(g, v, SubSeq(q, 1, k - 1))
    BY <1>4
  <2>2. k \in 0..Len(q) /\ k - 1 \in 0..Len(q) /\ q[k] \in Frames
    BY <1>1
  <2>3. SubSeq(q, 1, k) = Append(SubSeq(q, 1, k - 1), q[k])
    BY <1>1, <2>2
  <2>4. \E h : Leads(h, v, SubSeq(q, 1, k))
    BY <1>2, <2>1, <2>2, <2>3, LeadsOn
  <2> QED BY <2>2, <2>4
<1>5. 0..Len(q) \subseteq done
  <2> HIDE DEF done
  <2> QED BY <1>1, <1>3, <1>4, UpTo
<1>6. Len(q) \in 0..Len(q) /\ SubSeq(q, 1, Len(q)) = q
  BY <1>1
<1> QED BY <1>5, <1>6
-----------------------------------------------------------------------------
(* The steps, by what they do to the frames *)

\* The task goes on and shows it in f, which is retained.
Logged(f) ==
  /\ f \in Frames /\ f.id = nextEventId
  /\ f.kind = "artifact" =>
       state' = state /\ content' = IF f.append THEN content \o f.parts ELSE f.parts
  /\ f.kind # "artifact" => state' = f.state /\ content' = content
  /\ f.kind = "task" => connected' = {}
  /\ turns' \in {turns, turns + 1}
  /\ nextEventId <= MaxEvents /\ nextEventId' = nextEventId + 1
  /\ log' = Log(f)

\* A stream that ends with f gets the final snapshot as well.
Ends(last) == \E s \in Frames : s.id = 0 /\ s.kind = "task" /\ last = <<s>>

\* f is emitted, to all who listen.
Emitted(f, last) ==
  /\ Logged(f)
  /\ inbox' = Broadcast(f, last)
  /\ \/ last = <<>> /\ connected' = connected
     \/ connected' = {} /\ Ends(last)
  /\ UNCHANGED <<view, cursor, since, seen, behind>>

\* f is emitted by a turn that a stream of d starts.
Streamed(d, from, f, last) ==
  /\ Logged(f) /\ f.kind # "artifact"
  /\ turns' = turns + 1
  /\ AsksFrom(d, from)
  /\ inbox' = [Broadcast(f, last) EXCEPT ![d] = TurnOpening(from, f) \o last]
  /\ behind' = [behind EXCEPT ![d] = IF Replay(Older, from) = <<>> THEN 0 ELSE f.id]
  /\ \/ last = <<>> /\ connected' = connected \cup {d} /\ f.kind = "status"
     \/ connected' = {} /\ Ends(last)
  /\ UNCHANGED view

\* What an emit is to a client that does not start it.
SentTo(c, f, last) ==
  /\ Logged(f)
  /\ inbox'[c] = IF c \in connected THEN inbox[c] \o <<f>> \o last ELSE inbox[c]
  /\ last = <<>> \/ Ends(last)
  /\ c \in connected' => c \in connected /\ last = <<>>
  /\ view'[c] = view[c] /\ cursor'[c] = cursor[c] /\ since'[c] = since[c]
  /\ seen'[c] = seen[c] /\ behind'[c] = behind[c]

LEMMA EmitSends ==
  ASSUME Typed, NEW c \in Clients, NEW f, NEW last,
         Emitted(f, last) \/ \E d \in Clients \ {c} : \E from : Streamed(d, from, f, last)
  PROVE  SentTo(c, f, last)
<1>1. CASE Emitted(f, last)
  BY <1>1 DEF Emitted, SentTo, Broadcast, Ends
<1>2. CASE \E d \in Clients \ {c} : \E from : Streamed(d, from, f, last)
  <2>1. PICK d \in Clients \ {c} : \E from : Streamed(d, from, f, last)
    BY <1>2
  <2>2. /\ cursor' = [cursor EXCEPT ![d] = cursor'[d]] /\ since' = [since EXCEPT ![d] = since'[d]]
        /\ seen' = [seen EXCEPT ![d] = seen'[d]] /\ behind' = [behind EXCEPT ![d] = behind'[d]]
    BY <2>1 DEF Streamed, AsksFrom, Typed
  <2>3. /\ cursor'[c] = cursor[c] /\ since'[c] = since[c]
        /\ seen'[c] = seen[c] /\ behind'[c] = behind[c]
    BY <2>1, <2>2 DEF Typed
  <2>4. inbox'[c] = IF c \in connected THEN inbox[c] \o <<f>> \o last ELSE inbox[c]
    BY <2>1 DEF Streamed, Broadcast
  <2>5. view'[c] = view[c] /\ Logged(f) /\ (last = <<>> \/ Ends(last))
        /\ (c \in connected' => c \in connected /\ last = <<>>)
    BY <2>1 DEF Streamed
  <2> QED BY <2>3, <2>4, <2>5 DEF SentTo
<1> QED BY <1>1, <1>2

Emits == StartTurn \/ OverQuota \/ ReportStatus \/ ReportArtifact \/ FinishTurn \/ CancelTask

LEMMA StatesAre ==
  TERMINAL_STATES \subseteq TaskState /\ {"WORKING", "INPUT_REQUIRED"} \subseteq TaskState
BY DEF TaskState, TERMINAL_STATES, INTERRUPTED_STATES, ActiveStates

LEMMA FrameType ==
  ASSUME NEW id \in Nat, NEW kind \in {"status", "artifact", "task"}, NEW s \in TaskState,
         NEW parts \in Seq(Nat), NEW append \in BOOLEAN
  PROVE  Frame(id, kind, s, parts, append) \in Frames
BY DEF Frame, Frames

\* A frame of the task as it is goes with the final snapshot.
LEMMA SnapshotEnds ==
  ASSUME NEW s \in TaskState, content \in Seq(Nat)
  PROVE  Snapshot(s, content) \in Frames /\ Ends(<<Snapshot(s, content)>>)
<1>1. Snapshot(s, content) \in Frames
  BY FrameType DEF Snapshot
<1>2. Snapshot(s, content).id = 0 /\ Snapshot(s, content).kind = "task"
  BY DEF Snapshot, Frame
<1> QED BY <1>1, <1>2 DEF Ends

\* Each action of the task that emits is one emit().
LEMMA EmitsFrames ==
  ASSUME Typed, Emits
  PROVE  \E f, last : Emitted(f, last)
<1>1. /\ nextEventId \in Nat /\ state \in TaskState /\ content \in Seq(Nat) /\ <<>> \in Seq(Nat)
      /\ turns \in Nat
  BY StreamBoundsAssumption DEF Typed
<1>2. CASE StartTurn
  <2> DEFINE f == Frame(nextEventId, "status", "WORKING", <<>>, FALSE)
  <2>1. f \in Frames
    BY <1>1, StatesAre, FrameType
  <2>2. Emitted(f, <<>>)
    BY <1>1, <1>2, <2>1 DEF StartTurn, Accepted, Emit, Retained, Emitted, Logged, Frame
  <2> QED BY <2>2
<1>3. CASE ReportStatus
  <2>1. PICK s \in {"WORKING", "INPUT_REQUIRED"} :
          state' = s /\ Emit("status", s, <<>>, FALSE, <<>>)
    BY <1>3 DEF ReportStatus
  <2> DEFINE f == Frame(nextEventId, "status", s, <<>>, FALSE)
  <2>2. f \in Frames
    BY <1>1, StatesAre, FrameType
  <2>3. Emitted(f, <<>>)
    BY <1>1, <1>3, <2>1, <2>2 DEF ReportStatus, Emit, Retained, Emitted, Logged, Frame
  <2> QED BY <2>3
<1>4. CASE ReportArtifact
  <2>1. PICK append \in BOOLEAN :
          /\ content' = IF append THEN Append(content, nextEventId) ELSE <<nextEventId>>
          /\ Emit("artifact", state, <<nextEventId>>, append, <<>>)
    BY <1>4 DEF ReportArtifact
  <2> DEFINE f == Frame(nextEventId, "artifact", state, <<nextEventId>>, append)
  <2>2. f \in Frames
    <3>1. <<nextEventId>> \in Seq(Nat)
      BY <1>1
    <3> QED BY <1>1, <3>1, FrameType
  <2>3. Emitted(f, <<>>)
    <3>1. f.id = nextEventId /\ f.kind = "artifact" /\ f.parts = <<nextEventId>> /\ f.append = append
      BY DEF Frame
    <3>2. Append(content, nextEventId) = content \o <<nextEventId>>
      BY <1>1, AppendIsConcat
    <3>3. UNCHANGED <<state, running, turns, connected, view, cursor, since, seen, behind>>
      BY <1>4 DEF ReportArtifact
    <3> QED BY <2>1, <2>2, <3>1, <3>2, <3>3 DEF Emit, Retained, Emitted, Logged
  <2> QED BY <2>3
<1>5. ASSUME NEW kind \in {"status", "task"}, NEW s \in TaskState, NEW parts \in Seq(Nat),
             state' = s, content' = content, turns' \in {turns, turns + 1}, connected' = {},
             Emit(kind, s, parts, FALSE, <<Snapshot(s, content)>>),
             UNCHANGED <<view, cursor, since, seen, behind>>
      PROVE  \E f, last : Emitted(f, last)
  <2> DEFINE f == Frame(nextEventId, kind, s, parts, FALSE)
  <2>1. f \in Frames /\ f.id = nextEventId /\ f.kind = kind /\ f.state = s
    BY <1>1, FrameType DEF Frame
  <2>2. Retained(f) /\ inbox' = Broadcast(f, <<Snapshot(s, content)>>)
    BY <1>5 DEF Emit
  <2> HIDE DEF f
  <2>3. Ends(<<Snapshot(s, content)>>)
    BY <1>1, SnapshotEnds
  <2>4. Logged(f)
    BY <1>5, <2>1, <2>2 DEF Logged, Retained
  <2>5. Emitted(f, <<Snapshot(s, content)>>)
    BY <1>5, <2>2, <2>3, <2>4 DEF Emitted
  <2> QED BY <2>5
<1>6. CASE FinishTurn
  <2>1. PICK s \in IF IsTerminal(state) THEN {state} ELSE {"INPUT_REQUIRED", "COMPLETED"} :
          state' = s /\ Emit("task", s, content, FALSE, <<Snapshot(s, content)>>)
    BY <1>6 DEF FinishTurn
  <2>2. s \in TaskState
    BY <1>1, <2>1, StatesAre DEF TERMINAL_STATES
  <2>3. connected' = {} /\ turns' = turns /\ UNCHANGED <<content, view, cursor, since, seen, behind>>
    BY <1>6 DEF FinishTurn
  <2> QED BY <1>1, <1>5, <2>1, <2>2, <2>3
<1>7. CASE CancelTask
  <2>1. "CANCELED" \in TaskState
    BY StatesAre DEF TERMINAL_STATES
  <2>2. /\ state' = "CANCELED" /\ connected' = {} /\ turns' = turns
        /\ Emit("status", "CANCELED", <<>>, FALSE, <<Snapshot("CANCELED", content)>>)
        /\ UNCHANGED <<content, view, cursor, since, seen, behind>>
    BY <1>7 DEF CancelTask
  <2> QED BY <1>1, <1>5, <2>1, <2>2
<1>8. CASE OverQuota
  <2>1. "FAILED" \in TaskState
    BY StatesAre DEF TERMINAL_STATES
  <2>2. /\ state' = "FAILED" /\ connected' = {} /\ turns' = turns + 1
        /\ Emit("task", "FAILED", content, FALSE, <<Snapshot("FAILED", content)>>)
        /\ UNCHANGED <<content, view, cursor, since, seen, behind>>
    BY <1>8 DEF OverQuota, Accepted
  <2> QED BY <1>1, <1>5, <2>1, <2>2
<1> QED BY <1>2, <1>3, <1>4, <1>6, <1>7, <1>8 DEF Emits

\* Each message that opens a stream and starts a turn is one emit() as well.
LEMMA StreamsFrames ==
  ASSUME Typed, NEW d \in Clients, NEW from,
         StreamTurn(d, from) \/ StreamOverQuota(d, from)
  PROVE  \E f, last : Streamed(d, from, f, last)
<1>1. /\ nextEventId \in Nat /\ state \in TaskState /\ content \in Seq(Nat) /\ <<>> \in Seq(Nat)
      /\ turns \in Nat /\ "WORKING" \in TaskState /\ "FAILED" \in TaskState
  BY StreamBoundsAssumption, StatesAre DEF Typed, TERMINAL_STATES
<1>2. ASSUME NEW kind \in {"status", "task"}, NEW s \in TaskState, NEW parts \in Seq(Nat), NEW last,
             state' = s, TurnStream(d, from, Frame(nextEventId, kind, s, parts, FALSE), last),
             \/ last = <<>> /\ connected' = connected \cup {d} /\ kind = "status"
             \/ connected' = {} /\ Ends(last)
      PROVE  \E f, l : Streamed(d, from, f, l)
  <2> DEFINE f == Frame(nextEventId, kind, s, parts, FALSE)
  <2>1. f \in Frames /\ f.id = nextEventId /\ f.kind = kind /\ f.state = s
    BY <1>1, <1>2, FrameType DEF Frame
  <2>2. TurnStream(d, from, f, last)
    BY <1>2
  <2> HIDE DEF f
  <2>3. Logged(f)
    BY <1>2, <2>1, <2>2 DEF TurnStream, Accepted, Retained, Logged
  <2>4. Streamed(d, from, f, last)
    BY <1>2, <2>1, <2>2, <2>3 DEF TurnStream, Accepted, Streamed
  <2> QED BY <2>4
<1>3. CASE StreamTurn(d, from)
  BY <1>1, <1>2, <1>3 DEF StreamTurn
<1>4. CASE StreamOverQuota(d, from)
  <2>1. Ends(<<Snapshot("FAILED", content)>>)
    BY <1>1, SnapshotEnds
  <2> QED BY <1>1, <1>2, <1>4, <2>1 DEF StreamOverQuota
<1> QED BY <1>3, <1>4

LEMMA IdsAreNumbers ==
  ASSUME NEW q \in Seq(Frames), NEW i \in 1..Len(q)
  PROVE  q[i] \in Frames /\ q[i].id \in Nat
<1>1. q[i] \in Frames
  OBVIOUS
<1> QED BY <1>1 DEF Frames

\* Where a frame of two sequences in a row comes from, and where it is found.
LEMMA JoinFrom ==
  ASSUME NEW p \in Seq(Frames), NEW q \in Seq(Frames), NEW i \in 1..Len(p \o q)
  PROVE  \/ i \in 1..Len(p) /\ (p \o q)[i] = p[i]
         \/ i - Len(p) \in 1..Len(q) /\ i > Len(p) /\ (p \o q)[i] = q[i - Len(p)]
<1>1. Len(p) \in Nat /\ Len(q) \in Nat /\ i \in 1..(Len(p) + Len(q))
  BY ConcatProperties
<1>2. (p \o q)[i] = IF i <= Len(p) THEN p[i] ELSE q[i - Len(p)]
  BY <1>1, ConcatProperties
<1>3. CASE i <= Len(p)
  BY <1>1, <1>2, <1>3
<1>4. CASE ~(i <= Len(p))
  BY <1>1, <1>2, <1>4
<1> QED BY <1>3, <1>4

\* Joined queues have the frames of both.
LEMMA JoinHas ==
  ASSUME NEW p \in Seq(Frames), NEW q \in Seq(Frames)
  PROVE  /\ p \o q \in Seq(Frames) /\ Len(p \o q) = Len(p) + Len(q)
         /\ \A i \in 1..Len(p) : \E j \in 1..Len(p \o q) : (p \o q)[j] = p[i]
         /\ \A i \in 1..Len(q) : \E j \in 1..Len(p \o q) : (p \o q)[j] = q[i]
<1>1. Len(p) \in Nat /\ Len(q) \in Nat
  OBVIOUS
<1>2. p \o q \in Seq(Frames) /\ Len(p \o q) = Len(p) + Len(q)
  BY ConcatProperties
<1>3. ASSUME NEW i \in 1..Len(p) PROVE \E j \in 1..Len(p \o q) : (p \o q)[j] = p[i]
  <2>1. i \in 1..(Len(p) + Len(q)) /\ i <= Len(p)
    BY <1>1
  <2>2. (p \o q)[i] = IF i <= Len(p) THEN p[i] ELSE q[i - Len(p)]
    BY <2>1, ConcatProperties
  <2> QED BY <1>2, <2>1, <2>2
<1>4. ASSUME NEW i \in 1..Len(q) PROVE \E j \in 1..Len(p \o q) : (p \o q)[j] = q[i]
  <2> DEFINE k == Len(p) + i
  <2>1. k \in 1..(Len(p) + Len(q)) /\ ~(k <= Len(p)) /\ k - Len(p) = i
    BY <1>1
  <2> HIDE DEF k
  <2>2. (p \o q)[k] = IF k <= Len(p) THEN p[k] ELSE q[k - Len(p)]
    BY <2>1, ConcatProperties
  <2> QED BY <1>2, <2>1, <2>2
<1> QED BY <1>2, <1>3, <1>4

\* The log after f: the frames retained before, but perhaps the oldest, and f.
LEMMA LogIs ==
  ASSUME Typed, NEW f \in Frames
  PROVE  /\ Log(f) \in Seq(Frames) /\ Len(Log(f)) <= MaxLog
         /\ \E d \in {0, 1} :
              /\ Len(Log(f)) = Len(log) + 1 - d
              /\ \A i \in 1..Len(Log(f)) :
                   \/ i + d \in 1..Len(log) /\ Log(f)[i] = log[i + d]
                   \/ i + d = Len(log) + 1 /\ Log(f)[i] = f
<1> DEFINE grown == Append(log, f)
<1>1. log \in Seq(Frames) /\ Len(log) \in Nat /\ Len(log) <= MaxLog /\ MaxLog \in Nat \ {0}
  BY StreamBoundsAssumption DEF Typed
<1>2. /\ grown \in Seq(Frames) /\ Len(grown) = Len(log) + 1 /\ grown[Len(log) + 1] = f
      /\ \A i \in 1..Len(log) : grown[i] = log[i]
  BY <1>1
<1> HIDE DEF grown
<1>3. Log(f) = IF Len(grown) > MaxLog THEN Tail(grown) ELSE grown
  BY DEF Log, grown
<1>4. \A i \in 1..(Len(log) + 1) : i \in 1..Len(log) \/ i = Len(log) + 1
  BY <1>1
<1>5. CASE Len(grown) > MaxLog
  <2>1. /\ Tail(grown) \in Seq(Frames) /\ Len(Tail(grown)) = Len(log)
        /\ \A i \in 1..Len(log) : Tail(grown)[i] = grown[i + 1]
    BY <1>1, <1>2, HeadTailProperties
  <2>2. \A i \in 1..Len(log) : i + 1 \in 1..(Len(log) + 1)
    BY <1>1
  <2>3. Len(Log(f)) = Len(log) + 1 - 1 /\ 1..Len(Log(f)) = 1..Len(log)
    BY <1>1, <1>3, <1>5, <2>1
  <2>4. \A i \in 1..Len(Log(f)) :
           \/ i + 1 \in 1..Len(log) /\ Log(f)[i] = log[i + 1]
           \/ i + 1 = Len(log) + 1 /\ Log(f)[i] = f
    <3> SUFFICES ASSUME NEW i \in 1..Len(log)
                 PROVE  \/ i + 1 \in 1..Len(log) /\ Log(f)[i] = log[i + 1]
                        \/ i + 1 = Len(log) + 1 /\ Log(f)[i] = f
      BY <2>3
    <3>1. Log(f)[i] = grown[i + 1]
      BY <1>3, <1>5, <2>1
    <3>2. i + 1 \in 1..Len(log) \/ i + 1 = Len(log) + 1
      BY <1>4, <2>2
    <3> QED BY <1>2, <3>1, <3>2
  <2> QED BY <1>1, <1>3, <1>5, <2>1, <2>3, <2>4
<1>6. CASE ~(Len(grown) > MaxLog)
  <2>1. Log(f) = grown /\ Len(Log(f)) = Len(log) + 1 - 0 /\ Len(grown) <= MaxLog
    BY <1>1, <1>2, <1>3, <1>6
  <2>2. \A i \in 1..Len(Log(f)) :
           \/ i + 0 \in 1..Len(log) /\ Log(f)[i] = log[i + 0]
           \/ i + 0 = Len(log) + 1 /\ Log(f)[i] = f
    BY <1>1, <1>2, <1>4, <2>1
  <2> QED BY <1>2, <2>1, <2>2
<1> QED BY <1>5, <1>6

\* Which of the frames retained before are in it.
LEMMA OlderIs ==
  ASSUME Typed, LogInv, NEW f \in Frames
  PROVE  /\ Older \in Seq(Frames) /\ Rising(Older)
         /\ \A i \in 1..Len(Older) : \E n \in 1..Len(log) : Older[i] = log[n]
         /\ \A i \in 1..Len(Log(f)) : Log(f)[i] = f \/ \E n \in 1..Len(Older) : Log(f)[i] = Older[n]
<1> DEFINE grown == Append(log, f)
<1>1. log \in Seq(Frames) /\ Len(log) \in Nat /\ Len(log) <= MaxLog /\ MaxLog \in Nat \ {0}
  BY StreamBoundsAssumption DEF Typed
<1>2. /\ grown \in Seq(Frames) /\ Len(grown) = Len(log) + 1 /\ grown[Len(log) + 1] = f
      /\ \A i \in 1..Len(log) : grown[i] = log[i]
  BY <1>1
<1> HIDE DEF grown
<1>3. Log(f) = IF Len(grown) > MaxLog THEN Tail(grown) ELSE grown
  BY DEF Log, grown
<1>4. \A i, j \in 1..Len(log) : i < j => log[i].id < log[j].id
  BY DEF LogInv, Rising
<1>5. CASE Len(log) = MaxLog
  <2> DEFINE r == Tail(log)
  <2>1. r \in Seq(Frames) /\ Len(r) = Len(log) - 1 /\ \A i \in 1..Len(r) : r[i] = log[i + 1]
    BY <1>1, <1>5, HeadTailProperties
  <2>2. Older = r
    BY <1>5 DEF Older
  <2>3. /\ Log(f) \in Seq(Frames) /\ Len(Log(f)) = Len(log)
        /\ \A i \in 1..Len(log) : Log(f)[i] = grown[i + 1]
    BY <1>1, <1>2, <1>3, <1>5, HeadTailProperties
  <2> HIDE DEF r
  <2>4. \A i \in 1..Len(r) : i + 1 \in 1..Len(log)
    BY <1>1, <2>1
  <2>5. Rising(r)
    <3> SUFFICES ASSUME NEW i \in 1..Len(r), NEW j \in 1..Len(r), i < j PROVE r[i].id < r[j].id
      BY DEF Rising
    <3> DEFINE k == i + 1  n == j + 1
    <3>1. k \in 1..Len(log) /\ n \in 1..Len(log) /\ k < n /\ r[i] = log[k] /\ r[j] = log[n]
      BY <1>1, <2>1, <2>4
    <3> HIDE DEF k, n
    <3> QED BY <1>4, <3>1
  <2>6. ASSUME NEW i \in 1..Len(Log(f))
        PROVE  Log(f)[i] = f \/ \E n \in 1..Len(r) : Log(f)[i] = r[n]
    <3>1. i \in 1..Len(log) /\ Log(f)[i] = grown[i + 1]
      BY <2>3
    <3>2. CASE i = Len(log)
      BY <1>2, <3>1, <3>2
    <3>3. CASE i # Len(log)
      <4>1. i \in 1..Len(r) /\ i + 1 \in 1..Len(log)
        BY <1>1, <2>1, <3>1, <3>3
      <4> QED BY <1>2, <2>1, <3>1, <4>1
    <3> QED BY <3>2, <3>3
  <2>7. \A i \in 1..Len(r) : \E n \in 1..Len(log) : r[i] = log[n]
    BY <2>1, <2>4
  <2> QED BY <2>1, <2>2, <2>5, <2>6, <2>7
<1>6. CASE Len(log) # MaxLog
  <2>1. Older = log /\ Rising(log)
    BY <1>6 DEF Older, LogInv
  <2>2. Log(f) = grown
    BY <1>1, <1>2, <1>3, <1>6
  <2>3. \A i \in 1..Len(Log(f)) : i = Len(log) + 1 \/ i \in 1..Len(log)
    BY <1>1, <1>2, <2>2
  <2> QED BY <1>1, <1>2, <2>1, <2>2, <2>3
<1> QED BY <1>5, <1>6

\* Frames in order up to mid and frames in order past it are in order together.
LEMMA InOrderJoin ==
  ASSUME NEW p \in Seq(Frames), NEW q \in Seq(Frames), NEW low \in Nat, NEW mid \in Nat,
         NEW high \in Nat, low <= mid, mid <= high, InOrder(p, low, mid), InOrder(q, mid, high)
  PROVE  p \o q \in Seq(Frames) /\ InOrder(p \o q, low, high)
<1> DEFINE a == p \o q
<1>1. a \in Seq(Frames)
  BY JoinHas
<1>2. Len(p) \in Nat /\ Len(q) \in Nat /\ Len(a) \in Nat
  BY <1>1
<1>3. /\ \A i \in 1..Len(p) : p[i].id \in Nat
      /\ \A i \in 1..Len(q) : q[i].id \in Nat
  BY IdsAreNumbers
<1>4. \A i \in 1..Len(a) :
         \/ i \in 1..Len(p) /\ a[i] = p[i]
         \/ i - Len(p) \in 1..Len(q) /\ i > Len(p) /\ a[i] = q[i - Len(p)]
  BY JoinFrom
<1> HIDE DEF a
<1>5. ASSUME NEW i \in 1..Len(a)
      PROVE  /\ a[i].id <= high
             /\ a[i].id # 0 => low < a[i].id
             /\ a[i].kind = "status" => a[i].id # 0
  <2>1. CASE i \in 1..Len(p) /\ a[i] = p[i]
    BY <1>3, <2>1 DEF InOrder
  <2>2. CASE i - Len(p) \in 1..Len(q) /\ a[i] = q[i - Len(p)]
    BY <1>3, <2>2 DEF InOrder
  <2> QED BY <1>4, <2>1, <2>2
<1>6. ASSUME NEW i \in 1..Len(a), NEW j \in 1..Len(a), i < j, a[i].id # 0, a[j].id # 0
      PROVE  a[i].id < a[j].id
  <2>1. CASE j \in 1..Len(p) /\ a[j] = p[j]
    <3>1. i \in 1..Len(p) /\ a[i] = p[i]
      BY <1>2, <1>4, <1>6, <2>1
    <3> QED BY <1>6, <2>1, <3>1 DEF InOrder
  <2>2. CASE j - Len(p) \in 1..Len(q) /\ a[j] = q[j - Len(p)]
    <3>1. CASE i \in 1..Len(p) /\ a[i] = p[i]
      <4>1. p[i].id <= mid /\ mid < q[j - Len(p)].id
        BY <1>6, <2>2, <3>1 DEF InOrder
      <4> QED BY <1>3, <2>2, <3>1, <4>1
    <3>2. CASE i - Len(p) \in 1..Len(q) /\ a[i] = q[i - Len(p)]
      <4>1. i - Len(p) < j - Len(p)
        BY <1>2, <1>6
      <4> QED BY <1>6, <2>2, <3>2, <4>1 DEF InOrder
    <3> QED BY <1>4, <3>1, <3>2
  <2> QED BY <1>4, <2>1, <2>2
<1>7. InOrder(a, low, high)
  BY <1>5, <1>6 DEF InOrder
<1> QED BY <1>1, <1>7 DEF a

\* One frame is in order, and so is none.
LEMMA InOrderOne ==
  ASSUME NEW f \in Frames, NEW low \in Nat, NEW high \in Nat, f.id <= high,
         f.id # 0 => low < f.id, f.kind = "status" => f.id # 0
  PROVE  <<f>> \in Seq(Frames) /\ InOrder(<<f>>, low, high)
<1>1. <<f>> \in Seq(Frames) /\ Len(<<f>>) = 1 /\ <<f>>[1] = f /\ \A i \in 1..1 : i = 1
  OBVIOUS
<1> QED BY <1>1 DEF InOrder

LEMMA InOrderNone ==
  ASSUME NEW low, NEW high
  PROVE  <<>> \in Seq(Frames) /\ InOrder(<<>>, low, high)
<1>1. <<>> \in Seq(Frames) /\ Len(<<>>) = 0 /\ 1..0 = {}
  OBVIOUS
<1> QED BY <1>1 DEF InOrder

\* The order of what a client reads is kept by an emit.
LEMMA OrderedEmit ==
  ASSUME Typed, NEW f, NEW last, NEW c \in Clients, SentTo(c, f, last), Ordered(c)
  PROVE  Ordered(c)'
<1>1. /\ inbox[c] \in Seq(Frames) /\ cursor[c] \in Nat /\ nextEventId \in Nat /\ nextEventId > 0
      /\ nextEventId - 1 \in Nat /\ nextEventId' = nextEventId + 1
  BY StreamBoundsAssumption DEF Typed, SentTo, Logged
<1>2. cursor'[c] = cursor[c] /\ seen'[c] = seen[c]
  BY DEF SentTo
<1>3. CASE c \notin connected
  <2>1. inbox'[c] = inbox[c]
    BY <1>3 DEF SentTo
  <2>2. \A i \in 1..Len(inbox[c]) : inbox[c][i].id \in Nat
    BY <1>1, IdsAreNumbers
  <2>3. InOrder(inbox[c], cursor[c], nextEventId)
    BY <1>1, <2>2 DEF Ordered, InOrder
  <2> QED BY <1>1, <1>2, <2>1, <2>3 DEF Ordered
<1>4. CASE c \in connected
  <2>1. inbox'[c] = inbox[c] \o <<f>> \o last
    BY <1>4 DEF SentTo
  <2>2. f \in Frames /\ f.id = nextEventId
    BY DEF SentTo, Logged
  <2>3. <<f>> \in Seq(Frames) /\ InOrder(<<f>>, nextEventId - 1, nextEventId)
    BY <1>1, <2>2, InOrderOne
  <2>4. inbox[c] \o <<f>> \in Seq(Frames) /\ InOrder(inbox[c] \o <<f>>, cursor[c], nextEventId)
    <3>1. cursor[c] <= nextEventId - 1 /\ InOrder(inbox[c], cursor[c], nextEventId - 1)
      BY DEF Ordered
    <3>2. nextEventId - 1 <= nextEventId
      BY <1>1
    <3> QED BY <1>1, <2>3, <3>1, <3>2, InOrderJoin
  <2>5. last \in Seq(Frames) /\ InOrder(last, nextEventId, nextEventId)
    <3>1. CASE last = <<>>
      BY <3>1, InOrderNone
    <3>2. CASE Ends(last)
      <4>1. PICK s \in Frames : s.id = 0 /\ s.kind = "task" /\ last = <<s>>
        BY <3>2 DEF Ends
      <4> QED BY <1>1, <4>1, InOrderOne
    <3> QED BY <3>1, <3>2 DEF SentTo
  <2>6. InOrder(inbox[c] \o <<f>> \o last, cursor[c], nextEventId)
    <3>1. cursor[c] <= nextEventId /\ nextEventId <= nextEventId
      BY <1>1 DEF Ordered
    <3> DEFINE p == inbox[c] \o <<f>>
    <3>2. p \in Seq(Frames) /\ InOrder(p, cursor[c], nextEventId)
      BY <2>4
    <3> HIDE DEF p
    <3>3. InOrder(p \o last, cursor[c], nextEventId)
      BY <1>1, <2>5, <3>1, <3>2, InOrderJoin
    <3> QED BY <3>3 DEF p
  <2> QED BY <1>1, <1>2, <2>1, <2>6 DEF Ordered
<1> QED BY <1>3, <1>4

\* replay(from) sends frames past from, in the order of their ids.
LEMMA ReplayInOrder ==
  ASSUME Typed, LogInv, NEW from \in Nat
  PROVE  Replay(log, from) \in Seq(Frames) /\ InOrder(Replay(log, from), from, nextEventId - 1)
<1>1. CASE from = 0
  <2>1. Replay(log, from) = <<>>
    BY <1>1 DEF Replay
  <2> QED BY <2>1, InOrderNone
<1>2. CASE from # 0
  <2> DEFINE q == Replay(log, from)
  <2>1. Replays(log, q, Len(log), from)
    BY <1>2, ReplayHolds DEF Typed, LogInv
  <2> HIDE DEF q
  <2>2. ASSUME NEW i \in 1..Len(q)
        PROVE  /\ q[i].id <= nextEventId - 1
               /\ q[i].id # 0 => from < q[i].id
               /\ q[i].kind = "status" => q[i].id # 0
    <3>1. PICK n \in 1..Len(log) : q[i] = log[n] /\ Replayable(log[n], from)
      BY <2>1 DEF Replays
    <3>2. log[n].id \in 1..(nextEventId - 1) /\ log[n].id > from
      BY <3>1 DEF LogInv, Replayable
    <3>3. log[n].id <= nextEventId - 1 /\ from < log[n].id /\ log[n].id # 0
      BY <3>2, StreamBoundsAssumption DEF Typed
    <3> QED BY <3>1, <3>3
  <2>3. InOrder(q, from, nextEventId - 1)
    BY <2>1, <2>2 DEF InOrder, Replays
  <2> QED BY <2>1, <2>3 DEF q, Replays
<1> QED BY <1>1, <1>2

LEMMA SnapshotType ==
  ASSUME Typed
  PROVE  /\ Snapshot(state, content) \in Frames
         /\ Snapshot(state, content).id = 0 /\ Snapshot(state, content).kind = "task"
         /\ Snapshot(state, content).state = state /\ Snapshot(state, content).parts = content
<1>1. Snapshot(state, content) \in Frames
  BY FrameType DEF Snapshot, Typed
<1> QED BY <1>1 DEF Snapshot, Frame

\* What c asks for: the frames past its cursor or none that are older.
LEMMA AskedFrom ==
  ASSUME Typed, NEW c \in Clients, NEW from, AsksFrom(c, from)
  PROVE  /\ c \notin connected /\ from \in {0, cursor[c]} /\ from \in Nat
         /\ cursor'[c] = from
         /\ since'[c] = IF from = 0 THEN nextEventId - 1
                        ELSE IF behind[c] = 0 THEN since[c] ELSE from
         /\ seen'[c] = IF from # 0 /\ behind[c] = 0 THEN seen[c] ELSE <<>>
         /\ \A d \in Clients : d # c =>
              cursor'[d] = cursor[d] /\ since'[d] = since[d] /\ seen'[d] = seen[d]
         /\ cursor' \in [Clients -> 0..MaxEvents] /\ since' \in [Clients -> Nat]
         /\ seen' \in [Clients -> Seq(Nat)]
<1>1. /\ from \in {0, cursor[c]} /\ c \notin connected
      /\ cursor' = [cursor EXCEPT ![c] = from]
      /\ since' = [since EXCEPT ![c] = IF from = 0 THEN nextEventId - 1
                                       ELSE IF behind[c] = 0 THEN since[c] ELSE from]
      /\ seen' = [seen EXCEPT ![c] = IF from # 0 /\ behind[c] = 0 THEN seen[c] ELSE <<>>]
  BY DEF AsksFrom, Typed
<1>2. /\ cursor \in [Clients -> 0..MaxEvents] /\ since \in [Clients -> Nat]
      /\ seen \in [Clients -> Seq(Nat)] /\ from \in 0..MaxEvents /\ from \in Nat
      /\ nextEventId - 1 \in Nat /\ <<>> \in Seq(Nat)
  BY <1>1, StreamBoundsAssumption DEF Typed
<1>3. cursor' \in [Clients -> 0..MaxEvents] /\ cursor'[c] = from
      /\ \A d \in Clients : d # c => cursor'[d] = cursor[d]
  BY <1>1, <1>2
<1>4. /\ since' \in [Clients -> Nat] /\ \A d \in Clients : d # c => since'[d] = since[d]
      /\ since'[c] = IF from = 0 THEN nextEventId - 1
                     ELSE IF behind[c] = 0 THEN since[c] ELSE from
  BY <1>1, <1>2
<1>5. /\ seen' \in [Clients -> Seq(Nat)] /\ \A d \in Clients : d # c => seen'[d] = seen[d]
      /\ seen'[c] = IF from # 0 /\ behind[c] = 0 THEN seen[c] ELSE <<>>
  BY <1>1, <1>2
<1> QED BY <1>1, <1>2, <1>3, <1>4, <1>5

\* A subscription writes its opening frames, and listens while the task goes on.
LEMMA AttachSends ==
  ASSUME Typed, NEW c \in Clients, NEW from, Attach(c, from)
  PROVE  /\ AsksFrom(c, from) /\ turns > 0
         /\ inbox' = [inbox EXCEPT ![c] = Opening(from)] /\ inbox'[c] = Opening(from)
         /\ connected' = IF IsSettled(state) THEN connected ELSE connected \cup {c}
         /\ behind' = [behind EXCEPT ![c] = 0] /\ behind'[c] = 0
         /\ \A d \in Clients : d # c =>
              /\ inbox'[d] = inbox[d] /\ behind'[d] = behind[d]
              /\ d \in connected' <=> d \in connected
         /\ UNCHANGED <<task, nextEventId, log, view>>
BY DEF Attach, Typed

\* A snapshot and a replay are past the cursor, and in order.
LEMMA OpeningInOrder ==
  ASSUME Typed, LogInv, NEW from \in Nat, from <= nextEventId - 1
  PROVE  Opening(from) \in Seq(Frames) /\ InOrder(Opening(from), from, nextEventId - 1)
<1> DEFINE now == Snapshot(state, content)
           last == IF IsSettled(state) THEN <<now>> ELSE <<>>
           p == <<now>> \o Replay(log, from)
           n == nextEventId - 1
<1>1. from \in Nat /\ n \in Nat /\ from <= n
  BY StreamBoundsAssumption DEF Typed
<1>2. now \in Frames /\ now.id = 0 /\ now.kind = "task"
  BY SnapshotType
<1>3. Replay(log, from) \in Seq(Frames) /\ InOrder(Replay(log, from), from, n)
  BY <1>1, ReplayInOrder
<1> HIDE DEF now, n
<1>4. <<now>> \in Seq(Frames) /\ InOrder(<<now>>, from, from) /\ InOrder(<<now>>, n, n)
  BY <1>1, <1>2, InOrderOne
<1>5. p \in Seq(Frames) /\ InOrder(p, from, n)
  <2>1. from <= from
    BY <1>1
  <2> QED BY <1>1, <1>3, <1>4, <2>1, InOrderJoin
<1>6. last \in Seq(Frames) /\ InOrder(last, n, n)
  BY <1>4, InOrderNone
<1> HIDE DEF p, last
<1>7. n <= n
  BY <1>1
<1>8. p \o last \in Seq(Frames) /\ InOrder(p \o last, from, n)
  BY <1>1, <1>5, <1>6, <1>7, InOrderJoin
<1> QED BY <1>8 DEF p, last, now, n, Opening

\* A client that opens a stream and is sent nothing out of order has read in order
\* what it will not be sent again.
LEMMA HistoryKept ==
  ASSUME Typed, NEW c \in Clients, NEW from, AsksFrom(c, from), Bounded(c),
         behind[c] = 0 => Ordered(c)
  PROVE  /\ from \in Nat /\ from <= nextEventId - 1 /\ cursor'[c] = from
         /\ \A i \in 1..Len(seen'[c]) : seen'[c][i] \in 1..from
         /\ \A i, j \in 1..Len(seen'[c]) : i < j => seen'[c][i] < seen'[c][j]
<1>1. /\ from \in Nat /\ from \in {0, cursor[c]} /\ cursor'[c] = from
      /\ seen'[c] = IF from # 0 /\ behind[c] = 0 THEN seen[c] ELSE <<>>
  BY AskedFrom
<1>2. from <= nextEventId - 1
  BY <1>1, StreamBoundsAssumption DEF Typed, Bounded
<1>3. CASE from # 0 /\ behind[c] = 0
  BY <1>1, <1>2, <1>3 DEF Ordered
<1>4. CASE ~ (from # 0 /\ behind[c] = 0)
  <2>1. seen'[c] = <<>> /\ Len(<<>>) = 0 /\ 1..0 = {}
    BY <1>1, <1>4
  <2> QED BY <1>1, <1>2, <2>1
<1> QED BY <1>3, <1>4

\* Ordered survives a new connection, and comes back with it,
LEMMA OrderedAttach ==
  ASSUME Typed, LogInv, NEW c \in Clients, NEW d \in Clients, NEW from, Attach(d, from),
         Bounded(c), behind[c] = 0 => Ordered(c)
  PROVE  behind'[c] = 0 => Ordered(c)'
<1>1. nextEventId' = nextEventId /\ AsksFrom(d, from)
  BY AttachSends
<1>2. CASE c = d
  <2>1. inbox'[c] = Opening(from)
    BY <1>2, AttachSends
  <2>2. /\ from \in Nat /\ from <= nextEventId - 1 /\ cursor'[c] = from
        /\ \A i \in 1..Len(seen'[c]) : seen'[c][i] \in 1..from
        /\ \A i, j \in 1..Len(seen'[c]) : i < j => seen'[c][i] < seen'[c][j]
    BY <1>1, <1>2, HistoryKept
  <2> QED BY <1>1, <2>1, <2>2, OpeningInOrder DEF Ordered
<1>3. CASE c # d
  <2>1. inbox'[c] = inbox[c] /\ behind'[c] = behind[c]
    BY <1>3, AttachSends
  <2>2. cursor'[c] = cursor[c] /\ seen'[c] = seen[c]
    BY <1>1, <1>3, AskedFrom
  <2> QED BY <1>1, <2>1, <2>2 DEF Ordered
<1> QED BY <1>2, <1>3

\* What Read(c) takes and what is left.
LEMMA ReadTakes ==
  ASSUME Typed, NEW c \in Clients, Read(c)
  PROVE  /\ inbox[c] \in Seq(Frames) /\ Len(inbox[c]) \in Nat /\ Len(inbox[c]) > 0
         /\ Head(inbox[c]) = inbox[c][1] /\ inbox[c][1] \in Frames
         /\ inbox' = [inbox EXCEPT ![c] = Tail(inbox[c])]
         /\ Tail(inbox[c]) \in Seq(Frames) /\ Len(Tail(inbox[c])) = Len(inbox[c]) - 1
         /\ \A i \in 1..Len(Tail(inbox[c])) : Tail(inbox[c])[i] = inbox[c][i + 1]
         /\ inbox'[c] = Tail(inbox[c])
         /\ view' = [view EXCEPT ![c] = Apply(view[c], inbox[c][1])]
         /\ cursor' = [cursor EXCEPT ![c] = IF inbox[c][1].id = 0 THEN cursor[c] ELSE inbox[c][1].id]
         /\ seen' = [seen EXCEPT ![c] = IF inbox[c][1].kind = "status"
                                       THEN Append(seen[c], inbox[c][1].id) ELSE seen[c]]
         /\ UNCHANGED <<task, nextEventId, log, connected, since, behind>>
<1>1. inbox[c] \in Seq(Frames) /\ inbox[c] # <<>>
  BY DEF Typed, Read
<1>2. /\ Len(inbox[c]) \in Nat /\ Len(inbox[c]) > 0
      /\ Head(inbox[c]) = inbox[c][1] /\ inbox[c][1] \in Frames
      /\ Tail(inbox[c]) \in Seq(Frames) /\ Len(Tail(inbox[c])) = Len(inbox[c]) - 1
      /\ \A i \in 1..Len(Tail(inbox[c])) : Tail(inbox[c])[i] = inbox[c][i + 1]
  BY <1>1, HeadTailProperties
<1>3. inbox' = [inbox EXCEPT ![c] = Tail(inbox[c])] /\ inbox'[c] = Tail(inbox[c])
  BY DEF Read, Typed
<1>4. /\ view' = [view EXCEPT ![c] = Apply(view[c], inbox[c][1])]
      /\ cursor' = [cursor EXCEPT ![c] = IF inbox[c][1].id = 0 THEN cursor[c] ELSE inbox[c][1].id]
      /\ seen' = [seen EXCEPT ![c] = IF inbox[c][1].kind = "status"
                                    THEN Append(seen[c], inbox[c][1].id) ELSE seen[c]]
      /\ UNCHANGED <<task, nextEventId, log, connected, since, behind>>
  BY <1>2 DEF Read, Typed
<1> QED BY <1>1, <1>2, <1>3, <1>4

\* a frame that is read,
LEMMA OrderedRead ==
  ASSUME Typed, NEW c \in Clients, NEW d \in Clients, Read(d), Ordered(c)
  PROVE  Ordered(c)'
<1>1. nextEventId' = nextEventId
  BY ReadTakes
<1>2. CASE c # d
  <2>1. inbox'[c] = inbox[c] /\ cursor'[c] = cursor[c] /\ seen'[c] = seen[c]
    BY <1>2, ReadTakes DEF Typed
  <2> QED BY <1>1, <2>1 DEF Ordered
<1>3. CASE c = d
  <2> DEFINE q == inbox[c]  r == Tail(q)  f == q[1]
             now == IF f.id = 0 THEN cursor[c] ELSE f.id
             last == nextEventId - 1
  <2>1. /\ q \in Seq(Frames) /\ Len(q) \in Nat /\ Len(q) > 0 /\ f \in Frames
        /\ r \in Seq(Frames) /\ Len(r) = Len(q) - 1 /\ \A i \in 1..Len(r) : r[i] = q[i + 1]
        /\ inbox'[c] = r
    BY <1>3, ReadTakes
  <2>2. cursor'[c] = now /\ seen'[c] = IF f.kind = "status" THEN Append(seen[c], f.id) ELSE seen[c]
    BY <1>3, ReadTakes DEF Typed
  <2>3. /\ InOrder(q, cursor[c], last) /\ cursor[c] <= last
        /\ \A i \in 1..Len(seen[c]) : seen[c][i] \in 1..cursor[c]
        /\ \A i, j \in 1..Len(seen[c]) : i < j => seen[c][i] < seen[c][j]
    BY DEF Ordered
  <2>4. cursor[c] \in Nat /\ last \in Nat /\ f.id \in Nat /\ seen[c] \in Seq(Nat)
    BY <2>1, StreamBoundsAssumption DEF Typed, Frames
  <2> HIDE DEF q, r, f, last
  <2>5. 1 \in 1..Len(q) /\ f = q[1]
    BY <2>1 DEF f
  <2>6. f.id <= last /\ (f.id # 0 => cursor[c] < f.id) /\ (f.kind = "status" => f.id # 0)
    BY <2>3, <2>5 DEF InOrder
  <2>7. now \in Nat /\ cursor[c] <= now /\ now <= last
    BY <2>3, <2>4, <2>6
  <2>8. \A i \in 1..Len(r) : i + 1 \in 1..Len(q) /\ 1 < i + 1
    BY <2>1
  <2>9. InOrder(r, now, last)
    <3>1. ASSUME NEW i \in 1..Len(r)
          PROVE  /\ r[i].id <= last
                 /\ r[i].id # 0 => now < r[i].id
                 /\ r[i].kind = "status" => r[i].id # 0
      <4> DEFINE k == i + 1
      <4>1. k \in 1..Len(q) /\ 1 < k /\ r[i] = q[k]
        BY <2>1, <2>8
      <4> HIDE DEF k
      <4>2. /\ q[k].id <= last
            /\ q[k].id # 0 => cursor[c] < q[k].id
            /\ q[k].kind = "status" => q[k].id # 0
        BY <2>3, <4>1 DEF InOrder
      <4>3. f.id # 0 /\ q[k].id # 0 => f.id < q[k].id
        BY <2>3, <2>5, <4>1 DEF InOrder
      <4> QED BY <4>1, <4>2, <4>3
    <3>2. ASSUME NEW i \in 1..Len(r), NEW j \in 1..Len(r), i < j, r[i].id # 0, r[j].id # 0
          PROVE  r[i].id < r[j].id
      <4> DEFINE k == i + 1  n == j + 1
      <4>1. k \in 1..Len(q) /\ r[i] = q[k]
        BY <2>1, <2>8
      <4>2. n \in 1..Len(q) /\ r[j] = q[n]
        BY <2>1, <2>8
      <4>3. k < n
        BY <2>1, <3>2
      <4> HIDE DEF k, n
      <4> QED BY <2>3, <3>2, <4>1, <4>2, <4>3 DEF InOrder
    <3> QED BY <3>1, <3>2 DEF InOrder
  <2>10. CASE f.kind # "status"
    <3>1. seen'[c] = seen[c] /\ cursor'[c] = now
      BY <2>2, <2>10
    <3>2. \A n \in 1..cursor[c] : n \in 1..now
      BY <2>4, <2>7
    <3> HIDE DEF now
    <3>3. \A i \in 1..Len(seen[c]) : seen[c][i] \in 1..now
      BY <2>3, <3>2
    <3> QED BY <1>1, <2>1, <2>3, <2>7, <2>9, <3>1, <3>3 DEF Ordered, last
  <2>11. CASE f.kind = "status"
    <3> DEFINE m == Append(seen[c], f.id)
    <3>1. seen'[c] = m /\ cursor'[c] = f.id /\ now = f.id /\ f.id \in 1..f.id
      BY <2>2, <2>4, <2>6, <2>11
    <3>2. /\ Len(m) = Len(seen[c]) + 1 /\ m[Len(seen[c]) + 1] = f.id /\ Len(seen[c]) \in Nat
          /\ \A i \in 1..Len(seen[c]) : m[i] = seen[c][i]
      BY <2>4
    <3>3. \A i \in 1..Len(m) : i = Len(seen[c]) + 1 \/ i \in 1..Len(seen[c])
      BY <3>2
    <3>4. \A n \in 1..cursor[c] : n \in 1..f.id /\ n < f.id
      BY <2>4, <2>6, <2>11
    <3> HIDE DEF m, now
    <3>5. \A i \in 1..Len(m) : m[i] \in 1..f.id
      BY <2>3, <3>1, <3>2, <3>3, <3>4
    <3>6. ASSUME NEW i \in 1..Len(m), NEW j \in 1..Len(m), i < j PROVE m[i] < m[j]
      <4>1. i \in 1..Len(seen[c])
        BY <3>2, <3>6
      <4>2. CASE j \in 1..Len(seen[c])
        BY <2>3, <3>2, <3>6, <4>1, <4>2
      <4>3. CASE j = Len(seen[c]) + 1
        <5>1. seen[c][i] \in 1..cursor[c]
          BY <2>3, <4>1
        <5> QED BY <3>2, <3>4, <4>1, <4>3, <5>1
      <4> QED BY <3>3, <4>2, <4>3
    <3> QED BY <1>1, <2>1, <2>7, <2>9, <3>1, <3>5, <3>6 DEF Ordered, last
  <2> QED BY <2>10, <2>11
<1> QED BY <1>2, <1>3

\* A lost connection loses what was not read.
LEMMA DisconnectDrops ==
  ASSUME Typed, NEW c \in Clients, Disconnect(c)
  PROVE  /\ inbox' = [inbox EXCEPT ![c] = <<>>]
         /\ connected' = connected \ {c}
         /\ UNCHANGED <<task, nextEventId, log, view, cursor, since, seen, behind>>
BY DEF Disconnect

\* a connection that is lost,
LEMMA OrderedDisconnect ==
  ASSUME Typed, NEW c \in Clients, NEW d \in Clients, Disconnect(d), Ordered(c)
  PROVE  Ordered(c)'
<1>1. nextEventId' = nextEventId /\ cursor' = cursor /\ seen' = seen
  BY DisconnectDrops
<1>2. CASE c = d
  <2>1. inbox'[c] = <<>>
    BY <1>2, DisconnectDrops DEF Typed
  <2>2. InOrder(<<>>, cursor[c], nextEventId - 1)
    BY InOrderNone
  <2> QED BY <1>1, <2>1, <2>2 DEF Ordered
<1>3. CASE c # d
  <2>1. inbox'[c] = inbox[c]
    BY <1>3, DisconnectDrops DEF Typed
  <2> QED BY <1>1, <2>1 DEF Ordered
<1> QED BY <1>2, <1>3

\* The other steps leave the clients and what they will read alone.
Quiet == UNCHANGED <<task, nextEventId, client>> /\ (log' = log \/ log' = <<>>)

\* Every step emits one frame, or is one of a client, or changes nothing of a stream.
LEMMA ActionsAre ==
  ASSUME Typed, [Next]_vars
  PROVE  \/ \E f, last : Emitted(f, last)
         \/ \E d \in Clients : \E from, f, last : Streamed(d, from, f, last)
         \/ \E d \in Clients : \E from : Attach(d, from)
         \/ \E d \in Clients : Read(d) \/ Disconnect(d)
         \/ Quiet
<1>1. CASE Emits
  BY <1>1, EmitsFrames
<1>2. CASE Evict
  BY <1>2 DEF Evict, Quiet
<1>3. CASE UNCHANGED vars
  BY <1>3 DEF vars, Quiet
<1>4. CASE \E c \in Clients : Read(c) \/ Disconnect(c)
  BY <1>4
<1>5. CASE \E c \in Clients : \E from \in 0..MaxEvents : Stream(c, from)
  <2>1. PICK c \in Clients, from \in 0..MaxEvents : Stream(c, from)
    BY <1>5
  <2>2. CASE Subscribe(c, from) \/ Resend(c, from)
    BY <2>2 DEF Subscribe, Resend
  <2>3. CASE StreamTurn(c, from) \/ StreamOverQuota(c, from)
    BY <2>3, StreamsFrames
  <2> QED BY <2>1, <2>2, <2>3 DEF Stream
<1> QED BY <1>1, <1>2, <1>3, <1>4, <1>5 DEF Next, Emits

\* What each step is to one client.
LEMMA StepsOf ==
  ASSUME Typed, [Next]_vars, NEW c \in Clients
  PROVE  \/ \E f, last : SentTo(c, f, last)
         \/ \E from, f, last : Streamed(c, from, f, last)
         \/ \E d \in Clients : \E from : Attach(d, from)
         \/ \E d \in Clients : Read(d) \/ Disconnect(d)
         \/ Quiet
<1>1. CASE \E f, last : Emitted(f, last)
  BY <1>1, EmitSends
<1>2. CASE \E d \in Clients : \E from, f, last : Streamed(d, from, f, last)
  <2>1. PICK d \in Clients : \E from, f, last : Streamed(d, from, f, last)
    BY <1>2
  <2>2. CASE d = c
    BY <2>1, <2>2
  <2>3. CASE d # c
    <3>1. d \in Clients \ {c}
      BY <2>3
    <3>2. PICK from, f, last : Streamed(d, from, f, last)
      BY <2>1
    <3>3. SentTo(c, f, last)
      BY <3>1, <3>2, EmitSends
    <3> QED BY <3>3
  <2> QED BY <2>2, <2>3
<1> QED BY <1>1, <1>2, ActionsAre

\* What the message that starts a turn writes to its own stream.
LEMMA StreamSends ==
  ASSUME Typed, NEW d \in Clients, NEW from, NEW f, NEW last, Streamed(d, from, f, last)
  PROVE  /\ Logged(f) /\ AsksFrom(d, from) /\ turns' = turns + 1
         /\ f \in Frames /\ f.id = nextEventId /\ f.kind \in {"status", "task"}
         /\ last \in Seq(Frames) /\ \A i \in 1..Len(last) : last[i].id = 0 /\ last[i].kind = "task"
         /\ inbox'[d] = TurnOpening(from, f) \o last
         /\ behind'[d] = IF Replay(Older, from) = <<>> THEN 0 ELSE f.id
         /\ view'[d] = view[d]
         /\ d \in connected' => last = <<>> /\ f.kind = "status"
<1>1. /\ Logged(f) /\ AsksFrom(d, from) /\ turns' = turns + 1 /\ view' = view
      /\ f \in Frames /\ f.id = nextEventId /\ f.kind # "artifact"
      /\ \/ last = <<>> /\ f.kind = "status" /\ connected' = connected \cup {d}
         \/ connected' = {} /\ Ends(last)
  BY DEF Streamed, Logged
<1>2. f.kind \in {"status", "task"}
  BY <1>1 DEF Frames
<1>3. inbox'[d] = TurnOpening(from, f) \o last
  BY DEF Streamed, Broadcast
<1>4. behind'[d] = IF Replay(Older, from) = <<>> THEN 0 ELSE f.id
  BY DEF Streamed, Typed
<1>5. last \in Seq(Frames) /\ \A i \in 1..Len(last) : last[i].id = 0 /\ last[i].kind = "task"
  <2>1. CASE last = <<>>
    <3>1. last \in Seq(Frames) /\ 1..Len(last) = {}
      BY <2>1
    <3> QED BY <3>1
  <2>2. CASE Ends(last)
    <3>1. PICK e \in Frames : e.id = 0 /\ e.kind = "task" /\ last = <<e>>
      BY <2>2 DEF Ends
    <3>2. last \in Seq(Frames) /\ Len(last) = 1 /\ last[1] = e /\ \A i \in 1..1 : i = 1
      BY <3>1
    <3> QED BY <3>1, <3>2
  <2> QED BY <1>1, <2>1, <2>2
<1> QED BY <1>1, <1>2, <1>3, <1>4, <1>5

\* The frames of that opening: a snapshot, the turn's first frame, and the replay.
LEMMA TurnOpeningIs ==
  ASSUME Typed, LogInv, NEW from \in Nat, NEW f \in Frames
  PROVE  /\ Replay(Older, from) \in Seq(Frames)
         /\ TurnOpening(from, f) \in Seq(Frames)
         /\ TurnOpening(from, f) = <<Snapshot(state, content), f>> \o Replay(Older, from)
         /\ <<Snapshot(state, content), f>> \in Seq(Frames)
         /\ from # 0 => Replays(Older, Replay(Older, from), Len(Older), from)
<1>1. Snapshot(state, content) \in Frames
  BY SnapshotType
<1>2. <<Snapshot(state, content), f>> \in Seq(Frames)
  BY <1>1
<1>3. from # 0 => Replays(Older, Replay(Older, from), Len(Older), from)
  BY OlderIs, ReplayHolds
<1>4. Replay(Older, from) \in Seq(Frames)
  <2>1. CASE from = 0
    <3>1. Replay(Older, from) = <<>>
      BY <2>1 DEF Replay
    <3> QED BY <3>1
  <2>2. CASE from # 0
    BY <1>3, <2>2 DEF Replays
  <2> QED BY <2>1, <2>2
<1>5. TurnOpening(from, f) = <<Snapshot(state, content), f>> \o Replay(Older, from)
  BY DEF TurnOpening
<1> QED BY <1>2, <1>3, <1>4, <1>5, JoinHas

\* Where nothing is replayed, what it reads goes up.
LEMMA OrderedStream ==
  ASSUME Typed, LogInv, NEW c \in Clients, NEW from, NEW f, NEW last,
         Streamed(c, from, f, last), Bounded(c), behind[c] = 0 => Ordered(c)
  PROVE  behind'[c] = 0 => Ordered(c)'
<1> SUFFICES ASSUME behind'[c] = 0 PROVE Ordered(c)'
  OBVIOUS
<1> DEFINE n == nextEventId  now == Snapshot(state, content)
<1>1. /\ Logged(f) /\ AsksFrom(c, from) /\ f \in Frames /\ f.id = n /\ f.kind \in {"status", "task"}
      /\ last \in Seq(Frames) /\ \A i \in 1..Len(last) : last[i].id = 0 /\ last[i].kind = "task"
      /\ inbox'[c] = TurnOpening(from, f) \o last
      /\ behind'[c] = IF Replay(Older, from) = <<>> THEN 0 ELSE f.id
  BY StreamSends
<1>2. n \in Nat /\ n - 1 \in Nat /\ n > 0 /\ n # 0 /\ nextEventId' - 1 = n /\ n - 1 <= n /\ n <= n
  <2>1. nextEventId' = nextEventId + 1
    BY <1>1 DEF Logged
  <2> QED BY <2>1, StreamBoundsAssumption DEF Typed
<1>3. /\ from \in Nat /\ from <= n - 1 /\ cursor'[c] = from
      /\ \A i \in 1..Len(seen'[c]) : seen'[c][i] \in 1..from
      /\ \A i, j \in 1..Len(seen'[c]) : i < j => seen'[c][i] < seen'[c][j]
  BY <1>1, HistoryKept
<1>4. now \in Frames /\ now.id = 0 /\ now.kind = "task"
  BY SnapshotType
<1>5. Replay(Older, from) = <<>>
  BY <1>1, <1>2
<1>6. TurnOpening(from, f) = <<now, f>>
  <2>1. <<now, f>> \in Seq(Frames) /\ TurnOpening(from, f) = <<now, f>> \o <<>>
    BY <1>1, <1>3, <1>5, TurnOpeningIs
  <2> QED BY <2>1, ConcatEmptySeq
<1> HIDE DEF n, now
<1>7. InOrder(<<now, f>>, from, n)
  <2>1. \A i \in 1..2 : i = 1 \/ i = 2
    OBVIOUS
  <2>2. Len(<<now, f>>) = 2 /\ <<now, f>>[1] = now /\ <<now, f>>[2] = f
    OBVIOUS
  <2>3. f.id <= n /\ now.id <= n /\ from < f.id /\ f.id # 0 /\ now.id = 0 /\ now.kind # "status"
    BY <1>1, <1>2, <1>3, <1>4
  <2> QED BY <2>1, <2>2, <2>3 DEF InOrder
<1>8. InOrder(last, n, n)
  BY <1>1, <1>2 DEF InOrder
<1>9. <<now, f>> \in Seq(Frames) /\ from <= n
  BY <1>1, <1>2, <1>3, <1>4
<1>10. InOrder(<<now, f>> \o last, from, n)
  BY <1>1, <1>2, <1>3, <1>7, <1>8, <1>9, InOrderJoin
<1> QED BY <1>1, <1>2, <1>3, <1>6, <1>9, <1>10 DEF Ordered

\* and all steps together.
LEMMA OrderedStep ==
  ASSUME Typed, LogInv, [Next]_vars, NEW c \in Clients, Bounded(c), behind[c] = 0 => Ordered(c)
  PROVE  behind'[c] = 0 => Ordered(c)'
<1>1. CASE Quiet
  BY <1>1 DEF Quiet, client, Ordered
<1>2. CASE \E d \in Clients : \E from : Attach(d, from)
  BY <1>2, OrderedAttach
<1>3. CASE \E d \in Clients : Read(d) \/ Disconnect(d)
  <2>1. behind' = behind
    BY <1>3, ReadTakes, DisconnectDrops
  <2> QED BY <1>3, <2>1, OrderedRead, OrderedDisconnect
<1>4. CASE \E f, last : SentTo(c, f, last)
  <2>1. behind'[c] = behind[c]
    BY <1>4 DEF SentTo
  <2> QED BY <1>4, <2>1, OrderedEmit
<1>5. CASE \E from, f, last : Streamed(c, from, f, last)
  BY <1>5, OrderedStream
<1> QED BY <1>1, <1>2, <1>3, <1>4, <1>5, StepsOf
-----------------------------------------------------------------------------
(* What a client reads was emitted *)

LEMMA BoundedEmit ==
  ASSUME Typed, NEW f, NEW last, NEW c \in Clients, SentTo(c, f, last), Bounded(c)
  PROVE  Bounded(c)'
<1> DEFINE q == inbox[c]  r == inbox'[c]  n == nextEventId
<1>1. /\ q \in Seq(Frames) /\ n \in Nat /\ n > 0 /\ nextEventId' - 1 = n
      /\ f \in Frames /\ f.id = n /\ turns \in Nat /\ turns' \in {turns, turns + 1}
      /\ cursor'[c] = cursor[c] /\ behind'[c] = behind[c]
      /\ cursor[c] \in Nat /\ behind[c] \in Nat
  BY StreamBoundsAssumption DEF Typed, SentTo, Logged
<1>2. \A i \in 1..Len(q) : q[i].id <= n
  <2>1. \A i \in 1..Len(q) : q[i].id \in Nat
    BY <1>1, IdsAreNumbers
  <2> QED BY <1>1, <2>1 DEF Bounded
<1>3. \A i \in 1..Len(r) : r[i].id <= n
  <2>1. CASE r = q
    BY <1>2, <2>1
  <2>2. CASE r = q \o <<f>> \o last
    <3> DEFINE p == q \o <<f>>
    <3>1. <<f>> \in Seq(Frames) /\ Len(<<f>>) = 1 /\ <<f>>[1] = f /\ \A i \in 1..1 : i = 1
      BY <1>1
    <3>2. last \in Seq(Frames) /\ \A i \in 1..Len(last) : last[i].id = 0
      <4>1. CASE last = <<>>
        <5>1. last \in Seq(Frames) /\ 1..Len(last) = {}
          BY <4>1
        <5> QED BY <5>1
      <4>2. CASE Ends(last)
        <5>1. PICK e \in Frames : e.id = 0 /\ last = <<e>>
          BY <4>2 DEF Ends
        <5>2. last \in Seq(Frames) /\ Len(last) = 1 /\ last[1] = e /\ \A i \in 1..1 : i = 1
          BY <5>1
        <5> QED BY <5>1, <5>2
      <4> QED BY <4>1, <4>2 DEF SentTo
    <3> HIDE DEF q, r
    <3>3. p \in Seq(Frames)
      BY <1>1, <3>1, JoinHas
    <3>4. ASSUME NEW i \in 1..Len(p) PROVE p[i].id <= n
      <4>1. \/ i \in 1..Len(q) /\ p[i] = q[i]
            \/ i - Len(q) \in 1..Len(<<f>>) /\ p[i] = <<f>>[i - Len(q)]
        BY <1>1, <3>1, JoinFrom
      <4>2. \A j \in 1..Len(<<f>>) : <<f>>[j] = f
        BY <3>1
      <4>3. p[i] = f \/ \E j \in 1..Len(q) : p[i] = q[j]
        <5> HIDE DEF p
        <5> QED BY <4>1, <4>2
      <4> HIDE DEF p
      <4> QED BY <1>1, <1>2, <4>3
    <3> HIDE DEF p
    <3>5. ASSUME NEW i \in 1..Len(p \o last) PROVE (p \o last)[i].id <= n
      <4>1. \/ i \in 1..Len(p) /\ (p \o last)[i] = p[i]
            \/ i - Len(p) \in 1..Len(last) /\ (p \o last)[i] = last[i - Len(p)]
        BY <3>2, <3>3, JoinFrom
      <4> QED BY <1>1, <3>2, <3>4, <4>1
    <3>6. r = p \o last
      BY <2>2 DEF p, r
    <3> QED BY <3>5, <3>6
  <2> QED BY <2>1, <2>2 DEF SentTo
<1> HIDE DEF r, n
<1>4. cursor[c] <= n /\ behind[c] <= n /\ (behind[c] # 0 => turns' > 1)
  BY <1>1 DEF Bounded, n
<1> QED BY <1>1, <1>3, <1>4 DEF Bounded, r

LEMMA BoundedStream ==
  ASSUME Typed, LogInv, TurnInv, NEW c \in Clients, NEW from, NEW f, NEW last,
         Streamed(c, from, f, last), Bounded(c)
  PROVE  Bounded(c)'
<1> DEFINE n == nextEventId  now == Snapshot(state, content)  again == Replay(Older, from)
           p == <<now, f>>
<1>1. /\ Logged(f) /\ AsksFrom(c, from) /\ f \in Frames /\ f.id = n /\ turns' = turns + 1
      /\ last \in Seq(Frames) /\ \A i \in 1..Len(last) : last[i].id = 0
      /\ inbox'[c] = TurnOpening(from, f) \o last
      /\ behind'[c] = IF again = <<>> THEN 0 ELSE f.id
  BY StreamSends
<1>2. n \in Nat /\ n - 1 \in Nat /\ n > 0 /\ nextEventId' - 1 = n /\ turns \in Nat
  <2>1. nextEventId' = nextEventId + 1
    BY <1>1 DEF Logged
  <2> QED BY <2>1, StreamBoundsAssumption DEF Typed
<1>3. from \in Nat /\ from \in {0, cursor[c]} /\ cursor'[c] = from
  BY <1>1, AskedFrom
<1>4. now \in Frames /\ now.id = 0
  BY SnapshotType
<1>5. /\ again \in Seq(Frames) /\ TurnOpening(from, f) \in Seq(Frames)
      /\ TurnOpening(from, f) = p \o again /\ p \in Seq(Frames)
      /\ from # 0 => Replays(Older, again, Len(Older), from)
  BY <1>1, <1>3, TurnOpeningIs
<1>6. from = 0 => again = <<>>
  BY DEF Replay
<1>7. \A i \in 1..Len(Older) : \E k \in 1..Len(log) : Older[i] = log[k]
  BY <1>1, OlderIs
<1>8. Len(p) = 2 /\ p[1] = now /\ p[2] = f /\ \A i \in 1..2 : i = 1 \/ i = 2
  OBVIOUS
<1>9. Len(<<>>) = 0 /\ 1..0 = {}
  OBVIOUS
<1> HIDE DEF n, now, again, p
<1>10. ASSUME NEW i \in 1..Len(again)
       PROVE  again[i].id <= n /\ \E k \in 1..Len(log) : again[i] = log[k]
  <2>1. from # 0
    BY <1>6, <1>9, <1>10
  <2>2. PICK k \in 1..Len(log) : again[i] = log[k]
    BY <1>5, <1>7, <2>1 DEF Replays
  <2>3. log[k].id \in 1..(n - 1)
    BY DEF LogInv, n
  <2> QED BY <1>2, <2>2, <2>3
<1>11. ASSUME NEW i \in 1..Len(p \o again) PROVE (p \o again)[i].id <= n
  <2>1. \/ i \in 1..Len(p) /\ (p \o again)[i] = p[i]
        \/ i - Len(p) \in 1..Len(again) /\ (p \o again)[i] = again[i - Len(p)]
    BY <1>5, JoinFrom
  <2>2. CASE i \in 1..Len(p) /\ (p \o again)[i] = p[i]
    BY <1>1, <1>2, <1>4, <1>8, <2>2
  <2>3. CASE i - Len(p) \in 1..Len(again) /\ (p \o again)[i] = again[i - Len(p)]
    BY <1>10, <2>3
  <2> QED BY <2>1, <2>2, <2>3
<1> DEFINE q == p \o again
<1>12. q \in Seq(Frames) /\ inbox'[c] = q \o last
  BY <1>1, <1>5
<1> HIDE DEF q
<1>13. ASSUME NEW i \in 1..Len(q \o last) PROVE (q \o last)[i].id <= n
  <2>1. \/ i \in 1..Len(q) /\ (q \o last)[i] = q[i]
        \/ i - Len(q) \in 1..Len(last) /\ (q \o last)[i] = last[i - Len(q)]
    BY <1>1, <1>12, JoinFrom
  <2>2. \A j \in 1..Len(q) : q[j].id <= n
    BY <1>11 DEF q
  <2> QED BY <1>1, <1>2, <2>1, <2>2
<1>14. cursor'[c] <= n
  BY <1>2, <1>3, StreamBoundsAssumption DEF Typed, Bounded, n
<1>15. behind'[c] <= n /\ (behind'[c] # 0 => turns' > 1)
  <2>1. CASE again = <<>>
    BY <1>1, <1>2, <2>1
  <2>2. CASE again # <<>>
    <3>1. 1 \in 1..Len(again)
      BY <1>5, <2>2
    <3>2. Len(log) # 0
      BY <1>9, <1>10, <3>1
    <3>3. turns # 0
      BY <3>2 DEF TurnInv
    <3> QED BY <1>1, <1>2, <2>2, <3>3
  <2> QED BY <2>1, <2>2
<1> QED BY <1>2, <1>12, <1>13, <1>14, <1>15 DEF Bounded

LEMMA BoundedAttach ==
  ASSUME Typed, LogInv, NEW c \in Clients, NEW d \in Clients, NEW from, Attach(d, from), Bounded(c)
  PROVE  Bounded(c)'
<1>1. nextEventId' = nextEventId /\ AsksFrom(d, from) /\ turns' = turns
  BY AttachSends DEF task
<1>2. CASE c # d
  <2>1. inbox'[c] = inbox[c] /\ behind'[c] = behind[c] /\ cursor'[c] = cursor[c]
    BY <1>1, <1>2, AttachSends, AskedFrom
  <2> QED BY <1>1, <2>1 DEF Bounded
<1>3. CASE c = d
  <2>1. /\ inbox'[c] = Opening(from) /\ behind'[c] = 0
        /\ from \in Nat /\ cursor'[c] = from /\ from \in {0, cursor[c]}
    BY <1>1, <1>3, AttachSends, AskedFrom
  <2>2. from <= nextEventId - 1 /\ 0 <= nextEventId - 1
    BY <2>1, StreamBoundsAssumption DEF Typed, Bounded
  <2>3. InOrder(Opening(from), from, nextEventId - 1)
    BY <2>1, <2>2, OpeningInOrder
  <2> QED BY <1>1, <2>1, <2>2, <2>3 DEF InOrder, Bounded
<1> QED BY <1>2, <1>3

LEMMA BoundedRead ==
  ASSUME Typed, NEW c \in Clients, NEW d \in Clients, Read(d), Bounded(c)
  PROVE  Bounded(c)'
<1>1. nextEventId' = nextEventId /\ turns' = turns /\ behind' = behind
  BY ReadTakes DEF task
<1>2. CASE c # d
  <2>1. inbox'[c] = inbox[c] /\ cursor'[c] = cursor[c]
    BY <1>2, ReadTakes DEF Typed
  <2> QED BY <1>1, <2>1 DEF Bounded
<1>3. CASE c = d
  <2> DEFINE q == inbox[c]  r == Tail(q)
  <2>1. /\ q \in Seq(Frames) /\ Len(q) \in Nat /\ Len(q) > 0 /\ inbox'[c] = r
        /\ Len(r) = Len(q) - 1 /\ \A i \in 1..Len(r) : r[i] = q[i + 1]
    BY <1>3, ReadTakes
  <2>2. cursor'[c] = IF q[1].id = 0 THEN cursor[c] ELSE q[1].id
    BY <1>3, ReadTakes DEF Typed
  <2> HIDE DEF r
  <2>3. 1 \in 1..Len(q) /\ \A i \in 1..Len(r) : i + 1 \in 1..Len(q)
    BY <2>1
  <2>4. \A i \in 1..Len(q) : q[i].id <= nextEventId - 1
    BY DEF Bounded
  <2> HIDE DEF q
  <2>5. cursor'[c] <= nextEventId - 1 /\ \A i \in 1..Len(r) : r[i].id <= nextEventId - 1
    BY <2>1, <2>2, <2>3, <2>4 DEF Bounded
  <2> QED BY <1>1, <2>1, <2>5 DEF Bounded
<1> QED BY <1>2, <1>3

LEMMA BoundedStep ==
  ASSUME Typed, LogInv, TurnInv, [Next]_vars, NEW c \in Clients, Bounded(c)
  PROVE  Bounded(c)'
<1>1. CASE Quiet
  BY <1>1 DEF Quiet, task, client, Bounded
<1>2. CASE \E d \in Clients : Disconnect(d)
  <2>1. PICK d \in Clients : Disconnect(d)
    BY <1>2
  <2>2. /\ inbox' = [inbox EXCEPT ![d] = <<>>]
        /\ UNCHANGED <<task, nextEventId, log, view, cursor, since, seen, behind>>
    BY <2>1, DisconnectDrops
  <2>3. inbox'[c] = inbox[c] \/ inbox'[c] = <<>>
    BY <2>2 DEF Typed
  <2>4. 1..Len(<<>>) = {}
    OBVIOUS
  <2> QED BY <2>2, <2>3, <2>4 DEF Bounded, task
<1>3. CASE \E d \in Clients : Read(d)
  BY <1>3, BoundedRead
<1>4. CASE \E d \in Clients : \E from : Attach(d, from)
  BY <1>4, BoundedAttach
<1>5. CASE \E f, last : SentTo(c, f, last)
  BY <1>5, BoundedEmit
<1>6. CASE \E from, f, last : Streamed(c, from, f, last)
  BY <1>6, BoundedStream
<1> QED BY <1>1, <1>2, <1>3, <1>4, <1>5, <1>6, StepsOf
-----------------------------------------------------------------------------
(* No retained status frame passes a client by *)

\* A frame that is emitted reaches those who are connected; frames dropped from the log
\* need not be covered.
LEMMA CoveredEmit ==
  ASSUME Typed, NEW f, NEW last, NEW c \in Clients, SentTo(c, f, last), Ordered(c), Covered(c)
  PROVE  Covered(c)'
<1> DEFINE q == inbox[c]  r == inbox'[c]  on == c \in connected  still == c \in connected'
<1>1. /\ q \in Seq(Frames) /\ cursor[c] \in Nat /\ nextEventId \in Nat
      /\ cursor[c] <= nextEventId - 1 /\ InOrder(q, cursor[c], nextEventId - 1)
  BY StreamBoundsAssumption DEF Typed, Ordered
<1>2. /\ cursor'[c] = cursor[c] /\ seen'[c] = seen[c] /\ since'[c] = since[c] /\ log' = Log(f)
      /\ f \in Frames /\ f.id = nextEventId
  BY DEF SentTo, Logged
<1>3. still => on
  BY DEF SentTo
<1>4. \/ on /\ (\A i \in 1..Len(q) : \E j \in 1..Len(r) : r[j] = q[i])
            /\ (\E j \in 1..Len(r) : r[j] = f)
      \/ ~on /\ r = q
  <2>1. CASE ~on
    BY <2>1 DEF SentTo
  <2>2. CASE on
    <3>1. r = q \o <<f>> \o last
      BY <2>2 DEF SentTo
    <3>2. last \in Seq(Frames)
      <4>1. CASE last = <<>>
        BY <4>1
      <4>2. CASE Ends(last)
        BY <4>2 DEF Ends
      <4> QED BY <4>1, <4>2 DEF SentTo
    <3>3. <<f>> \in Seq(Frames) /\ Len(<<f>>) = 1 /\ <<f>>[1] = f /\ 1 \in 1..1
      BY <1>2
    <3> DEFINE p == q \o <<f>>
    <3> HIDE DEF q, r
    <3>4. /\ p \in Seq(Frames)
          /\ \A i \in 1..Len(q) : \E j \in 1..Len(p) : p[j] = q[i]
          /\ \E j \in 1..Len(p) : p[j] = f
      BY <1>1, <3>3, JoinHas
    <3>5. r = p \o last
      BY <3>1
    <3> HIDE DEF p
    <3>6. \A i \in 1..Len(p) : \E j \in 1..Len(r) : r[j] = p[i]
      BY <3>2, <3>4, <3>5, JoinHas
    <3> QED BY <2>2, <3>4, <3>6
  <2> QED BY <2>1, <2>2
<1> HIDE DEF q, r, on, still
<1>5. Passes(f, still, r, seen[c], cursor[c], since[c])
  <2>1. ~ (f.id <= cursor[c])
    BY <1>1, <1>2
  <2>2. CASE on
    BY <1>4, <2>1, <2>2 DEF Passes, IsComing
  <2>3. CASE ~on
    <3>1. ASSUME NEW j \in 1..Len(q), f.id <= q[j].id PROVE FALSE
      <4>1. q[j].id <= nextEventId - 1 /\ q[j].id \in Nat
        BY <1>1, IdsAreNumbers DEF InOrder
      <4> QED BY <1>1, <1>2, <3>1, <4>1
    <3> QED BY <1>3, <1>4, <2>1, <2>3, <3>1 DEF Passes, Reaches
  <2> QED BY <2>2, <2>3
<1>6. ASSUME NEW n \in 1..Len(log)
      PROVE  Passes(log[n], still, r, seen[c], cursor[c], since[c])
  <2>1. Passes(log[n], on, q, seen[c], cursor[c], since[c])
    BY DEF Covered, q, on
  <2>2. Reaches(still, r, log[n].id) => Reaches(on, q, log[n].id)
    BY <1>3, <1>4 DEF Reaches
  <2>3. IsComing(q, log[n].id) => IsComing(r, log[n].id)
    BY <1>4 DEF IsComing
  <2> QED BY <2>1, <2>2, <2>3 DEF Passes
<1>7. \A i \in 1..Len(Log(f)) : Log(f)[i] = f \/ \E n \in 1..Len(log) : Log(f)[i] = log[n]
  BY <1>2, LogIs
<1>8. \A i \in 1..Len(Log(f)) : Passes(Log(f)[i], still, r, seen[c], cursor[c], since[c])
  BY <1>5, <1>6, <1>7
<1> QED BY <1>2, <1>8 DEF Covered, r, still

\* A new connection is sent what is retained and past its cursor.
LEMMA CoveredAttach ==
  ASSUME Typed, LogInv, NEW c \in Clients, NEW d \in Clients, NEW from, Attach(d, from),
         behind[c] = 0 => Ordered(c) /\ Covered(c)
  PROVE  behind'[c] = 0 => Covered(c)'
<1>1. log' = log /\ AsksFrom(d, from)
  BY AttachSends
<1>2. CASE c # d
  <2>1. /\ inbox'[c] = inbox[c] /\ behind'[c] = behind[c] /\ (c \in connected' <=> c \in connected)
        /\ since'[c] = since[c] /\ cursor'[c] = cursor[c] /\ seen'[c] = seen[c]
    BY <1>1, <1>2, AttachSends, AskedFrom
  <2> QED BY <1>1, <2>1 DEF Covered
<1>3. CASE c = d
  <2>1. /\ inbox'[c] = Opening(from) /\ from \in Nat /\ from \in {0, cursor[c]}
        /\ cursor'[c] = from
        /\ since'[c] = IF from = 0 THEN nextEventId - 1
                       ELSE IF behind[c] = 0 THEN since[c] ELSE from
        /\ seen'[c] = IF from # 0 /\ behind[c] = 0 THEN seen[c] ELSE <<>>
    BY <1>1, <1>3, AttachSends, AskedFrom
  <2>2. /\ nextEventId \in Nat
        /\ \A i \in 1..Len(log) : log[i].id \in 1..(nextEventId - 1)
    BY StreamBoundsAssumption DEF Typed, LogInv
  <2>3. CASE from = 0
    <3>1. \A i \in 1..Len(log) : ~ (since'[c] < log[i].id)
      BY <2>1, <2>2, <2>3
    <3> QED BY <1>1, <3>1 DEF Covered, Passes
  <2>4. CASE from # 0
    <3> DEFINE now == Snapshot(state, content)
               last == IF IsSettled(state) THEN <<now>> ELSE <<>>
               q == Replay(log, from)
               p == <<now>> \o q
    <3>1. q \in Seq(Frames) /\ Replays(log, q, Len(log), from)
      BY <2>1, <2>4, ReplayHolds DEF Replays, Typed, LogInv
    <3>2. <<now>> \in Seq(Frames) /\ last \in Seq(Frames)
      BY SnapshotType
    <3> HIDE DEF now, q, last
    <3>3. p \in Seq(Frames) /\ \A i \in 1..Len(q) : \E j \in 1..Len(p) : p[j] = q[i]
      BY <3>1, <3>2, JoinHas
    <3> HIDE DEF p
    <3>4. \A i \in 1..Len(p) : \E j \in 1..Len(p \o last) : (p \o last)[j] = p[i]
      BY <3>2, <3>3, JoinHas
    <3>5. Opening(from) = p \o last
      BY DEF Opening, p, q, last, now
    <3>6. ASSUME NEW i \in 1..Len(log), log[i].kind = "status", from < log[i].id
          PROVE  IsComing(Opening(from), log[i].id)
      <4>1. Replayable(log[i], from)
        BY <2>1, <2>2, <3>6 DEF Replayable
      <4>2. \E j \in 1..Len(q) : q[j] = log[i]
        BY <3>1, <4>1 DEF Replays
      <4>3. \E j \in 1..Len(Opening(from)) : Opening(from)[j] = log[i]
        BY <3>3, <3>4, <3>5, <4>2
      <4> QED BY <3>6, <4>3 DEF IsComing
    <3>7. ASSUME NEW i \in 1..Len(log)
          PROVE  Passes(log[i], c \in connected', Opening(from), seen'[c], from, since'[c])
      <4>1. CASE behind[c] = 0
        <5>1. since'[c] = since[c] /\ seen'[c] = seen[c] /\ from = cursor[c]
          BY <2>1, <2>4, <4>1
        <5>2. Passes(log[i], c \in connected, inbox[c], seen[c], cursor[c], since[c])
          BY <4>1 DEF Covered
        <5> QED BY <3>6, <5>1, <5>2 DEF Passes
      <4>2. CASE behind[c] # 0
        <5>1. since'[c] = from /\ log[i].id \in Nat
          BY <2>1, <2>2, <2>4, <4>2
        <5> QED BY <2>1, <3>6, <5>1 DEF Passes
      <4> QED BY <4>1, <4>2
    <3> QED BY <1>1, <2>1, <3>7 DEF Covered
  <2> QED BY <2>3, <2>4
<1> QED BY <1>2, <1>3

\* The turn's first frame is on its way to the client whose message starts it, and
\* so is, behind it, what is past its cursor.
LEMMA StreamReaches ==
  ASSUME Typed, LogInv, NEW from \in Nat, NEW f \in Frames, NEW last \in Seq(Frames),
         NEW i \in 1..Len(Log(f)), Log(f)[i].kind = "status",
         Log(f)[i] = f \/ (from # 0 /\ from < Log(f)[i].id)
  PROVE  IsComing(TurnOpening(from, f) \o last, Log(f)[i].id)
<1> DEFINE p == <<Snapshot(state, content), f>>  q == Replay(Older, from)  t == TurnOpening(from, f)
           g == Log(f)[i]
<1>1. q \in Seq(Frames) /\ t \in Seq(Frames) /\ t = p \o q /\ p \in Seq(Frames)
      /\ (from # 0 => Replays(Older, q, Len(Older), from))
  BY TurnOpeningIs
<1>2. Len(p) = 2 /\ p[2] = f /\ 2 \in 1..2
  OBVIOUS
<1>3. g = f \/ \E n \in 1..Len(Older) : g = Older[n]
  BY OlderIs
<1> HIDE DEF p, q, t, g
<1>4. \E j \in 1..Len(t) : t[j] = g
  <2> /\ \A k \in 1..Len(p) : \E j \in 1..Len(t) : t[j] = p[k]
      /\ \A k \in 1..Len(q) : \E j \in 1..Len(t) : t[j] = q[k]
    <3>1. p \in Seq(Frames) /\ q \in Seq(Frames) /\ t = p \o q
      BY <1>1
    <3>2. /\ \A k \in 1..Len(p) : \E j \in 1..Len(p \o q) : (p \o q)[j] = p[k]
          /\ \A k \in 1..Len(q) : \E j \in 1..Len(p \o q) : (p \o q)[j] = q[k]
      BY <3>1, JoinHas
    <3> QED BY <3>1, <3>2
  <2>1. CASE g = f
    BY <1>2, <2>1
  <2>2. CASE g # f
    <3>1. PICK n \in 1..Len(Older) : g = Older[n]
      BY <1>3, <2>2
    <3>2. from # 0 /\ Replayable(g, from)
      <4>1. g.kind = "status" /\ from # 0 /\ from < g.id
        BY <2>2 DEF g
      <4>2. g \in Frames
        BY <3>1, OlderIs
      <4>3. g.id \in Nat
        BY <4>2 DEF Frames
      <4> QED BY <4>1, <4>3 DEF Replayable
    <3>3. \E j \in 1..Len(q) : q[j] = g
      BY <1>1, <3>1, <3>2 DEF Replays
    <3> QED BY <3>3
  <2> QED BY <2>1, <2>2
<1>5. \E j \in 1..Len(t \o last) : (t \o last)[j] = g
  BY <1>1, <1>4, JoinHas
<1>6. g.kind = "status"
  BY DEF g
<1> QED BY <1>5, <1>6 DEF IsComing, t, g

\* Of its history as it goes on, nothing that it asks for has passed it by.
LEMMA StreamPasses ==
  ASSUME Typed, LogInv, NEW c \in Clients, NEW from, NEW f, NEW last,
         Streamed(c, from, f, last), Bounded(c), behind[c] = 0 => Ordered(c) /\ Covered(c),
         NEW i \in 1..Len(Log(f)), Log(f)[i].kind = "status", since'[c] < Log(f)[i].id
  PROVE  \/ \E j \in 1..Len(seen'[c]) : seen'[c][j] = Log(f)[i].id
         \/ from < Log(f)[i].id /\ IsComing(inbox'[c], Log(f)[i].id)
<1> DEFINE g == Log(f)[i]  n == nextEventId
<1>1. /\ AsksFrom(c, from) /\ f \in Frames /\ f.id = n /\ last \in Seq(Frames)
      /\ inbox'[c] = TurnOpening(from, f) \o last
  BY StreamSends
<1>2. /\ from \in Nat /\ from \in {0, cursor[c]}
      /\ since'[c] = IF from = 0 THEN n - 1 ELSE IF behind[c] = 0 THEN since[c] ELSE from
      /\ seen'[c] = IF from # 0 /\ behind[c] = 0 THEN seen[c] ELSE <<>>
  BY <1>1, AskedFrom
<1>3. n \in Nat /\ n > 0 /\ from <= n - 1 /\ \A k \in 1..Len(log) : log[k].id \in 1..(n - 1)
  BY <1>2, StreamBoundsAssumption DEF Typed, Bounded, LogInv
<1>4. g = f \/ \E k \in 1..Len(log) : g = log[k]
  BY <1>1, OlderIs
<1>5. g = f \/ (from # 0 /\ from < g.id) => from < g.id /\ IsComing(inbox'[c], g.id)
  <2>1. ASSUME g = f \/ (from # 0 /\ from < g.id)
        PROVE  IsComing(TurnOpening(from, f) \o last, g.id)
    BY <1>1, <1>2, <2>1, StreamReaches
  <2>2. g = f => from < g.id
    BY <1>1, <1>2, <1>3
  <2> QED BY <1>1, <2>1, <2>2
<1>6. g.kind = "status" /\ since'[c] < g.id
  OBVIOUS
<1> HIDE DEF g, n
<1>7. CASE g = f \/ (from # 0 /\ from < g.id)
  BY <1>5, <1>7 DEF g
<1>8. CASE g # f /\ ~(from # 0 /\ from < g.id)
  <2>1. PICK k \in 1..Len(log) : g = log[k]
    BY <1>4, <1>8
  <2>2. g.id \in 1..(n - 1)
    BY <1>3, <2>1
  <2>3. from # 0
    BY <1>2, <1>3, <1>6, <2>2
  <2>4. behind[c] = 0
    BY <1>2, <1>3, <1>6, <1>8, <2>2, <2>3
  <2>5. since'[c] = since[c] /\ seen'[c] = seen[c] /\ from = cursor[c]
    BY <1>2, <2>3, <2>4
  <2>6. Passes(g, c \in connected, inbox[c], seen[c], cursor[c], since[c])
    BY <2>1, <2>4 DEF Covered
  <2>7. g.id <= cursor[c]
    BY <1>2, <1>3, <1>8, <2>2, <2>3, <2>5
  <2> QED BY <1>6, <2>5, <2>6, <2>7 DEF Passes, g
<1> QED BY <1>7, <1>8

LEMMA CoveredStream ==
  ASSUME Typed, LogInv, NEW c \in Clients, NEW from, NEW f, NEW last,
         Streamed(c, from, f, last), Bounded(c), behind[c] = 0 => Ordered(c) /\ Covered(c)
  PROVE  behind'[c] = 0 => Covered(c)'
<1>1. log' = Log(f) /\ AsksFrom(c, from)
  BY StreamSends DEF Logged
<1>2. cursor'[c] = from /\ from \in Nat
  BY <1>1, AskedFrom
<1>3. ASSUME behind'[c] = 0, NEW i \in 1..Len(log'), log'[i].kind = "status", since'[c] < log'[i].id
      PROVE  /\ log'[i].id <= from => \E j \in 1..Len(seen'[c]) : seen'[c][j] = log'[i].id
             /\ from < log'[i].id => IsComing(inbox'[c], log'[i].id)
  <2>1. \/ \E j \in 1..Len(seen'[c]) : seen'[c][j] = log'[i].id
        \/ from < log'[i].id /\ IsComing(inbox'[c], log'[i].id)
    BY <1>1, <1>3, StreamPasses
  <2>2. \A j \in 1..Len(seen'[c]) : seen'[c][j] \in 1..from
    BY <1>1, HistoryKept
  <2>3. log'[i].id \in Nat
    <3>1. log'[i] \in Frames
      BY <1>1, <1>3, StreamSends, LogIs
    <3> QED BY <3>1 DEF Frames
  <2>4. (\E j \in 1..Len(seen'[c]) : seen'[c][j] = log'[i].id) => log'[i].id <= from
    BY <1>2, <2>2
  <2> QED BY <1>2, <2>1, <2>3, <2>4
<1> QED BY <1>2, <1>3 DEF Covered, Passes

\* What is read is seen, and past it the cursor.
LEMMA CoveredRead ==
  ASSUME Typed, LogInv, NEW c \in Clients, NEW d \in Clients, Read(d), Ordered(c), Covered(c)
  PROVE  Covered(c)'
<1>1. log' = log /\ since' = since /\ connected' = connected
  BY ReadTakes
<1>2. CASE c # d
  <2>1. inbox'[c] = inbox[c] /\ cursor'[c] = cursor[c] /\ seen'[c] = seen[c]
    BY <1>2, ReadTakes DEF Typed
  <2> QED BY <1>1, <2>1 DEF Covered
<1>3. CASE c = d
  <2> DEFINE q == inbox[c]  r == Tail(q)  f == q[1]
             now == IF f.id = 0 THEN cursor[c] ELSE f.id
             ids == IF f.kind = "status" THEN Append(seen[c], f.id) ELSE seen[c]
             on == c \in connected
  <2>1. /\ q \in Seq(Frames) /\ Len(q) \in Nat /\ Len(q) > 0 /\ f \in Frames
        /\ r \in Seq(Frames) /\ Len(r) = Len(q) - 1 /\ \A i \in 1..Len(r) : r[i] = q[i + 1]
        /\ inbox'[c] = r
    BY <1>3, ReadTakes
  <2>2. cursor'[c] = now /\ seen'[c] = ids
    BY <1>3, ReadTakes DEF Typed
  <2>3. InOrder(q, cursor[c], nextEventId - 1)
    BY DEF Ordered
  <2>4. cursor[c] \in Nat /\ f.id \in Nat /\ seen[c] \in Seq(Nat)
    BY <2>1, StreamBoundsAssumption DEF Typed, Frames
  <2>5. 1 \in 1..Len(q) /\ f = q[1]
    BY <2>1
  <2> HIDE DEF q, r, f
  <2>6. (f.id # 0 => cursor[c] < f.id) /\ (f.kind = "status" => f.id # 0)
    BY <2>3, <2>5 DEF InOrder
  <2>7. /\ \A i \in 1..Len(seen[c]) : \E j \in 1..Len(ids) : ids[j] = seen[c][i]
        /\ f.kind = "status" => \E j \in 1..Len(ids) : ids[j] = f.id
    <3>1. CASE f.kind = "status"
      <4> DEFINE m == Append(seen[c], f.id)
      <4>1. /\ Len(m) = Len(seen[c]) + 1 /\ m[Len(seen[c]) + 1] = f.id /\ Len(seen[c]) \in Nat
            /\ \A i \in 1..Len(seen[c]) : m[i] = seen[c][i]
        BY <2>4
      <4>2. ids = m
        BY <3>1
      <4>3. Len(seen[c]) + 1 \in 1..Len(m) /\ \A i \in 1..Len(seen[c]) : i \in 1..Len(m)
        BY <4>1
      <4> HIDE DEF m, ids
      <4> QED BY <4>1, <4>2, <4>3
    <3>2. CASE f.kind # "status"
      BY <3>2
    <3> QED BY <3>1, <3>2
  <2> HIDE DEF ids, on
  <2>8. \A i \in 1..Len(r) : i + 1 \in 1..Len(q) /\ r[i] = q[i + 1]
    BY <2>1
  <2>9. \A k \in 1..Len(q) : k # 1 => k - 1 \in 1..Len(r) /\ r[k - 1] = q[k]
    <3> SUFFICES ASSUME NEW k \in 1..Len(q), k # 1
                 PROVE  k - 1 \in 1..Len(r) /\ r[k - 1] = q[k]
      OBVIOUS
    <3> DEFINE i == k - 1
    <3>1. i \in 1..Len(r) /\ i + 1 = k
      BY <2>1
    <3> HIDE DEF i
    <3>2. r[i] = q[i + 1]
      BY <2>1, <3>1
    <3> QED BY <3>1, <3>2 DEF i
  <2>10. ASSUME NEW n \in 1..Len(log), log[n].kind = "status", since[c] < log[n].id
         PROVE  /\ log[n].id <= now => \E j \in 1..Len(ids) : ids[j] = log[n].id
                /\ now < log[n].id /\ Reaches(on, r, log[n].id) => IsComing(r, log[n].id)
    <3> DEFINE id == log[n].id
    <3>1. id \in Nat /\ id > 0
      BY StreamBoundsAssumption DEF LogInv, Typed
    <3>2. /\ id <= cursor[c] => \E j \in 1..Len(seen[c]) : seen[c][j] = id
          /\ cursor[c] < id /\ Reaches(on, q, id) => IsComing(q, id)
      BY <2>10 DEF Covered, Passes, on, q
    <3> SUFFICES /\ id <= now => \E j \in 1..Len(ids) : ids[j] = id
                 /\ now < id /\ Reaches(on, r, id) => IsComing(r, id)
      OBVIOUS
    <3> HIDE DEF id
    <3>3. CASE id <= cursor[c]
      <4>1. ~ (now < id)
        BY <2>4, <2>6, <3>1, <3>3
      <4>2. \E j \in 1..Len(ids) : ids[j] = id
        BY <2>7, <3>2, <3>3
      <4> QED BY <4>1, <4>2
    <3>4. CASE cursor[c] < id /\ id <= now
      <4>1. now = f.id /\ f.id # 0 /\ id <= f.id
        BY <2>4, <3>1, <3>4
      <4>2. PICK j \in 1..Len(q) : q[j].kind = "status" /\ q[j].id = id
        BY <2>5, <3>2, <3>4, <4>1 DEF Reaches, IsComing
      <4>3. CASE j = 1
        BY <2>5, <2>7, <4>2, <4>3, <2>4, <3>1, <3>4
      <4>4. CASE j # 1
        <5>1. 1 < j
          BY <2>1, <4>2, <4>4
        <5>2. f.id < id
          BY <2>3, <2>5, <3>1, <4>1, <4>2, <5>1 DEF InOrder
        <5> QED BY <2>4, <3>1, <4>1, <5>2
      <4> QED BY <4>3, <4>4
    <3>5. CASE now < id
      <4>1. cursor[c] < id /\ id # f.id
        BY <2>4, <2>6, <3>1, <3>5
      <4>2. Reaches(on, r, id) => Reaches(on, q, id)
        BY <2>8 DEF Reaches
      <4>3. ASSUME IsComing(q, id) PROVE IsComing(r, id)
        <5>1. PICK j \in 1..Len(q) : q[j].kind = "status" /\ q[j].id = id
          BY <4>3 DEF IsComing
        <5>2. j # 1
          BY <2>5, <4>1, <5>1
        <5>3. j - 1 \in 1..Len(r) /\ r[j - 1] = q[j]
          BY <2>9, <5>2
        <5> QED BY <5>1, <5>3 DEF IsComing
      <4> QED BY <2>4, <3>1, <3>2, <3>5, <4>1, <4>2, <4>3
    <3>6. now \in Nat
      BY <2>4
    <3> QED BY <2>4, <3>1, <3>3, <3>4, <3>5, <3>6
  <2>11. \A n \in 1..Len(log) : Passes(log[n], on, r, ids, now, since[c])
    BY <2>10 DEF Passes
  <2> QED BY <1>1, <2>1, <2>2, <2>11 DEF Covered, on
<1> QED BY <1>2, <1>3

\* A client that lost its connection is promised nothing until it is back.
LEMMA CoveredDisconnect ==
  ASSUME Typed, NEW c \in Clients, NEW d \in Clients, Disconnect(d), Covered(c)
  PROVE  Covered(c)'
<1>1. log' = log /\ since' = since /\ cursor' = cursor /\ seen' = seen /\ connected' = connected \ {d}
  BY DisconnectDrops
<1>2. CASE c # d
  <2>1. inbox'[c] = inbox[c] /\ (c \in connected' <=> c \in connected)
    BY <1>1, <1>2, DisconnectDrops DEF Typed
  <2> QED BY <1>1, <2>1 DEF Covered
<1>3. CASE c = d
  <2>1. inbox'[c] = <<>> /\ c \notin connected'
    BY <1>1, <1>3, DisconnectDrops DEF Typed
  <2>2. Len(<<>>) = 0 /\ 1..0 = {}
    OBVIOUS
  <2>3. \A id : ~Reaches(c \in connected', inbox'[c], id)
    BY <2>1, <2>2 DEF Reaches
  <2> QED BY <1>1, <2>3 DEF Covered, Passes
<1> QED BY <1>2, <1>3

LEMMA CoveredStep ==
  ASSUME Typed, LogInv, [Next]_vars, NEW c \in Clients, Bounded(c),
         behind[c] = 0 => Ordered(c) /\ Covered(c)
  PROVE  behind'[c] = 0 => Covered(c)'
<1>1. CASE Quiet
  <2>1. log' = log \/ Len(log') = 0
    BY <1>1 DEF Quiet
  <2>2. 1..0 = {}
    OBVIOUS
  <2> QED BY <1>1, <2>1, <2>2 DEF Quiet, client, Covered
<1>2. CASE \E d \in Clients : \E from : Attach(d, from)
  BY <1>2, CoveredAttach
<1>3. CASE \E d \in Clients : Read(d) \/ Disconnect(d)
  <2>1. behind' = behind
    BY <1>3, ReadTakes, DisconnectDrops
  <2> QED BY <1>3, <2>1, CoveredRead, CoveredDisconnect
<1>4. CASE \E f, last : SentTo(c, f, last)
  <2>1. behind'[c] = behind[c]
    BY <1>4 DEF SentTo
  <2> QED BY <1>4, <2>1, CoveredEmit
<1>5. CASE \E from, f, last : Streamed(c, from, f, last)
  BY <1>5, CoveredStream
<1> QED BY <1>1, <1>2, <1>3, <1>4, <1>5, StepsOf

\* Who is connected and reads in order has read or will read all it asked for,
LEMMA CoveredAwaits ==
  ASSUME NEW c \in Clients, Typed, LogInv, Covered(c)
  PROVE  Awaited(c)
<1> SUFFICES ASSUME c \in connected, NEW i \in 1..Len(log), log[i].kind = "status",
                    since[c] < log[i].id
             PROVE  (\E j \in 1..Len(seen[c]) : seen[c][j] = log[i].id) \/ IsComing(inbox[c], log[i].id)
  BY DEF Awaited, Expected
<1>1. Passes(log[i], c \in connected, inbox[c], seen[c], cursor[c], since[c])
  BY DEF Covered
<1>2. log[i].id \in Nat /\ cursor[c] \in Nat
  BY StreamBoundsAssumption DEF Typed, LogInv
<1> QED BY <1>1, <1>2 DEF Passes, Reaches

\* and who is sent more does whatever the order.
LEMMA AwaitedEmit ==
  ASSUME Typed, LogInv, NEW f, NEW last, NEW c \in Clients, SentTo(c, f, last), Awaited(c)
  PROVE  Awaited(c)'
<1> DEFINE q == inbox[c]  r == inbox'[c]
<1> SUFFICES ASSUME c \in connected', NEW i \in 1..Len(log')
             PROVE  Expected(log'[i], r, seen'[c], since'[c])
  BY DEF Awaited
<1>1. /\ c \in connected /\ last = <<>> /\ r = q \o <<f>> \o last
      /\ seen'[c] = seen[c] /\ since'[c] = since[c] /\ log' = Log(f) /\ f \in Frames
  BY DEF SentTo, Logged
<1>2. q \in Seq(Frames) /\ <<f>> \in Seq(Frames) /\ Len(<<f>>) = 1 /\ <<f>>[1] = f /\ 1 \in 1..1
  BY <1>1 DEF Typed
<1>3. r = q \o <<f>>
  BY <1>1, <1>2, JoinHas, ConcatEmptySeq
<1>4. log'[i] = f \/ \E n \in 1..Len(log) : log'[i] = log[n]
  BY <1>1, OlderIs
<1>5. \A n \in 1..Len(log) : Expected(log[n], q, seen[c], since[c])
  BY <1>1 DEF Awaited
<1> HIDE DEF q, r
<1>6. /\ \A j \in 1..Len(q) : \E k \in 1..Len(r) : r[k] = q[j]
      /\ \E k \in 1..Len(r) : r[k] = f
  BY <1>2, <1>3, JoinHas
<1>7. \A id : IsComing(q, id) => IsComing(r, id)
  BY <1>6 DEF IsComing
<1>8. CASE log'[i] = f
  BY <1>6, <1>8 DEF Expected, IsComing
<1>9. CASE \E n \in 1..Len(log) : log'[i] = log[n]
  BY <1>1, <1>5, <1>7, <1>9 DEF Expected
<1> QED BY <1>4, <1>8, <1>9

LEMMA AwaitedRead ==
  ASSUME Typed, NEW c \in Clients, NEW d \in Clients, Read(d), Awaited(c)
  PROVE  Awaited(c)'
<1>1. log' = log /\ since' = since /\ connected' = connected
  BY ReadTakes
<1>2. CASE c # d
  <2>1. inbox'[c] = inbox[c] /\ seen'[c] = seen[c]
    BY <1>2, ReadTakes DEF Typed
  <2> QED BY <1>1, <2>1 DEF Awaited
<1>3. CASE c = d
  <2> DEFINE q == inbox[c]  r == inbox'[c]  ids == seen'[c]
  <2>1. /\ q \in Seq(Frames) /\ Len(q) \in Nat /\ Len(q) > 0 /\ q[1] \in Frames
        /\ r \in Seq(Frames) /\ Len(r) = Len(q) - 1 /\ \A i \in 1..Len(r) : r[i] = q[i + 1]
        /\ seen[c] \in Seq(Nat)
    <3>1. q \in Seq(Frames) /\ seen[c] \in Seq(Nat)
      BY DEF Typed
    <3>2. /\ Len(q) \in Nat /\ Len(q) > 0 /\ q[1] \in Frames /\ inbox'[c] = Tail(q)
          /\ Tail(q) \in Seq(Frames) /\ Len(Tail(q)) = Len(q) - 1
          /\ \A i \in 1..Len(Tail(q)) : Tail(q)[i] = q[i + 1]
      BY <1>3, ReadTakes
    <3> QED BY <3>1, <3>2
  <2>2. ids = IF q[1].kind = "status" THEN Append(seen[c], q[1].id) ELSE seen[c]
    BY <1>3, ReadTakes DEF Typed
  <2>3. q[1].id \in Nat
    BY <2>1 DEF Frames
  <2> HIDE DEF q, r, ids
  <2>4. /\ \A i \in 1..Len(seen[c]) : \E j \in 1..Len(ids) : ids[j] = seen[c][i]
        /\ q[1].kind = "status" => \E j \in 1..Len(ids) : ids[j] = q[1].id
    <3>1. CASE q[1].kind = "status"
      <4> DEFINE m == Append(seen[c], q[1].id)
      <4>1. /\ Len(m) = Len(seen[c]) + 1 /\ m[Len(seen[c]) + 1] = q[1].id /\ Len(seen[c]) \in Nat
            /\ \A i \in 1..Len(seen[c]) : m[i] = seen[c][i]
        BY <2>1, <2>3
      <4>2. ids = m
        BY <2>2, <3>1
      <4>3. Len(seen[c]) + 1 \in 1..Len(m) /\ \A i \in 1..Len(seen[c]) : i \in 1..Len(m)
        BY <4>1
      <4> HIDE DEF m
      <4> QED BY <4>1, <4>2, <4>3
    <3>2. CASE q[1].kind # "status"
      BY <2>2, <3>2
    <3> QED BY <3>1, <3>2
  <2>5. \A k \in 1..Len(q) : k # 1 => \E j \in 1..Len(r) : r[j] = q[k]
    <3> SUFFICES ASSUME NEW k \in 1..Len(q), k # 1 PROVE \E j \in 1..Len(r) : r[j] = q[k]
      OBVIOUS
    <3> DEFINE i == k - 1
    <3>1. i \in 1..Len(r) /\ i + 1 = k
      BY <2>1
    <3> HIDE DEF i
    <3> QED BY <2>1, <3>1
  <2>6. ASSUME c \in connected, NEW n \in 1..Len(log), Expected(log[n], q, seen[c], since[c])
        PROVE  Expected(log[n], r, ids, since[c])
    BY <2>4, <2>5, <2>6 DEF Expected, IsComing
  <2> QED BY <1>1, <2>6 DEF Awaited, q, r, ids
<1> QED BY <1>2, <1>3

LEMMA AwaitedStep ==
  ASSUME Typed, LogInv, [Next]_vars, Typed', LogInv', NEW c \in Clients, Bounded(c),
         behind[c] = 0 => Ordered(c) /\ Covered(c), Awaited(c)
  PROVE  Awaited(c)'
<1>1. CASE Quiet
  <2>1. log' = log \/ Len(log') = 0
    BY <1>1 DEF Quiet
  <2>2. 1..0 = {}
    OBVIOUS
  <2> QED BY <1>1, <2>1, <2>2 DEF Quiet, client, Awaited
<1>2. CASE \E d \in Clients : Disconnect(d)
  <2>1. PICK d \in Clients : Disconnect(d)
    BY <1>2
  <2>2. /\ inbox' = [inbox EXCEPT ![d] = <<>>] /\ connected' = connected \ {d}
        /\ log' = log /\ since' = since /\ seen' = seen
    BY <2>1, DisconnectDrops
  <2>3. c \in connected' => c \in connected /\ inbox'[c] = inbox[c]
    BY <2>2 DEF Typed
  <2> QED BY <2>2, <2>3 DEF Awaited
<1>3. CASE \E d \in Clients : Read(d)
  BY <1>3, AwaitedRead
<1>4. CASE \E f, last : SentTo(c, f, last)
  BY <1>4, AwaitedEmit
<1>5. CASE \E d \in Clients : \E from : Attach(d, from)
  <2>1. PICK d \in Clients : \E from : Attach(d, from)
    BY <1>5
  <2>2. PICK from : Attach(d, from)
    BY <2>1
  <2>3. CASE d = c
    <3>1. behind'[c] = 0
      BY <2>2, <2>3, AttachSends
    <3>2. Covered(c)'
      BY <3>1, CoveredStep
    <3> QED BY <3>2, CoveredAwaits, PTL
  <2>4. CASE d # c
    <3>1. /\ inbox'[c] = inbox[c] /\ (c \in connected' <=> c \in connected) /\ log' = log
          /\ since'[c] = since[c] /\ seen'[c] = seen[c]
      BY <2>2, <2>4, AttachSends, AskedFrom
    <3> QED BY <3>1 DEF Awaited
  <2> QED BY <2>3, <2>4
<1>6. CASE \E from, f, last : Streamed(c, from, f, last)
  <2>1. PICK from, f, last : Streamed(c, from, f, last)
    BY <1>6
  <2>2. log' = Log(f)
    BY <2>1, StreamSends DEF Logged
  <2>3. ASSUME NEW i \in 1..Len(log') PROVE Expected(log'[i], inbox'[c], seen'[c], since'[c])
    BY <2>1, <2>2, StreamPasses DEF Expected
  <2> QED BY <2>3 DEF Awaited
<1> QED BY <1>1, <1>2, <1>3, <1>4, <1>5, <1>6, StepsOf

-----------------------------------------------------------------------------
(* Reading leads to the task *)

\* One more frame leads the last copy to what the task has become, and a frame that
\* shows the state makes up for what was sent out of order.
LEMMA AheadEmit ==
  ASSUME Typed, LogInv, NEW f, NEW last, NEW c \in Clients, SentTo(c, f, last), Bounded(c), Ahead(c)
  PROVE  Ahead(c)'
<1> SUFFICES ASSUME c \in connected', behind'[c] = 0 \/ Shown(log', behind'[c])
             PROVE  LeadsTo(view'[c], inbox'[c], state', turns', content')
  BY DEF Ahead
<1> DEFINE q == inbox[c]
           heard == behind[c] = 0 \/ Shown(log, behind[c])
<1>1. /\ q \in Seq(Frames) /\ Len(q) \in Nat /\ f \in Frames /\ c \in connected /\ last = <<>>
      /\ view'[c] = view[c] /\ view[c] \in Copies /\ f.kind # "task"
      /\ behind'[c] = behind[c] /\ log' = Log(f)
  BY DEF Typed, SentTo, Logged
<1>2. inbox'[c] = Append(q, f)
  <2>1. inbox'[c] = q \o <<f>> \o <<>>
    BY <1>1 DEF SentTo
  <2>2. Append(q, f) = q \o <<f>> /\ Append(q, f) \in Seq(Frames)
    BY <1>1, AppendIsConcat
  <2>3. Append(q, f) \o <<>> = Append(q, f)
    BY <2>2, ConcatEmptySeq
  <2> QED BY <2>1, <2>2, <2>3
<1>3. PICK g : /\ Leads(g, view[c], q)
               /\ heard => g[Len(q)].state = state /\ (turns <= 1 => g[Len(q)].parts = content)
  <2>1. CASE heard
    BY <1>1, <2>1 DEF Ahead, LeadsTo
  <2>2. CASE ~heard
    BY <1>1, <2>2, LeadsSomewhere
  <2> QED BY <2>1, <2>2
<1> HIDE DEF q
<1>4. PICK h : Leads(h, view[c], Append(q, f)) /\ h[Len(Append(q, f))] = Apply(g[Len(q)], f)
  BY <1>1, <1>3, LeadsOn
<1>5. g[Len(q)] \in Copies /\ g[Len(q)].state \in TaskState /\ g[Len(q)].parts \in Seq(Nat)
  BY <1>1, <1>3 DEF Leads, Copies
<1> DEFINE v == g[Len(q)]
           w == Apply(v, f)
<1>6. heard => v.state = state /\ (turns <= 1 => v.parts = content)
  BY <1>3
<1>7. turns' <= 1 => turns <= 1 /\ behind[c] = 0
  <2>1. turns \in Nat /\ turns' \in {turns, turns + 1} /\ (behind[c] # 0 => turns > 1)
    BY StreamBoundsAssumption DEF SentTo, Logged, Typed, Bounded
  <2> QED BY <2>1
<1>8. CASE f.kind = "artifact"
  <2>1. w.state = v.state /\ w.parts = IF f.append THEN v.parts \o f.parts ELSE f.parts
    BY <1>5, <1>8 DEF Apply, Copies
  <2>2. state' = state /\ content' = IF f.append THEN content \o f.parts ELSE f.parts
    BY <1>8 DEF SentTo, Logged
  <2>3. heard
    <3>1. \A i \in 1..Len(Log(f)) : Log(f)[i] = f \/ \E n \in 1..Len(log) : Log(f)[i] = log[n]
      BY <1>1, OlderIs
    <3>2. Shown(Log(f), behind[c]) => Shown(log, behind[c])
      BY <1>8, <3>1 DEF Shown
    <3> QED BY <1>1, <3>2
  <2>4. w.state = state' /\ (turns' <= 1 => w.parts = content')
    BY <1>6, <1>7, <2>1, <2>2, <2>3
  <2> QED BY <1>1, <1>2, <1>4, <2>4 DEF LeadsTo
<1>9. CASE f.kind # "artifact"
  <2>1. f.kind = "status"
    BY <1>1, <1>9 DEF Frames
  <2>2. w.state = f.state /\ w.parts = v.parts
    BY <1>5, <2>1 DEF Apply, Copies
  <2>3. state' = f.state /\ content' = content
    BY <1>9 DEF SentTo, Logged
  <2>4. w.state = state' /\ (turns' <= 1 => w.parts = content')
    BY <1>6, <1>7, <2>2, <2>3
  <2> QED BY <1>1, <1>2, <1>4, <2>4 DEF LeadsTo
<1> QED BY <1>8, <1>9

\* In the first turn a replay holds status frames only.
LEMMA ReplayHoldsStatus ==
  ASSUME Typed, LogInv, TurnInv, ~IsSettled(state), turns <= 1, NEW from \in Nat,
         NEW i \in 1..Len(Replay(log, from))
  PROVE  Replay(log, from)[i].kind = "status"
<1>1. from # 0
  <2>1. Len(<<>>) = 0 /\ 1..0 = {}
    OBVIOUS
  <2> QED BY <2>1 DEF Replay
<1>2. log \in Seq(Frames) /\ Rising(log)
  BY DEF Typed, LogInv
<1>3. Replays(log, Replay(log, from), Len(log), from)
  BY <1>1, <1>2, ReplayHolds
<1>4. PICK n \in 1..Len(log) : Replay(log, from)[i] = log[n] /\ Replayable(log[n], from)
  BY <1>3 DEF Replays
<1>5. log[n].kind # "task"
  <2>1. turns \in Nat
    BY StreamBoundsAssumption DEF Typed
  <2>2. running \/ turns = 0
    BY <2>1 DEF TurnInv
  <2> QED BY <2>2 DEF TurnInv
<1>6. log[n] \in Frames
  BY <1>2
<1> QED BY <1>4, <1>5, <1>6 DEF Replayable, Frames

\* The opening frames of a connection lead its client's copy to the task.
LEMMA OpeningLeads ==
  ASSUME Typed, LogInv, TurnInv, NEW c \in Clients, NEW from \in Nat, ~IsSettled(state)
  PROVE  LeadsTo(view[c], Opening(from), state, turns, content)
<1> DEFINE now == Snapshot(state, content)
           r == Replay(log, from)
           q == Opening(from)
<1>1. now \in Frames /\ now.kind = "task" /\ now.state = state /\ now.parts = content
  BY SnapshotType
<1>2. view[c] \in Copies /\ log \in Seq(Frames) /\ Rising(log)
  BY DEF Typed, LogInv
<1>3. r \in Seq(Frames) /\ Len(r) \in Nat
  BY ReplayInOrder
<1>4. <<now>> \in Seq(Frames) /\ Len(<<now>>) = 1 /\ <<now>>[1] = now
  BY <1>1
<1>5. q = <<now>> \o r
  <2>1. q = <<now>> \o r \o <<>>
    BY DEF Opening
  <2>2. <<now>> \o r \in Seq(Frames)
    BY <1>3, <1>4, JoinHas
  <2> QED BY <2>1, <2>2, ConcatEmptySeq
<1>6. ASSUME NEW i \in 1..Len(r) PROVE r[i].kind # "artifact" /\ (turns <= 1 => r[i].kind = "status")
  <2>1. from # 0
    <3>1. Len(<<>>) = 0 /\ 1..0 = {}
      OBVIOUS
    <3> QED BY <1>6, <3>1 DEF Replay
  <2>2. Replays(log, r, Len(log), from)
    BY <1>2, <2>1, ReplayHolds
  <2>3. r[i].kind # "artifact"
    BY <2>2 DEF Replays, Replayable
  <2>4. turns <= 1 => r[i].kind = "status"
    BY <1>2, ReplayHoldsStatus
  <2> QED BY <2>3, <2>4
<1>7. Len(r) > 0 => r[Len(r)].state = state
  <2>1. Len(r) > 0 => from # 0
    <3>1. Len(<<>>) = 0
      OBVIOUS
    <3> QED BY <3>1 DEF Replay
  <2> QED BY <1>2, <2>1, ReplayHolds, ReplayEndsNow
<1> HIDE DEF now, r, q
<1>8. q \in Seq(Frames) /\ Len(q) = 1 + Len(r)
  BY <1>3, <1>4, <1>5, JoinHas
<1>9. /\ q[1] = now
      /\ \A i \in 1..Len(q) : i # 1 => i - 1 \in 1..Len(r) /\ q[i] = r[i - 1]
  <2>1. \A i \in 1..(Len(<<now>>) + Len(r)) :
           (<<now>> \o r)[i] = IF i <= Len(<<now>>) THEN <<now>>[i] ELSE r[i - Len(<<now>>)]
    BY <1>3, <1>4, ConcatProperties
  <2>2. \A i \in 1..(1 + Len(r)) : q[i] = IF i <= 1 THEN <<now>>[i] ELSE r[i - 1]
    BY <1>4, <1>5, <2>1
  <2>3. 1 \in 1..(1 + Len(r)) /\ \A i \in 1..(1 + Len(r)) : i # 1 => ~(i <= 1) /\ i - 1 \in 1..Len(r)
    BY <1>3
  <2> QED BY <1>4, <1>8, <2>2, <2>3
<1>10. PICK g : Leads(g, view[c], q)
  BY <1>2, <1>8, LeadsSomewhere
<1>11. ASSUME NEW i \in 1..Len(q) PROVE g[i] = Apply(g[i - 1], q[i]) /\ g[i - 1] \in Copies
  <2>1. i - 1 \in 0..Len(q)
    BY <1>3, <1>8
  <2> QED BY <1>10, <2>1 DEF Leads
<1>12. g[1].state = state /\ g[1].parts = content
  <2>1. 1 \in 1..Len(q)
    BY <1>3, <1>8
  <2>2. g[1] = Apply(g[1 - 1], now)
    BY <1>9, <1>11, <2>1
  <2>3. g[1] = [state |-> now.state, parts |-> now.parts]
    BY <1>1, <2>2 DEF Apply
  <2> QED BY <1>1, <2>3
<1>13. g[Len(q)].state = state
  <2>1. CASE Len(r) = 0
    BY <1>8, <1>12, <2>1
  <2>2. CASE Len(r) > 0
    <3>1. Len(q) \in 1..Len(q) /\ Len(q) # 1 /\ Len(q) - 1 = Len(r) /\ Len(r) \in 1..Len(r)
      BY <1>3, <1>8, <2>2
    <3>2. q[Len(q)] = r[Len(r)] /\ r[Len(r)].state = state /\ r[Len(r)].kind # "artifact"
      BY <1>6, <1>7, <1>9, <2>2, <3>1
    <3>3. g[Len(q)] = Apply(g[Len(q) - 1], q[Len(q)]) /\ g[Len(q) - 1] \in Copies
      BY <1>11, <3>1
    <3>4. \A v \in Copies, f \in Frames : f.kind # "artifact" => Apply(v, f).state = f.state
      BY DEF Apply, Copies, Frames
    <3> QED BY <1>8, <3>1, <3>2, <3>3, <3>4
  <2> QED BY <1>3, <2>1, <2>2
<1>14. ASSUME turns <= 1 PROVE g[Len(q)].parts = content
  <2> DEFINE same == {i \in 0..Len(q) : i = 0 \/ g[i].parts = content}
  <2>1. 0 \in same
    BY <1>3, <1>8
  <2>2. ASSUME NEW i \in 1..Len(q), i - 1 \in same PROVE i \in same
    <3>1. CASE i = 1
      BY <1>12, <3>1
    <3>2. CASE i # 1
      <4>1. q[i].kind = "status" /\ q[i] \in Frames
        BY <1>6, <1>8, <1>9, <1>14, <3>2
      <4>2. \A v \in Copies, f \in Frames : f.kind = "status" => Apply(v, f).parts = v.parts
        BY DEF Apply, Copies, Frames
      <4>3. g[i].parts = g[i - 1].parts
        BY <1>11, <4>1, <4>2
      <4>4. g[i - 1].parts = content
        BY <2>2, <3>2
      <4> QED BY <4>3, <4>4
    <3> QED BY <3>1, <3>2
  <2>3. 0..Len(q) \subseteq same
    <3> HIDE DEF same
    <3>1. Len(q) \in Nat
      BY <1>8
    <3> QED BY <2>1, <2>2, <3>1, UpTo
  <2>4. Len(q) \in 0..Len(q) /\ Len(q) # 0
    BY <1>3, <1>8
  <2> QED BY <2>3, <2>4
<1> QED BY <1>10, <1>13, <1>14 DEF LeadsTo, q

\* A new connection leads to the task, if the task is not settled.
LEMMA AheadAttach ==
  ASSUME Typed, LogInv, TurnInv, NEW c \in Clients, NEW d \in Clients, NEW from, Attach(d, from),
         Ahead(c)
  PROVE  Ahead(c)'
<1>1. /\ view' = view /\ log' = log /\ state' = state /\ turns' = turns /\ content' = content
      /\ AsksFrom(d, from)
  BY AttachSends DEF task
<1>2. CASE c # d
  <2>1. inbox'[c] = inbox[c] /\ behind'[c] = behind[c] /\ (c \in connected' <=> c \in connected)
    BY <1>2, AttachSends
  <2> QED BY <1>1, <2>1 DEF Ahead
<1>3. CASE c = d /\ ~IsSettled(state)
  <2>1. inbox'[c] = Opening(from) /\ from \in Nat
    BY <1>1, <1>3, AttachSends, AskedFrom
  <2> QED BY <1>1, <1>3, <2>1, OpeningLeads DEF Ahead
<1>4. CASE c = d /\ IsSettled(state)
  <2>1. c \notin connected'
    BY <1>1, <1>4, AttachSends, AskedFrom
  <2> QED BY <2>1 DEF Ahead
<1> QED BY <1>2, <1>3, <1>4

\* So does the snapshot with a turn's first frame, if nothing is replayed behind it.
LEMMA AheadStream ==
  ASSUME Typed, LogInv, NEW c \in Clients, NEW from, NEW f, NEW last, Streamed(c, from, f, last)
  PROVE  Ahead(c)'
<1> SUFFICES ASSUME c \in connected', behind'[c] = 0 \/ Shown(log', behind'[c])
             PROVE  LeadsTo(view'[c], inbox'[c], state', turns', content')
  BY DEF Ahead
<1> DEFINE now == Snapshot(state, content)
<1>1. /\ Logged(f) /\ AsksFrom(c, from) /\ f \in Frames /\ f.id = nextEventId
      /\ inbox'[c] = TurnOpening(from, f) \o last
      /\ behind'[c] = IF Replay(Older, from) = <<>> THEN 0 ELSE f.id
      /\ view'[c] = view[c] /\ last = <<>> /\ f.kind = "status"
  BY StreamSends
<1>2. /\ from \in Nat /\ view[c] \in Copies /\ nextEventId \in Nat /\ nextEventId # 0
      /\ \A i \in 1..Len(log) : log[i].id \in 1..(nextEventId - 1)
  BY <1>1, AskedFrom, StreamBoundsAssumption DEF Typed, LogInv
<1>3. now \in Frames /\ now.kind = "task" /\ now.state = state /\ now.parts = content
  BY SnapshotType
<1>4. Replay(Older, from) = <<>>
  <2>1. \A i \in 1..Len(Log(f)) : Log(f)[i] = f \/ \E n \in 1..Len(log) : Log(f)[i] = log[n]
    BY <1>1, OlderIs
  <2>2. \A i \in 1..Len(Log(f)) : ~(Log(f)[i].id > nextEventId)
    BY <1>1, <1>2, <2>1
  <2>3. log' = Log(f)
    BY <1>1 DEF Logged
  <2>4. ~Shown(log', nextEventId)
    BY <2>2, <2>3 DEF Shown
  <2> QED BY <1>1, <1>2, <2>4
<1> HIDE DEF now
<1>5. inbox'[c] = Append(<<now>>, f)
  <2>1. <<now, f>> \in Seq(Frames) /\ TurnOpening(from, f) = <<now, f>> \o <<>>
    BY <1>1, <1>2, <1>4, TurnOpeningIs DEF now
  <2>2. <<now, f>> \o <<>> = <<now, f>>
    BY <2>1, ConcatEmptySeq
  <2>3. <<now, f>> = Append(<<now>>, f)
    OBVIOUS
  <2> QED BY <1>1, <2>1, <2>2, <2>3
<1>6. <<now>> \in Seq(Frames) /\ Len(<<now>>) = 1 /\ <<now>>[1] = now /\ 1 \in 1..1 /\ 1 - 1 = 0
  BY <1>3
<1>7. PICK g : Leads(g, view[c], <<now>>)
  BY <1>2, <1>6, LeadsSomewhere
<1>8. g[1] = [state |-> state, parts |-> content]
  BY <1>3, <1>6, <1>7 DEF Leads, Apply
<1>9. PICK h : Leads(h, view[c], Append(<<now>>, f)) /\ h[Len(Append(<<now>>, f))] = Apply(g[1], f)
  BY <1>1, <1>6, <1>7, LeadsOn
<1>10. Apply(g[1], f).state = f.state /\ Apply(g[1], f).parts = content
  BY <1>1, <1>8 DEF Apply
<1>11. state' = f.state /\ content' = content
  BY <1>1 DEF Logged
<1> QED BY <1>1, <1>5, <1>9, <1>10, <1>11 DEF LeadsTo

\* The copy moves one frame on.
LEMMA AheadRead ==
  ASSUME Typed, NEW c \in Clients, NEW d \in Clients, Read(d), Ahead(c)
  PROVE  Ahead(c)'
<1>1. /\ connected' = connected /\ state' = state /\ turns' = turns /\ content' = content
      /\ log' = log /\ behind' = behind
  BY ReadTakes DEF task
<1>2. CASE c # d
  <2>1. inbox'[c] = inbox[c] /\ view'[c] = view[c]
    BY <1>2, ReadTakes DEF Typed
  <2> QED BY <1>1, <2>1 DEF Ahead
<1>3. CASE c = d
  <2> DEFINE q == inbox[c]
  <2>1. /\ q \in Seq(Frames) /\ Len(q) > 0 /\ Head(q) = q[1] /\ inbox'[c] = Tail(q)
    BY <1>3, ReadTakes
  <2>2. view'[c] = Apply(view[c], q[1])
    BY <1>3, ReadTakes DEF Typed
  <2>3. q # <<>>
    BY <2>1
  <2> HIDE DEF q
  <2>4. ASSUME c \in connected, behind[c] = 0 \/ Shown(log, behind[c])
        PROVE  LeadsTo(Apply(view[c], Head(q)), Tail(q), state, turns, content)
    <3>1. PICK g : /\ Leads(g, view[c], q) /\ g[Len(q)].state = state
                   /\ turns <= 1 => g[Len(q)].parts = content
      BY <2>4 DEF Ahead, LeadsTo, q
    <3>2. PICK h : Leads(h, Apply(view[c], Head(q)), Tail(q)) /\ h[Len(Tail(q))] = g[Len(q)]
      BY <2>1, <2>3, <3>1, LeadsFrom
    <3> QED BY <3>1, <3>2 DEF LeadsTo
  <2> QED BY <1>1, <2>1, <2>2, <2>4 DEF Ahead
<1> QED BY <1>2, <1>3

\* Nothing is promised to who is not connected.
LEMMA AheadDisconnect ==
  ASSUME Typed, NEW c \in Clients, NEW d \in Clients, Disconnect(d), Ahead(c)
  PROVE  Ahead(c)'
<1>1. /\ connected' = connected \ {d} /\ view' = view /\ log' = log /\ behind' = behind
      /\ state' = state /\ turns' = turns /\ content' = content
  BY DisconnectDrops DEF task
<1>2. CASE c # d
  <2>1. inbox'[c] = inbox[c]
    BY <1>2, DisconnectDrops DEF Typed
  <2> QED BY <1>1, <2>1 DEF Ahead
<1>3. CASE c = d
  BY <1>1, <1>3 DEF Ahead
<1> QED BY <1>2, <1>3

LEMMA AheadStep ==
  ASSUME Typed, LogInv, TurnInv, [Next]_vars, NEW c \in Clients, Bounded(c), Ahead(c)
  PROVE  Ahead(c)'
<1>1. CASE Quiet
  <2>1. log' = log \/ Len(log') = 0
    BY <1>1 DEF Quiet
  <2>2. 1..0 = {}
    OBVIOUS
  <2>3. Shown(log', behind[c]) => Shown(log, behind[c])
    BY <2>1, <2>2 DEF Shown
  <2> QED BY <1>1, <2>3 DEF Quiet, task, client, Ahead
<1>2. CASE \E d \in Clients : \E from : Attach(d, from)
  BY <1>2, AheadAttach
<1>3. CASE \E d \in Clients : Read(d) \/ Disconnect(d)
  BY <1>3, AheadRead, AheadDisconnect
<1>4. CASE \E f, last : SentTo(c, f, last)
  BY <1>4, AheadEmit
<1>5. CASE \E from, f, last : Streamed(c, from, f, last)
  BY <1>5, AheadStream
<1> QED BY <1>1, <1>2, <1>3, <1>4, <1>5, StepsOf

-----------------------------------------------------------------------------
(* The log, the turns and the types *)

\* The frame that is emitted is past all retained ones and shows the state.
LEMMA LogEmit ==
  ASSUME Typed, LogInv, NEW f, Logged(f)
  PROVE  LogInv'
<1> DEFINE r == Log(f)  L == Len(log)
<1>1. /\ f \in Frames /\ f.id = nextEventId /\ log' = r /\ nextEventId' = nextEventId + 1
      /\ nextEventId \in Nat /\ nextEventId > 0 /\ L \in Nat /\ log \in Seq(Frames)
  BY StreamBoundsAssumption DEF Typed, Logged
<1>2. PICK d \in {0, 1} :
        /\ Len(r) = L + 1 - d
        /\ \A i \in 1..Len(r) : \/ i + d \in 1..L /\ r[i] = log[i + d]
                                \/ i + d = L + 1 /\ r[i] = f
  BY <1>1, LogIs
<1>3. Len(r) \in Nat /\ Len(r) = L + 1 - d
  BY <1>1, <1>2
<1> HIDE DEF r, L
<1>4. \A i \in 1..L : log[i].id \in 1..(nextEventId - 1)
  BY DEF LogInv, L
<1>5. ASSUME NEW i \in 1..Len(r) PROVE r[i].id \in 1..nextEventId
  BY <1>1, <1>2, <1>4
<1>6. ASSUME NEW i \in 1..Len(r), NEW j \in 1..Len(r), i < j PROVE r[i].id < r[j].id
  <2> DEFINE k == i + d  n == j + d
  <2>1. k < n /\ n <= L + 1 /\ k \in 1..L
    BY <1>1, <1>2, <1>3, <1>6
  <2>2. \/ n \in 1..L /\ r[j] = log[n]
        \/ n = L + 1 /\ r[j] = f
    BY <1>2
  <2>3. k # L + 1
    BY <1>1, <2>1
  <2>4. r[i] = log[k]
    BY <1>2, <2>3
  <2> HIDE DEF k, n
  <2>5. CASE n \in 1..L /\ r[j] = log[n]
    <3>1. log[k].id < log[n].id
      BY <2>1, <2>5 DEF LogInv, Rising, L
    <3> QED BY <2>4, <2>5, <3>1
  <2>6. CASE n = L + 1 /\ r[j] = f
    <3>1. log[k].id \in 1..(nextEventId - 1)
      BY <1>4, <2>1
    <3> QED BY <1>1, <2>4, <2>6, <3>1
  <2> QED BY <2>2, <2>5, <2>6
<1>7. ASSUME NEW i \in 1..Len(r), r[i].kind # "artifact",
             \A j \in 1..Len(r) : i < j => r[j].kind = "artifact"
      PROVE  r[i].state = state'
  <2>1. Len(r) + d = L + 1
    BY <1>1, <1>2
  <2>2. CASE r[i] = f
    BY <1>7, <2>2 DEF Logged
  <2>3. CASE i + d \in 1..L /\ r[i] = log[i + d]
    <3> DEFINE k == i + d  top == Len(r)
    <3>1. i < top /\ top \in 1..Len(r) /\ ~(top + d \in 1..L)
      BY <1>1, <1>3, <2>1, <2>3
    <3>2. r[top] = f
      BY <1>2, <3>1
    <3>3. f.kind = "artifact"
      BY <1>7, <3>1, <3>2
    <3>4. ASSUME NEW m \in 1..L, k < m PROVE log[m].kind = "artifact"
      <4> DEFINE j == m - d
      <4>1. j \in 1..Len(r) /\ i < j /\ j + d = m
        BY <1>1, <1>3, <2>1, <3>4
      <4> HIDE DEF j
      <4>2. j + d # L + 1
        BY <1>1, <3>4, <4>1
      <4>3. r[j] = log[j + d]
        BY <1>2, <4>1, <4>2
      <4> QED BY <1>7, <4>1, <4>3
    <3> HIDE DEF k
    <3>5. k \in 1..L /\ r[i] = log[k]
      BY <2>3 DEF k
    <3>6. log[k].state = state
      BY <1>7, <3>4, <3>5 DEF LogInv, L
    <3>7. state' = state
      BY <3>3 DEF Logged
    <3> QED BY <3>5, <3>6, <3>7
  <2> QED BY <1>2, <2>2, <2>3
<1>8. nextEventId' - 1 = nextEventId
  BY <1>1
<1> QED BY <1>1, <1>5, <1>6, <1>7, <1>8 DEF LogInv, Rising

LEMMA LogStep ==
  ASSUME Typed, LogInv, [Next]_vars
  PROVE  LogInv'
<1>1. CASE Quiet /\ log' = log
  BY <1>1 DEF Quiet, task, LogInv
<1>2. CASE Quiet /\ log' = <<>>
  <2>1. 1..Len(log') = {}
    BY <1>2
  <2> QED BY <2>1 DEF LogInv, Rising
<1>3. CASE \/ \E d \in Clients : \E from : Attach(d, from)
           \/ \E d \in Clients : Read(d) \/ Disconnect(d)
  <2>1. log' = log /\ nextEventId' = nextEventId /\ state' = state
    BY <1>3, AttachSends, ReadTakes, DisconnectDrops DEF task
  <2> QED BY <2>1 DEF LogInv
<1>4. CASE \E f, last : Emitted(f, last)
  BY <1>4, LogEmit DEF Emitted
<1>5. CASE \E d \in Clients : \E from, f, last : Streamed(d, from, f, last)
  BY <1>5, LogEmit DEF Streamed
<1> QED BY <1>1, <1>2, <1>3, <1>4, <1>5, ActionsAre DEF Quiet

\* Only a task frame brings one into the log.
LEMMA NoTaskFrame ==
  ASSUME Typed, NEW f \in Frames, f.kind # "task", log' = Log(f),
         \A i \in 1..Len(log) : log[i].kind # "task"
  PROVE  \A i \in 1..Len(log') : log'[i].kind # "task"
<1>1. \A i \in 1..Len(Log(f)) : Log(f)[i] = f \/ \E n \in 1..Len(log) : Log(f)[i] = log[n]
  BY LogIs
<1> QED BY <1>1

\* Only the end of a turn emits a task frame, or the quota that keeps it from
\* starting, and ends every listener; so none is retained before a second turn.
LEMMA TurnStep ==
  ASSUME Typed, TurnInv, [Next]_vars
  PROVE  TurnInv'
<1>1. turns \in Nat /\ nextEventId \in Nat /\ state \in TaskState
  BY StreamBoundsAssumption DEF Typed
<1>2. ASSUME NEW kind \in {"status", "artifact"}, NEW s \in TaskState, NEW parts \in Seq(Nat),
             NEW append \in BOOLEAN, log' = Log(Frame(nextEventId, kind, s, parts, append)),
             \A i \in 1..Len(log) : log[i].kind # "task"
      PROVE  \A i \in 1..Len(log') : log'[i].kind # "task"
  <2> DEFINE f == Frame(nextEventId, kind, s, parts, append)
  <2>1. f \in Frames /\ f.kind # "task"
    <3>1. f.kind = kind
      BY DEF Frame
    <3> QED BY <1>1, <3>1, FrameType
  <2>2. log' = Log(f)
    BY <1>2
  <2> HIDE DEF f
  <2> QED BY <1>2, <2>1, <2>2, NoTaskFrame
<1>3. /\ "WORKING" \in TaskState /\ "INPUT_REQUIRED" \in TaskState /\ "CANCELED" \in TaskState
      /\ <<>> \in Seq(Nat) /\ <<nextEventId>> \in Seq(Nat)
  BY <1>1, StatesAre DEF TERMINAL_STATES
\* A turn starts.
<1>4. ASSUME Accepted, running' = TRUE,
             log' = Log(Frame(nextEventId, "status", "WORKING", <<>>, FALSE))
      PROVE  TurnInv'
  <2>1. turns' = turns + 1
    BY <1>4 DEF Accepted
  <2>2. turns' # 0 /\ (turns' <= 1 => turns = 0)
    BY <1>1, <2>1
  <2>3. turns = 0 => \A i \in 1..Len(log) : log[i].kind # "task"
    <3>1. 1..0 = {}
      OBVIOUS
    <3> QED BY <3>1 DEF TurnInv
  <2>4. (\A i \in 1..Len(log) : log[i].kind # "task") => \A i \in 1..Len(log') : log'[i].kind # "task"
    BY <1>2, <1>3, <1>4
  <2> QED BY <1>4, <2>2, <2>3, <2>4 DEF TurnInv
\* The quota keeps it from starting.
<1>5. ASSUME Accepted, running' = running, state' = "FAILED", connected' = {}
      PROVE  TurnInv'
  <2>1. ~running /\ turns' = turns + 1
    BY <1>5 DEF Accepted
  <2>2. turns' # 0 /\ turns' > 0
    BY <1>1, <2>1
  <2>3. IsSettled("FAILED")
    BY DEF IsSettled, TERMINAL_STATES
  <2> QED BY <1>5, <2>1, <2>2, <2>3 DEF TurnInv
<1>6. CASE StartTurn
  BY <1>4, <1>6 DEF StartTurn, Emit, Retained
<1>7. CASE OverQuota
  BY <1>5, <1>7 DEF OverQuota
<1>8. CASE ReportStatus
  <2>1. PICK s \in {"WORKING", "INPUT_REQUIRED"} :
          log' = Log(Frame(nextEventId, "status", s, <<>>, FALSE))
    BY <1>8 DEF ReportStatus, Emit, Retained
  <2>2. (\A i \in 1..Len(log) : log[i].kind # "task") => \A i \in 1..Len(log') : log'[i].kind # "task"
    BY <1>2, <1>3, <2>1
  <2>3. running /\ running' = running /\ turns' = turns
    BY <1>8 DEF ReportStatus, Sinks
  <2> QED BY <2>2, <2>3 DEF TurnInv
<1>9. CASE ReportArtifact
  <2>1. PICK append \in BOOLEAN :
          log' = Log(Frame(nextEventId, "artifact", state, <<nextEventId>>, append))
    BY <1>9 DEF ReportArtifact, Emit, Retained
  <2>2. (\A i \in 1..Len(log) : log[i].kind # "task") => \A i \in 1..Len(log') : log'[i].kind # "task"
    BY <1>1, <1>2, <1>3, <2>1
  <2>3. running /\ running' = running /\ turns' = turns
    BY <1>9 DEF ReportArtifact, Sinks
  <2> QED BY <2>2, <2>3 DEF TurnInv
<1>10. CASE FinishTurn
  <2>1. running /\ running' = FALSE /\ turns' = turns /\ connected' = {}
    BY <1>10 DEF FinishTurn
  <2>2. turns # 0
    BY <2>1 DEF TurnInv
  <2>3. IsSettled(state')
    BY <1>10 DEF FinishTurn, IsTerminal, IsSettled, INTERRUPTED_STATES, TERMINAL_STATES
  <2> QED BY <2>1, <2>2, <2>3 DEF TurnInv
<1>11. CASE CancelTask
  <2>1. /\ log' = Log(Frame(nextEventId, "status", "CANCELED", <<>>, FALSE))
        /\ running' = running /\ turns' = turns /\ connected' = {} /\ state' = "CANCELED"
        /\ turns > 0
    BY <1>11 DEF CancelTask, Emit, Retained
  <2>2. (\A i \in 1..Len(log) : log[i].kind # "task") => \A i \in 1..Len(log') : log'[i].kind # "task"
    BY <1>2, <1>3, <2>1
  <2>3. IsSettled("CANCELED")
    BY DEF IsSettled, TERMINAL_STATES
  <2>4. turns # 0
    BY <1>1, <2>1
  <2> QED BY <2>1, <2>2, <2>3, <2>4 DEF TurnInv
<1>12. CASE Quiet
  <2>1. log' = log \/ Len(log') = 0
    BY <1>12 DEF Quiet
  <2>2. 1..0 = {}
    OBVIOUS
  <2> QED BY <1>12, <2>1, <2>2 DEF Quiet, task, client, TurnInv
<1>13. CASE \E d \in Clients : Read(d) \/ Disconnect(d)
  <2>1. log' = log /\ UNCHANGED task /\ (connected = {} => connected' = {})
    BY <1>13, ReadTakes, DisconnectDrops
  <2> QED BY <2>1 DEF task, TurnInv
<1>14. CASE \E d \in Clients : \E from : Attach(d, from)
  <2>1. /\ log' = log /\ UNCHANGED task /\ turns > 0
        /\ connected = {} /\ IsSettled(state) => connected' = {}
    BY <1>14, AttachSends
  <2>2. turns # 0
    BY <1>1, <2>1
  <2> QED BY <2>1, <2>2 DEF task, TurnInv
<1>15. CASE \E d \in Clients : \E from \in 0..MaxEvents : Stream(d, from)
  <2>1. PICK d \in Clients, from \in 0..MaxEvents : Stream(d, from)
    BY <1>15
  <2>2. CASE Subscribe(d, from) \/ Resend(d, from)
    BY <1>14, <2>2 DEF Subscribe, Resend
  <2>3. CASE StreamTurn(d, from)
    BY <1>4, <2>3 DEF StreamTurn, TurnStream, Retained
  <2>4. CASE StreamOverQuota(d, from)
    BY <1>5, <2>4 DEF StreamOverQuota, TurnStream
  <2> QED BY <2>1, <2>2, <2>3, <2>4 DEF Stream
<1>16. Evict \/ UNCHANGED vars => Quiet
  BY DEF Evict, vars, Quiet
<1> QED
  BY <1>6, <1>7, <1>8, <1>9, <1>10, <1>11, <1>12, <1>13, <1>15, <1>16 DEF Next

\* What is retained and what the task becomes have their types.
LEMMA TypedLogged ==
  ASSUME Typed, NEW f, Logged(f)
  PROVE  /\ state' \in TaskState /\ content' \in Seq(Nat)
         /\ log' \in Seq(Frames) /\ Len(log') <= MaxLog
         /\ nextEventId' \in 1..(MaxEvents + 1)
<1>1. state \in TaskState /\ content \in Seq(Nat)
  BY DEF Typed
<1>2. f \in Frames /\ f.state \in TaskState /\ f.parts \in Seq(Nat)
  BY DEF Logged, Frames
<1>3. content \o f.parts \in Seq(Nat)
  BY <1>1, <1>2, ConcatProperties
<1>4. state' \in TaskState /\ content' \in Seq(Nat)
  BY <1>1, <1>2, <1>3 DEF Logged
<1>5. log' \in Seq(Frames) /\ Len(log') <= MaxLog
  BY <1>2, LogIs DEF Logged
<1>6. nextEventId' \in 1..(MaxEvents + 1)
  <2>1. nextEventId <= MaxEvents /\ nextEventId' = nextEventId + 1
    BY DEF Logged
  <2> QED BY <2>1, StreamBoundsAssumption DEF Typed
<1> QED BY <1>4, <1>5, <1>6

\* So do the frames that are written.
LEMMA BroadcastType ==
  ASSUME Typed, NEW f \in Frames, NEW last, last = <<>> \/ Ends(last)
  PROVE  last \in Seq(Frames) /\ Broadcast(f, last) \in [Clients -> Seq(Frames)]
<1>1. last \in Seq(Frames) /\ <<f>> \in Seq(Frames)
  <2>1. CASE last = <<>>
    BY <2>1
  <2>2. CASE Ends(last)
    BY <2>2 DEF Ends
  <2> QED BY <2>1, <2>2
<1>2. ASSUME NEW c \in Clients PROVE inbox[c] \o <<f>> \o last \in Seq(Frames)
  <2>1. inbox[c] \in Seq(Frames)
    BY DEF Typed
  <2>2. inbox[c] \o <<f>> \in Seq(Frames)
    BY <1>1, <2>1, JoinHas
  <2> QED BY <1>1, <2>2, JoinHas
<1>3. inbox \in [Clients -> Seq(Frames)]
  BY DEF Typed
<1> QED BY <1>1, <1>2, <1>3 DEF Broadcast

LEMMA TypedEmit ==
  ASSUME Typed, Emits
  PROVE  Typed'
<1>1. PICK f, last : Emitted(f, last)
  BY EmitsFrames
<1>2. Logged(f) /\ f \in Frames /\ (last = <<>> \/ Ends(last))
  BY <1>1 DEF Emitted, Logged
<1>3. connected' \subseteq Clients /\ UNCHANGED <<view, cursor, since, seen, behind>>
  BY <1>1 DEF Emitted, Typed
<1>4. inbox' \in [Clients -> Seq(Frames)]
  BY <1>1, <1>2, BroadcastType DEF Emitted
<1>5. running' \in BOOLEAN /\ turns' \in 0..MaxTurns
  <2>1. running \in BOOLEAN /\ turns \in 0..MaxTurns /\ MaxTurns \in Nat
    BY StreamBoundsAssumption DEF Typed
  <2>2. CASE StartTurn \/ OverQuota
    <3>1. running' \in BOOLEAN /\ turns' = turns + 1 /\ turns < MaxTurns
      BY <2>1, <2>2 DEF StartTurn, OverQuota, Accepted
    <3> QED BY <2>1, <3>1
  <2>3. CASE ~(StartTurn \/ OverQuota)
    BY <2>1, <2>3 DEF Emits, ReportStatus, ReportArtifact, FinishTurn, CancelTask
  <2> QED BY <2>2, <2>3
<1> QED BY <1>2, <1>3, <1>4, <1>5, TypedLogged DEF Typed

LEMMA TypedStream ==
  ASSUME Typed, LogInv, NEW d \in Clients, NEW from, StreamTurn(d, from) \/ StreamOverQuota(d, from)
  PROVE  Typed'
<1>1. PICK f, last : Streamed(d, from, f, last)
  BY StreamsFrames
<1>2. /\ Logged(f) /\ AsksFrom(d, from) /\ f \in Frames /\ f.id \in Nat /\ last \in Seq(Frames)
      /\ last = <<>> \/ Ends(last)
  <2>1. f.id = nextEventId /\ nextEventId \in Nat
    BY <1>1, StreamBoundsAssumption DEF Streamed, Logged, Typed
  <2> QED BY <1>1, <2>1, StreamSends DEF Streamed
<1>3. from \in Nat
  BY <1>2, AskedFrom
<1>4. connected' \subseteq Clients /\ view' = view
  BY <1>1 DEF Streamed, Typed
<1>5. inbox' \in [Clients -> Seq(Frames)]
  <2>1. TurnOpening(from, f) \o last \in Seq(Frames)
    BY <1>2, <1>3, TurnOpeningIs, JoinHas
  <2>2. Broadcast(f, last) \in [Clients -> Seq(Frames)]
    BY <1>2, BroadcastType
  <2>3. inbox' = [Broadcast(f, last) EXCEPT ![d] = TurnOpening(from, f) \o last]
    BY <1>1 DEF Streamed
  <2> QED BY <2>1, <2>2, <2>3
<1>6. behind' \in [Clients -> Nat]
  <2>1. behind' = [behind EXCEPT ![d] = IF Replay(Older, from) = <<>> THEN 0 ELSE f.id]
    BY <1>1 DEF Streamed
  <2>2. behind \in [Clients -> Nat]
    BY DEF Typed
  <2> QED BY <1>2, <2>1, <2>2
<1>7. running' \in BOOLEAN /\ turns' \in 0..MaxTurns
  <2>1. running \in BOOLEAN /\ turns \in 0..MaxTurns /\ MaxTurns \in Nat
    BY StreamBoundsAssumption DEF Typed
  <2>2. running' \in BOOLEAN /\ turns' = turns + 1 /\ turns < MaxTurns
    BY <2>1 DEF StreamTurn, StreamOverQuota, TurnStream, Accepted
  <2> QED BY <2>1, <2>2
<1>8. /\ cursor' \in [Clients -> 0..MaxEvents] /\ since' \in [Clients -> Nat]
      /\ seen' \in [Clients -> Seq(Nat)]
  BY <1>2, AskedFrom
<1>9. view' \in [Clients -> Copies]
  BY <1>4 DEF Typed
<1> QED BY <1>2, <1>4, <1>5, <1>6, <1>7, <1>8, <1>9, TypedLogged DEF Typed

LEMMA TypedAttach ==
  ASSUME Typed, LogInv, NEW c \in Clients, NEW from, Bounded(c), Attach(c, from)
  PROVE  Typed'
<1>1. AsksFrom(c, from) /\ UNCHANGED <<task, nextEventId, log, view>>
  BY AttachSends
<1>2. /\ cursor' \in [Clients -> 0..MaxEvents] /\ since' \in [Clients -> Nat]
      /\ seen' \in [Clients -> Seq(Nat)] /\ from \in Nat /\ from \in {0, cursor[c]}
  BY <1>1, AskedFrom
<1>3. Opening(from) \in Seq(Frames)
  <2>1. from <= nextEventId - 1
    BY <1>2, StreamBoundsAssumption DEF Typed, Bounded
  <2> QED BY <1>2, <2>1, OpeningInOrder
<1>4. inbox' \in [Clients -> Seq(Frames)] /\ behind' \in [Clients -> Nat]
  <2>1. /\ inbox' = [inbox EXCEPT ![c] = Opening(from)] /\ behind' = [behind EXCEPT ![c] = 0]
    BY AttachSends
  <2> QED BY <1>3, <2>1 DEF Typed
<1>5. connected' \subseteq Clients
  <2>1. connected' = IF IsSettled(state) THEN connected ELSE connected \cup {c}
    BY AttachSends
  <2> QED BY <2>1 DEF Typed
<1> QED BY <1>1, <1>2, <1>4, <1>5 DEF Typed, task

LEMMA TypedRead ==
  ASSUME Typed, NEW c \in Clients, Bounded(c), Read(c)
  PROVE  Typed'
<1> DEFINE f == inbox[c][1]
<1>1. /\ f \in Frames /\ Len(inbox[c]) > 0 /\ Len(inbox[c]) \in Nat /\ Tail(inbox[c]) \in Seq(Frames)
      /\ inbox' = [inbox EXCEPT ![c] = Tail(inbox[c])]
      /\ view' = [view EXCEPT ![c] = Apply(view[c], f)]
      /\ cursor' = [cursor EXCEPT ![c] = IF f.id = 0 THEN cursor[c] ELSE f.id]
      /\ seen' = [seen EXCEPT ![c] = IF f.kind = "status" THEN Append(seen[c], f.id) ELSE seen[c]]
      /\ UNCHANGED <<task, nextEventId, log, connected, since, behind>>
  BY ReadTakes
<1>2. f.id <= nextEventId - 1 /\ f.id \in Nat
  <2>1. 1 \in 1..Len(inbox[c])
    BY <1>1
  <2>2. f.id <= nextEventId - 1
    BY <2>1 DEF Bounded
  <2>3. f.id \in Nat
    <3> HIDE DEF f
    <3> QED BY <1>1 DEF Frames
  <2> QED BY <2>2, <2>3
<1> HIDE DEF f
<1>3. f.id \in 0..MaxEvents
  BY <1>2, StreamBoundsAssumption DEF Typed
<1>4. inbox' \in [Clients -> Seq(Frames)]
  BY <1>1 DEF Typed
<1>5. view' \in [Clients -> Copies]
  <2>1. view \in [Clients -> Copies]
    BY DEF Typed
  <2>2. Apply(view[c], f) \in Copies
    BY <1>1, <2>1, ApplyType
  <2> QED BY <1>1, <2>1, <2>2
<1>6. cursor' \in [Clients -> 0..MaxEvents]
  BY <1>1, <1>3 DEF Typed
<1>7. seen' \in [Clients -> Seq(Nat)]
  <2>1. seen \in [Clients -> Seq(Nat)] /\ Append(seen[c], f.id) \in Seq(Nat)
    BY <1>2 DEF Typed
  <2> QED BY <1>1, <2>1
<1> QED BY <1>1, <1>4, <1>5, <1>6, <1>7 DEF Typed, task

LEMMA TypedStep ==
  ASSUME Typed, LogInv, \A c \in Clients : Bounded(c), [Next]_vars
  PROVE  Typed'
<1>1. CASE Emits
  BY <1>1, TypedEmit
<1>2. CASE Evict \/ UNCHANGED vars
  <2>1. log' = log \/ log' = <<>>
    BY <1>2 DEF Evict, vars
  <2>2. UNCHANGED <<task, nextEventId, client>>
    BY <1>2 DEF Evict, vars
  <2>3. log' \in Seq(Frames) /\ Len(log') <= MaxLog
    <3>1. log \in Seq(Frames) /\ Len(log) <= MaxLog
      BY DEF Typed
    <3>2. <<>> \in Seq(Frames) /\ Len(<<>>) <= MaxLog
      BY StreamBoundsAssumption
    <3> QED BY <2>1, <3>1, <3>2
  <2> QED BY <2>2, <2>3 DEF Typed, task, client
<1>3. CASE \E c \in Clients : \E from \in 0..MaxEvents : Stream(c, from)
  BY <1>3, TypedAttach, TypedStream DEF Stream, Subscribe, Resend
<1>4. CASE \E c \in Clients : Read(c)
  BY <1>4, TypedRead
<1>5. CASE \E c \in Clients : Disconnect(c)
  <2>1. PICK c \in Clients : Disconnect(c)
    BY <1>5
  <2>2. inbox' \in [Clients -> Seq(Frames)]
    <3>1. <<>> \in Seq(Frames) /\ inbox \in [Clients -> Seq(Frames)]
      BY DEF Typed
    <3> QED BY <2>1, <3>1, DisconnectDrops
  <2>3. connected' \subseteq Clients /\ UNCHANGED <<task, nextEventId, log, view, cursor, since, seen, behind>>
    BY <2>1, DisconnectDrops DEF Typed
  <2> QED BY <2>2, <2>3 DEF Typed, task
<1> QED BY <1>1, <1>2, <1>3, <1>4, <1>5 DEF Next, Emits

-----------------------------------------------------------------------------
(* The invariant *)

LEMMA StreamInit == Init => StreamInv
<1> SUFFICES ASSUME Init PROVE StreamInv
  OBVIOUS
<1>1. /\ <<>> \in Seq(Frames) /\ <<>> \in Seq(Nat) /\ Len(<<>>) = 0 /\ 1..0 = {}
  OBVIOUS
<1>2. "SUBMITTED" \in TaskState
  BY DEF TaskState, ActiveStates
<1> DEFINE v == [state |-> "SUBMITTED", parts |-> <<>>]
<1>3. v \in Copies
  BY <1>1, <1>2 DEF Copies
<1>4. 0 \in 0..MaxEvents /\ 1 \in 1..(MaxEvents + 1) /\ 0 \in 0..MaxTurns /\ 0 <= MaxLog
  BY StreamBoundsAssumption
<1>5. Typed
  BY <1>1, <1>2, <1>3, <1>4 DEF Init, Typed
<1>6. LogInv /\ TurnInv
  BY <1>1 DEF Init, LogInv, Rising, TurnInv
<1>7. ASSUME NEW c \in Clients
      PROVE  Bounded(c) /\ Ordered(c) /\ Covered(c) /\ Awaited(c) /\ Ahead(c)
  <2>1. /\ inbox[c] = <<>> /\ seen[c] = <<>> /\ cursor[c] = 0 /\ behind[c] = 0
        /\ nextEventId = 1 /\ log = <<>> /\ c \notin connected
    BY DEF Init
  <2>2. InOrder(<<>>, 0, 0) /\ nextEventId - 1 = 0 /\ 0 <= 0
    BY <2>1, InOrderNone
  <2>3. Ordered(c)
    BY <1>1, <2>1, <2>2 DEF Ordered
  <2>4. Bounded(c)
    BY <1>1, <2>1, <2>2 DEF Bounded
  <2> QED BY <1>1, <2>1, <2>3, <2>4 DEF Covered, Awaited, Ahead
<1> QED BY <1>5, <1>6, <1>7 DEF StreamInv

LEMMA StreamStep ==
  ASSUME StreamInv, [Next]_vars
  PROVE  StreamInv'
<1>1. /\ Typed /\ LogInv /\ TurnInv
      /\ \A c \in Clients :
           /\ Bounded(c) /\ Awaited(c) /\ Ahead(c)
           /\ behind[c] = 0 => Ordered(c) /\ Covered(c)
  BY DEF StreamInv
<1>2. Typed' /\ LogInv' /\ TurnInv'
  BY <1>1, TypedStep, LogStep, TurnStep
<1>3. \A c \in Clients : Bounded(c)' /\ Ahead(c)'
  BY <1>1, BoundedStep, AheadStep
<1>4. \A c \in Clients : behind'[c] = 0 => Ordered(c)' /\ Covered(c)'
  BY <1>1, OrderedStep, CoveredStep
<1>5. \A c \in Clients : Awaited(c)'
  BY <1>1, <1>2, AwaitedStep
<1> QED BY <1>2, <1>3, <1>4, <1>5 DEF StreamInv

\* The invariant above: what the log, the connections and the cursors hold between
\* any two steps of emit(), handleStream() and applyFrame().
THEOREM StreamGoesOn == Spec => []StreamInv
BY StreamInit, StreamStep, PTL DEF Spec

\* The types of the stream's variables; the log never holds more than maxEventLog
\* frames, nor one that was not emitted.
THEOREM StreamTypeCorrect == Spec => []TypeOK
<1>1. StreamInv => TypeOK
  <2> SUFFICES ASSUME StreamInv PROVE TypeOK
    OBVIOUS
  <2>1. /\ Typed /\ \A i \in 1..Len(log) : log[i].id \in 1..(nextEventId - 1)
        /\ \A c \in Clients : behind[c] <= nextEventId - 1
    BY DEF StreamInv, LogInv, Bounded
  <2>2. \A c \in Clients : behind[c] \in 0..(nextEventId - 1)
    BY <2>1, StreamBoundsAssumption DEF Typed
  <2> QED BY <2>1, <2>2 DEF Typed, TypeOK
<1> QED BY <1>1, StreamGoesOn, PTL

\* A client that has read its connection to the end has read each status frame that
\* it asked for and that is still retained, and has the task's state, whatever was
\* lost or replayed; it has read the frames once and in order.  A client whose
\* message started a turn ahead of a replay may have read them out of order, and has
\* the state again from the next frame that shows it.
THEOREM StatusArrives == Spec => []StatusFaithful
<1>1. StreamInv => StatusFaithful
  <2> SUFFICES ASSUME StreamInv, NEW c \in Clients
               PROVE  /\ behind[c] = 0 => \A i, j \in DOMAIN seen[c] : i < j => seen[c][i] < seen[c][j]
                      /\ CaughtUp(c) =>
                           /\ \A i \in DOMAIN log :
                                log[i].kind = "status" /\ log[i].id > since[c] =>
                                  \E j \in DOMAIN seen[c] : seen[c][j] = log[i].id
                           /\ behind[c] = 0 \/ ShownSince(behind[c]) => view[c].state = state
    BY DEF StatusFaithful
  <2>1. /\ Typed /\ LogInv /\ Awaited(c) /\ Ahead(c) /\ (behind[c] = 0 => Ordered(c))
    BY DEF StreamInv
  <2>2. DOMAIN seen[c] = 1..Len(seen[c]) /\ DOMAIN log = 1..Len(log)
    BY <2>1 DEF Typed
  <2>3. behind[c] = 0 => \A i, j \in DOMAIN seen[c] : i < j => seen[c][i] < seen[c][j]
    BY <2>1, <2>2 DEF Ordered
  <2>4. ASSUME CaughtUp(c), behind[c] = 0 \/ ShownSince(behind[c]) PROVE view[c].state = state
    <3>1. c \in connected /\ Len(inbox[c]) = 0
      BY <2>4 DEF CaughtUp
    <3>2. behind[c] = 0 \/ Shown(log, behind[c])
      BY <2>2, <2>4 DEF ShownSince, Shown
    <3> QED BY <2>1, <3>1, <3>2 DEF Ahead, LeadsTo, Leads
  <2>5. ASSUME CaughtUp(c), NEW i \in DOMAIN log, log[i].kind = "status", log[i].id > since[c]
        PROVE  \E j \in DOMAIN seen[c] : seen[c][j] = log[i].id
    <3>1. c \in connected /\ Len(inbox[c]) = 0 /\ 1..0 = {}
      BY <2>5 DEF CaughtUp
    <3>2. log[i].id \in Nat /\ since[c] \in Nat
      BY <2>1, <2>2, StreamBoundsAssumption DEF Typed, LogInv
    <3>3. Expected(log[i], inbox[c], seen[c], since[c])
      BY <2>1, <2>2, <3>1 DEF Awaited
    <3>4. ~IsComing(inbox[c], log[i].id)
      BY <3>1 DEF IsComing
    <3>5. since[c] < log[i].id
      BY <2>5, <3>2
    <3> QED BY <2>2, <2>5, <3>3, <3>4, <3>5 DEF Expected
  <2> QED BY <2>3, <2>4, <2>5
<1> QED BY <1>1, StreamGoesOn, PTL

\* In a task's first turn no chunk of the artifact is lost, doubled or out of place
\* in the copy of a client that has read all it was sent.
THEOREM ArtifactArrivesInTurn == Spec => []ArtifactFaithfulInTurn
<1>1. StreamInv => ArtifactFaithfulInTurn
  <2> SUFFICES ASSUME StreamInv, turns <= 1, NEW c \in Clients, CaughtUp(c)
               PROVE  view[c].parts = content
    BY DEF ArtifactFaithfulInTurn, ArtifactFaithful
  <2>1. /\ c \in connected /\ Len(inbox[c]) = 0 /\ Ahead(c)
        /\ behind[c] # 0 => turns > 1
    BY DEF CaughtUp, StreamInv, Bounded
  <2>2. behind[c] = 0
    <3>1. turns \in Nat
      BY StreamBoundsAssumption DEF StreamInv, Typed
    <3> QED BY <2>1, <3>1
  <2> QED BY <2>1, <2>2 DEF Ahead, LeadsTo, Leads
<1> QED BY <1>1, StreamGoesOn, PTL

-----------------------------------------------------------------------------
(* The update check: comparing versions.                                     *)

Identifiers == [number : BOOLEAN, value : Nat]
VersionType == [core : [1..3 -> Nat], prerelease : Seq(Identifiers)]

\* The least element of a set of numbers.
LEMMA MinIs ==
  ASSUME NEW S \in SUBSET Nat, NEW x \in S, \A y \in S : x <= y
  PROVE  Min(S) = x
<1>1. \A z \in S : (\A y \in S : z <= y) => z = x
  OBVIOUS
<1> QED BY <1>1 DEF Min

\* The greater of two numbers.
LEMMA MaxIs ==
  ASSUME NEW m \in Nat, NEW n \in Nat
  PROVE  /\ Max({m, n}) \in {m, n}
         /\ m <= Max({m, n}) /\ n <= Max({m, n})
<1>1. \E z \in {m, n} : \A y \in {m, n} : z >= y
  OBVIOUS
<1>2. Max({m, n}) \in {m, n} /\ \A y \in {m, n} : Max({m, n}) >= y
  <2> DEFINE P(z) == \A y \in {m, n} : z >= y
  <2>1. \E z \in {m, n} : P(z)
    BY <1>1
  <2>2. Max({m, n}) = CHOOSE z \in {m, n} : P(z)
    BY DEF Max
  <2> HIDE DEF P
  <2>3. Max({m, n}) \in {m, n} /\ P(Max({m, n}))
    BY <2>1, <2>2
  <2> QED BY <2>3 DEF P
<1> QED BY <1>2

LEMMA SignIs ==
  ASSUME NEW m \in Nat, NEW n \in Nat
  PROVE  /\ m < n => Sign(m - n) = -1
         /\ m > n => Sign(m - n) = 1
         /\ m = n => Sign(m - n) = 0
BY DEF Sign

\* compareIdentifier() on identifiers of which one precedes the other.
LEMMA IdentifiersOrdered ==
  ASSUME NEW x \in Identifiers, NEW y \in Identifiers, IdentifierPrecedes(x, y)
  PROVE  x # y /\ CompareIdentifier(x, y) = -1 /\ CompareIdentifier(y, x) = 1
<1>1. x.value \in Nat /\ y.value \in Nat /\ x.number \in BOOLEAN /\ y.number \in BOOLEAN
  BY DEF Identifiers
<1>2. CASE x.number = y.number
  <2>1. x.value < y.value
    BY <1>2 DEF IdentifierPrecedes
  <2>2. Sign(x.value - y.value) = -1 /\ Sign(y.value - x.value) = 1
    BY <1>1, <2>1, SignIs
  <2> QED BY <1>1, <1>2, <2>1, <2>2 DEF CompareIdentifier
<1>3. CASE x.number # y.number
  <2>1. x.number /\ ~y.number
    BY <1>1, <1>3 DEF IdentifierPrecedes
  <2> QED BY <1>1, <1>3, <2>1 DEF CompareIdentifier
<1> QED BY <1>2, <1>3

\* The loop of comparePrerelease() finds the place where the lists part.
LEMMA PrereleasesOrdered ==
  ASSUME NEW l \in Seq(Identifiers), NEW r \in Seq(Identifiers), PrereleasePrecedes(l, r)
  PROVE  ComparePrerelease(l, r) = -1 /\ ComparePrerelease(r, l) = 1
<1>1. l # <<>>
  BY DEF PrereleasePrecedes
<1>2. CASE r = <<>>
  BY <1>1, <1>2 DEF ComparePrerelease
<1>3. CASE r # <<>>
  <2>1. PICK i \in 1..Len(r) :
          /\ \A j \in 1..(i - 1) : j <= Len(l) /\ l[j] = r[j]
          /\ i = Len(l) + 1 \/ (i <= Len(l) /\ IdentifierPrecedes(l[i], r[i]))
    BY <1>3 DEF PrereleasePrecedes
  <2>2. Len(l) \in Nat /\ Len(r) \in Nat /\ i <= Len(r)
    BY <2>1
  <2>3. /\ Max({Len(l), Len(r)}) \in Nat /\ i <= Max({Len(l), Len(r)})
        /\ {Len(r), Len(l)} = {Len(l), Len(r)}
    BY <2>1, <2>2, MaxIs
  <2>4. i <= Len(l) => l[i] # r[i]
    <3> SUFFICES ASSUME i <= Len(l) PROVE l[i] # r[i]
      OBVIOUS
    <3>1. l[i] \in Identifiers /\ r[i] \in Identifiers /\ IdentifierPrecedes(l[i], r[i])
      BY <2>1, <2>2
    <3> QED BY <3>1, IdentifiersOrdered
  <2> DEFINE D == {j \in 1..Max({Len(l), Len(r)}) : \/ j > Len(l) \/ j > Len(r) \/ l[j] # r[j]}
             E == {j \in 1..Max({Len(r), Len(l)}) : \/ j > Len(r) \/ j > Len(l) \/ r[j] # l[j]}
  <2>5. D = E /\ D \in SUBSET Nat
    <3> DEFINE m == Max({Len(l), Len(r)})
    <3>1. Max({Len(r), Len(l)}) = m /\ m \in Nat
      BY <2>3
    <3> HIDE DEF m
    <3>2. {j \in 1..m : j > Len(l) \/ j > Len(r) \/ l[j] # r[j]}
            = {j \in 1..m : j > Len(r) \/ j > Len(l) \/ r[j] # l[j]}
      OBVIOUS
    <3>3. D = {j \in 1..m : j > Len(l) \/ j > Len(r) \/ l[j] # r[j]}
          /\ E = {j \in 1..m : j > Len(r) \/ j > Len(l) \/ r[j] # l[j]}
      BY <3>1 DEF m
    <3>4. D \in SUBSET Nat
      BY <3>1, <3>3
    <3> QED BY <3>2, <3>3, <3>4
  <2>6. i \in D
    BY <2>1, <2>2, <2>3, <2>4
  <2>7. \A j \in D : i <= j
    <3> SUFFICES ASSUME NEW j \in D, ~(i <= j) PROVE FALSE
      OBVIOUS
    <3>1. j \in 1..(i - 1)
      BY <2>2, <2>3
    <3>2. j <= Len(l) /\ l[j] = r[j] /\ j <= Len(r)
      BY <2>1, <2>2, <3>1
    <3> QED BY <2>2, <3>1, <3>2
  <2>8. Min(D) = i /\ Min(E) = i
    <3> HIDE DEF D, E
    <3> QED BY <2>5, <2>6, <2>7, MinIs
  <2>9. l # r
    BY <2>1, <2>2, <2>4
  <2>10. ComparePrerelease(l, r) = IF i > Len(l) THEN -1
                                   ELSE IF i > Len(r) THEN 1 ELSE CompareIdentifier(l[i], r[i])
    <3>1. ComparePrerelease(l, r) = IF Min(D) > Len(l) THEN -1
                                    ELSE IF Min(D) > Len(r) THEN 1
                                    ELSE CompareIdentifier(l[Min(D)], r[Min(D)])
      BY <1>1, <1>3, <2>9 DEF ComparePrerelease
    <3> QED BY <2>8, <3>1
  <2>11. ComparePrerelease(r, l) = IF i > Len(r) THEN -1
                                   ELSE IF i > Len(l) THEN 1 ELSE CompareIdentifier(r[i], l[i])
    <3>1. ComparePrerelease(r, l) = IF Min(E) > Len(r) THEN -1
                                    ELSE IF Min(E) > Len(l) THEN 1
                                    ELSE CompareIdentifier(r[Min(E)], l[Min(E)])
      BY <1>1, <1>3, <2>9 DEF ComparePrerelease
    <3> QED BY <2>8, <3>1
  <2>12. CASE i = Len(l) + 1
    <3>1. i > Len(l) /\ ~(i > Len(r))
      BY <2>2, <2>12
    <3> QED BY <2>10, <2>11, <3>1
  <2>13. CASE i <= Len(l) /\ IdentifierPrecedes(l[i], r[i])
    <3>1. ~(i > Len(l)) /\ ~(i > Len(r)) /\ l[i] \in Identifiers /\ r[i] \in Identifiers
      BY <2>1, <2>2, <2>13
    <3> QED BY <2>10, <2>11, <2>13, <3>1, IdentifiersOrdered
  <2> QED BY <2>1, <2>12, <2>13
<1> QED BY <1>2, <1>3

\* compareVersions() on versions of which one precedes the other, either way round.
LEMMA VersionsOrdered ==
  ASSUME NEW a \in VersionType, NEW b \in VersionType, Precedes(a, b)
  PROVE  CompareVersions(a, b) = -1 /\ CompareVersions(b, a) = 1
<1> DEFINE D == {i \in 1..3 : a.core[i] # b.core[i]}
           E == {i \in 1..3 : b.core[i] # a.core[i]}
<1>1. /\ a.core \in [1..3 -> Nat] /\ b.core \in [1..3 -> Nat]
      /\ a.prerelease \in Seq(Identifiers) /\ b.prerelease \in Seq(Identifiers)
  BY DEF VersionType
<1>2. D = E /\ D \in SUBSET Nat
  OBVIOUS
<1>3. /\ CompareVersions(a, b) = IF D = {} THEN ComparePrerelease(a.prerelease, b.prerelease)
                                 ELSE Sign(a.core[Min(D)] - b.core[Min(D)])
      /\ CompareVersions(b, a) = IF E = {} THEN ComparePrerelease(b.prerelease, a.prerelease)
                                 ELSE Sign(b.core[Min(E)] - a.core[Min(E)])
  BY DEF CompareVersions
<1>4. CASE \E i \in 1..3 : a.core[i] < b.core[i] /\ \A j \in 1..(i - 1) : a.core[j] = b.core[j]
  <2>1. PICK i \in 1..3 : a.core[i] < b.core[i] /\ \A j \in 1..(i - 1) : a.core[j] = b.core[j]
    BY <1>4
  <2>2. a.core[i] \in Nat /\ b.core[i] \in Nat
    BY <1>1
  <2>3. i \in D
    BY <2>1, <2>2
  <2>4. \A j \in D : i <= j
    <3> SUFFICES ASSUME NEW j \in D, ~(i <= j) PROVE FALSE
      OBVIOUS
    <3>1. j \in 1..(i - 1)
      OBVIOUS
    <3> QED BY <2>1, <3>1
  <2> HIDE DEF D, E
  <2>5. Min(D) = i /\ Min(E) = i /\ D # {} /\ E # {}
    BY <1>2, <2>3, <2>4, MinIs
  <2>6. Sign(a.core[i] - b.core[i]) = -1 /\ Sign(b.core[i] - a.core[i]) = 1
    BY <2>1, <2>2, SignIs
  <2> QED BY <1>3, <2>5, <2>6
<1>5. CASE a.core = b.core /\ PrereleasePrecedes(a.prerelease, b.prerelease)
  <2>1. D = {} /\ E = {}
    BY <1>5
  <2>2. ComparePrerelease(a.prerelease, b.prerelease) = -1
        /\ ComparePrerelease(b.prerelease, a.prerelease) = 1
    BY <1>1, <1>5, PrereleasesOrdered
  <2> HIDE DEF D, E
  <2> QED BY <1>3, <2>1, <2>2
<1> QED BY <1>4, <1>5 DEF Precedes

\* A published version is at its rank.
LEMMA RankFacts ==
  /\ Len(Ascending) \in Nat
  /\ \A v \in Versions : v \in VersionType /\ Rank(v) \in 1..Len(Ascending) /\ Ascending[Rank(v)] = v
<1>1. Ascending \in Seq(VersionType)
  BY OrderAssumption DEF VersionType, Identifiers
<1>2. Len(Ascending) \in Nat /\ DOMAIN Ascending = 1..Len(Ascending)
  BY <1>1
<1>3. ASSUME NEW v \in Versions
      PROVE  v \in VersionType /\ Rank(v) \in 1..Len(Ascending) /\ Ascending[Rank(v)] = v
  <2>1. \E i \in DOMAIN Ascending : Ascending[i] = v
    BY DEF Versions, Range
  <2>2. Rank(v) \in DOMAIN Ascending /\ Ascending[Rank(v)] = v
    BY <2>1 DEF Rank
  <2> QED BY <1>1, <1>2, <2>2
<1> QED BY <1>2, <1>3

\* compareVersions() goes by the order of SemVer.
THEOREM ComparisonIsPrecedence ==
  ASSUME NEW u \in Versions, NEW v \in Versions
  PROVE  /\ CompareVersions(u, v) > 0 <=> Rank(u) > Rank(v)
         /\ CompareVersions(u, v) < 0 <=> Rank(u) < Rank(v)
<1>1. /\ Rank(u) \in 1..Len(Ascending) /\ Rank(v) \in 1..Len(Ascending) /\ Len(Ascending) \in Nat
      /\ Ascending[Rank(u)] = u /\ Ascending[Rank(v)] = v /\ u \in VersionType /\ v \in VersionType
  BY RankFacts
<1>2. DOMAIN Ascending = 1..Len(Ascending)
  BY OrderAssumption
<1>3. CASE Rank(u) < Rank(v)
  <2>1. Precedes(u, v)
    BY <1>1, <1>2, <1>3, OrderAssumption
  <2>2. CompareVersions(u, v) = -1
    BY <1>1, <2>1, VersionsOrdered
  <2> QED BY <1>1, <1>3, <2>2
<1>4. CASE Rank(v) < Rank(u)
  <2>1. Precedes(v, u)
    BY <1>1, <1>2, <1>4, OrderAssumption
  <2>2. CompareVersions(u, v) = 1
    BY <1>1, <2>1, VersionsOrdered
  <2> QED BY <1>1, <1>4, <2>2
<1>5. CASE Rank(u) = Rank(v)
  <2>1. u = v
    BY <1>1, <1>5
  <2> DEFINE D == {i \in 1..3 : u.core[i] # v.core[i]}
  <2>2. CompareVersions(u, v) = IF D = {} THEN ComparePrerelease(u.prerelease, v.prerelease)
                                ELSE Sign(u.core[Min(D)] - v.core[Min(D)])
    BY DEF CompareVersions
  <2>3. D = {}
    BY <2>1
  <2>4. ComparePrerelease(u.prerelease, v.prerelease) = 0
    BY <2>1 DEF ComparePrerelease
  <2>5. CompareVersions(u, v) = 0
    <3> HIDE DEF D
    <3> QED BY <2>2, <2>3, <2>4
  <2> QED BY <1>1, <1>5, <2>5
<1> QED BY <1>1, <1>3, <1>4, <1>5

-----------------------------------------------------------------------------
(* The update check: its answers.                                            *)

InfoType ==
  [ok : BOOLEAN, latest : Versions \cup {Absent}, hasUpdate : BOOLEAN, ahead : BOOLEAN,
   checkedAt : Nat, heard : Nat]
RequestType ==
  [st : {"idle", "sent", "broken"}]
    \cup [st : {"waiting"}, info : {NoInfo}, at : Nat]
    \cup [st : {"answered"}, info : InfoType, at : Nat]
StripType ==
  [open : BOOLEAN, update : InfoType \cup {NoInfo}, error : BOOLEAN, busy : BOOLEAN]

\* The candidate a lookup would answer with is the highest it heard of.
LookupInv ==
  /\ lookup \in [begun : BOOLEAN, waiting : Nat, best : Versions \cup {Absent},
                 heard : 0..Len(Ascending)]
  /\ IF lookup.best = Absent THEN lookup.heard = 0 ELSE Rank(lookup.best) = lookup.heard
  /\ manifest.version = Absent => lookup.best = Absent /\ lookup.waiting = 0

\* What is kept is honest, and was looked up before now.
CacheInv ==
  cache = NoInfo \/ (cache \in InfoType /\ Honest(cache) /\ cache.checkedAt <= clock)

\* A check was made before now; what it got is honest and fresh.
CheckInv(r, k) ==
  /\ r.st = "waiting" => r.at <= clock
  /\ r.st = "answered" =>
       /\ Honest(r.info)
       /\ r.info.checkedAt >= r.at \/ (~Forced(k) /\ r.at - r.info.checkedAt < Ttl)

UpdateInv ==
  /\ manifest \in Manifests /\ clock \in Nat
  /\ LookupInv /\ CacheInv
  /\ requests \in [Panels -> [Kinds -> RequestType]]
  /\ \A p \in Panels, k \in Kinds : CheckInv(requests[p][k], k)
  /\ strip \in [Panels -> StripType]
  /\ \A p \in Panels : Honest(strip[p].update)

\* The answer of a lookup that is over: what it names is the highest it heard of.
LEMMA InfoIsHonest ==
  ASSUME UpdateInv, NEW info, info = Info(lookup.best, lookup.heard)
  PROVE  info \in InfoType /\ Honest(info) /\ info.checkedAt = clock
<1> DEFINE best == lookup.best  heard == lookup.heard  current == manifest.version
<1>1. /\ best \in Versions \cup {Absent} /\ heard \in Nat /\ clock \in Nat
      /\ IF best = Absent THEN heard = 0 ELSE Rank(best) = heard
      /\ current = Absent => best = Absent
      /\ current \in Versions \cup {Odd, Absent} /\ Odd # Absent
      /\ Odd \notin Versions /\ Absent \notin Versions
  BY UpdateAssumption, RankFacts DEF UpdateInv, LookupInv, Versions
<1> HIDE DEF best, heard, current
<1>2. CASE best = Absent \/ current = Odd
  <2>1. info = [ok |-> FALSE, latest |-> Absent, hasUpdate |-> FALSE, ahead |-> FALSE,
                checkedAt |-> clock, heard |-> heard]
    BY <1>2 DEF Info, Unavailable, best, heard, current
  <2>2. info \in InfoType /\ ~info.ok /\ ~info.hasUpdate /\ ~info.ahead /\ info.checkedAt = clock
        /\ info.heard = heard
    BY <1>1, <2>1 DEF InfoType
  <2>3. ~(current \in Versions /\ heard > 0)
    BY <1>1, <1>2
  <2> QED BY <2>2, <2>3 DEF Honest, current
<1>3. CASE best # Absent /\ current # Odd
  <2>1. best \in Versions /\ current \in Versions /\ Rank(best) = heard
    BY <1>1, <1>3
  <2>2. info = [ok |-> TRUE, latest |-> best, hasUpdate |-> CompareVersions(best, current) > 0,
                ahead |-> CompareVersions(best, current) < 0, checkedAt |-> clock, heard |-> heard]
    BY <1>3 DEF Info, best, heard, current
  <2>3. /\ CompareVersions(best, current) > 0 <=> heard > Rank(current)
        /\ CompareVersions(best, current) < 0 <=> heard < Rank(current)
    BY <2>1, ComparisonIsPrecedence
  <2> DEFINE newer == CompareVersions(best, current) > 0
             older == CompareVersions(best, current) < 0
  <2>4. newer \in BOOLEAN /\ older \in BOOLEAN
    OBVIOUS
  <2>5. /\ info = [ok |-> TRUE, latest |-> best, hasUpdate |-> newer, ahead |-> older,
                   checkedAt |-> clock, heard |-> heard]
        /\ newer <=> heard > Rank(current)
        /\ older <=> heard < Rank(current)
    BY <2>2, <2>3
  <2> HIDE DEF newer, older
  <2>6. info \in InfoType /\ info.ok /\ info.latest = best /\ info.hasUpdate = newer
        /\ info.ahead = older /\ info.checkedAt = clock /\ info.heard = heard
    BY <1>1, <2>4, <2>5 DEF InfoType
  <2>7. heard > 0
    BY <2>1, RankFacts
  <2> QED BY <2>1, <2>5, <2>6, <2>7 DEF Honest, current
<1> QED BY <1>2, <1>3

\* The loop over the candidates keeps the highest.
LEMMA LookupHears ==
  ASSUME UpdateInv, SourceAnswers
  PROVE  LookupInv'
<1>1. manifest' = manifest /\ lookup.waiting > 0
  BY DEF SourceAnswers
<1>2. /\ lookup.begun \in BOOLEAN /\ lookup.waiting - 1 \in Nat
      /\ lookup.best \in Versions \cup {Absent}
      /\ lookup.heard \in 0..Len(Ascending) /\ Len(Ascending) \in Nat
      /\ IF lookup.best = Absent THEN lookup.heard = 0 ELSE Rank(lookup.best) = lookup.heard
      /\ manifest.version # Absent /\ Absent \notin Versions
  BY <1>1, RankFacts, UpdateAssumption DEF UpdateInv, LookupInv, Versions
<1>3. CASE lookup' = [lookup EXCEPT !.waiting = @ - 1]
  BY <1>1, <1>2, <1>3 DEF UpdateInv, LookupInv
<1>4. CASE \E v \in Versions :
             lookup' = [lookup EXCEPT !.waiting = @ - 1, !.best = Better(v, @),
                                      !.heard = Max({@, Rank(v)})]
  <2>1. PICK v \in Versions :
          lookup' = [lookup EXCEPT !.waiting = @ - 1, !.best = Better(v, @),
                                   !.heard = Max({@, Rank(v)})]
    BY <1>4
  <2> DEFINE best == Better(v, lookup.best)  heard == Max({lookup.heard, Rank(v)})
  <2>2. Rank(v) \in 1..Len(Ascending) /\ Rank(v) \in Nat /\ lookup.heard \in Nat
    BY <1>2, RankFacts
  <2>3. /\ heard \in {lookup.heard, Rank(v)}
        /\ lookup.heard <= heard /\ Rank(v) <= heard
    BY <2>2, MaxIs
  <2> HIDE DEF heard
  <2>4. best \in Versions /\ Rank(best) = heard
    <3>1. CASE lookup.best = Absent
      <4>1. best = v
        BY <3>1 DEF Better
      <4> QED BY <1>2, <2>2, <2>3, <3>1, <4>1
    <3>2. CASE lookup.best # Absent
      <4>1. lookup.best \in Versions /\ Rank(lookup.best) = lookup.heard
        BY <1>2, <3>2
      <4>2. CompareVersions(v, lookup.best) > 0 <=> Rank(v) > lookup.heard
        BY <4>1, ComparisonIsPrecedence
      <4>3. best = IF Rank(v) > lookup.heard THEN v ELSE lookup.best
        BY <3>2, <4>2 DEF Better
      <4> QED BY <2>2, <2>3, <4>1, <4>3
    <3> QED BY <3>1, <3>2
  <2> HIDE DEF best
  <2>5. lookup' = [lookup EXCEPT !.waiting = @ - 1, !.best = best, !.heard = heard]
    BY <2>1 DEF best, heard
  <2>6. heard \in 0..Len(Ascending)
    BY <1>2, <2>2, <2>3
  <2>7. lookup' \in [begun : BOOLEAN, waiting : Nat, best : Versions \cup {Absent},
                    heard : 0..Len(Ascending)]
        /\ lookup'.best = best /\ lookup'.heard = heard
    BY <1>2, <2>4, <2>5, <2>6 DEF UpdateInv, LookupInv
  <2> QED BY <1>1, <1>2, <2>4, <2>7 DEF LookupInv
<1> QED BY <1>3, <1>4 DEF SourceAnswers

\* What nobody touched stays as good as it was while the time goes on.
LEMMA ChecksCarry ==
  ASSUME UpdateInv, manifest' = manifest, clock' \in Nat, clock <= clock',
         NEW p \in Panels, NEW k \in Kinds, requests'[p][k] = requests[p][k]
  PROVE  CheckInv(requests[p][k], k)'
<1> DEFINE r == requests[p][k]
<1>1. r \in RequestType /\ CheckInv(r, k) /\ clock \in Nat
  BY DEF UpdateInv
<1>2. requests'[p][k] = r
  OBVIOUS
<1>3. r.st = "waiting" => r.at \in Nat
  BY <1>1 DEF RequestType
<1> HIDE DEF r
<1> QED BY <1>1, <1>2, <1>3 DEF CheckInv, Honest

LEMMA StripsCarry ==
  ASSUME UpdateInv, manifest' = manifest, strip' = strip
  PROVE  /\ (strip \in [Panels -> StripType])'
         /\ \A p \in Panels : Honest(strip[p].update)'
BY DEF UpdateInv, Honest

LEMMA HostCarries ==
  ASSUME UpdateInv, manifest' = manifest, clock' \in Nat, clock <= clock'
  PROVE  /\ (manifest \in Manifests)' /\ (clock \in Nat)'
         /\ lookup' = lookup => LookupInv'
         /\ cache' = cache => CacheInv'
<1>1. lookup' = lookup => LookupInv'
  BY DEF UpdateInv, LookupInv
<1>2. cache' = cache => CacheInv'
  <2>1. CASE cache = NoInfo
    BY <2>1 DEF CacheInv, NoInfo
  <2>2. CASE cache # NoInfo
    <3>1. cache.checkedAt \in Nat /\ clock \in Nat
      BY <2>2 DEF UpdateInv, CacheInv, InfoType
    <3> QED BY <2>2, <3>1 DEF UpdateInv, CacheInv, Honest, InfoType
  <2> QED BY <2>1, <2>2
<1> QED BY <1>1, <1>2 DEF UpdateInv

\* One request is replaced, the others are not.
LEMMA RequestReplaced ==
  ASSUME UpdateInv, manifest' = manifest, clock' = clock,
         NEW p \in Panels, NEW k \in Kinds, NEW r \in RequestType, CheckInv(r, k),
         requests' = [requests EXCEPT ![p][k] = r]
  PROVE  /\ (requests \in [Panels -> [Kinds -> RequestType]])'
         /\ \A q \in Panels, j \in Kinds : CheckInv(requests[q][j], j)'
<1>1. requests \in [Panels -> [Kinds -> RequestType]] /\ clock \in Nat
  BY DEF UpdateInv
<1>2. requests' \in [Panels -> [Kinds -> RequestType]]
  BY <1>1
<1>3. ASSUME NEW q \in Panels, NEW j \in Kinds
      PROVE  CheckInv(requests[q][j], j)'
  <2>1. CASE q = p /\ j = k
    <3>1. requests'[q][j] = r
      BY <1>1, <2>1
    <3> QED BY <2>1, <3>1 DEF CheckInv, Honest
  <2>2. CASE ~(q = p /\ j = k)
    <3>1. requests'[q][j] = requests[q][j]
      BY <1>1, <2>2
    <3> QED BY <1>1, <3>1, ChecksCarry
  <2> QED BY <2>1, <2>2
<1> QED BY <1>2, <1>3

LEMMA UpdateStarts ==
  UpdateInit => UpdateInv
<1> SUFFICES ASSUME UpdateInit PROVE UpdateInv
  OBVIOUS
<1>1. manifest \in Manifests /\ clock \in Nat
  BY DEF UpdateInit
<1>2. LookupInv
  BY RankFacts DEF UpdateInit, LookupInv, NoLookup
<1>3. CacheInv
  BY DEF UpdateInit, CacheInv
<1>4. requests \in [Panels -> [Kinds -> RequestType]]
  BY DEF UpdateInit, Idle, RequestType
<1>5. \A p \in Panels, k \in Kinds : CheckInv(requests[p][k], k)
  BY DEF UpdateInit, Idle, CheckInv
<1>6. strip \in [Panels -> StripType]
  BY DEF UpdateInit, Unmounted, Mounted, StripType
<1>7. \A p \in Panels : Honest(strip[p].update)
  BY DEF UpdateInit, Unmounted, Mounted, Honest
<1> QED BY <1>1, <1>2, <1>3, <1>4, <1>5, <1>6, <1>7 DEF UpdateInv

LEMMA MountKeeps ==
  ASSUME UpdateInv, NEW p \in Panels, Mount(p)
  PROVE  UpdateInv'
<1>1. manifest' = manifest /\ clock' = clock /\ lookup' = lookup /\ cache' = cache /\ clock \in Nat
  BY DEF Mount, host, UpdateInv
<1>2. Sent \in RequestType /\ CheckInv(Sent, "mount") /\ "mount" \in Kinds
  BY DEF Sent, RequestType, CheckInv, Kinds
<1>3. requests' = [requests EXCEPT ![p]["mount"] = Sent]
  BY DEF Mount
<1>4. /\ (requests \in [Panels -> [Kinds -> RequestType]])'
      /\ \A q \in Panels, j \in Kinds : CheckInv(requests[q][j], j)'
  BY <1>1, <1>2, <1>3, RequestReplaced
<1>5. strip' \in [Panels -> StripType]
  BY DEF Mount, UpdateInv, Mounted, StripType
<1>6. \A q \in Panels : Honest(strip[q].update)'
  BY <1>1 DEF Mount, UpdateInv, Mounted, Honest
<1> QED BY <1>1, <1>4, <1>5, <1>6, HostCarries DEF UpdateInv

LEMMA UnmountKeeps ==
  ASSUME UpdateInv, NEW p \in Panels, Unmount(p)
  PROVE  UpdateInv'
<1>1. manifest' = manifest /\ clock' = clock /\ lookup' = lookup /\ cache' = cache /\ clock \in Nat
  BY DEF Unmount, host, UpdateInv
<1>2. Idle \in RequestType /\ \A k \in Kinds : CheckInv(Idle, k)'
  BY DEF Idle, RequestType, CheckInv
<1>3. requests' = [requests EXCEPT ![p] = [k \in Kinds |-> Idle]]
      /\ requests \in [Panels -> [Kinds -> RequestType]]
  BY DEF Unmount, UpdateInv
<1>4. requests' \in [Panels -> [Kinds -> RequestType]]
  BY <1>2, <1>3
<1>5. ASSUME NEW q \in Panels, NEW j \in Kinds
      PROVE  CheckInv(requests[q][j], j)'
  <2>1. CASE q = p
    <3>1. requests'[q][j] = Idle
      BY <1>3, <2>1
    <3> QED BY <3>1 DEF CheckInv, Idle
  <2>2. CASE q # p
    <3>1. requests'[q][j] = requests[q][j]
      BY <1>3, <2>2
    <3> QED BY <1>1, <3>1, ChecksCarry
  <2> QED BY <2>1, <2>2
<1>6. strip' \in [Panels -> StripType]
  BY DEF Unmount, UpdateInv, Unmounted, Mounted, StripType
<1>7. \A q \in Panels : Honest(strip[q].update)'
  BY <1>1 DEF Unmount, UpdateInv, Unmounted, Mounted, Honest
<1> QED BY <1>1, <1>4, <1>5, <1>6, <1>7, HostCarries DEF UpdateInv

LEMMA ClickKeeps ==
  ASSUME UpdateInv, NEW p \in Panels, Click(p)
  PROVE  UpdateInv'
<1>1. manifest' = manifest /\ clock' = clock /\ lookup' = lookup /\ cache' = cache /\ clock \in Nat
  BY DEF Click, host, UpdateInv
<1>2. Sent \in RequestType /\ CheckInv(Sent, "click") /\ "click" \in Kinds
  BY DEF Sent, RequestType, CheckInv, Kinds
<1>3. requests' = [requests EXCEPT ![p]["click"] = Sent]
  BY DEF Click
<1>4. /\ (requests \in [Panels -> [Kinds -> RequestType]])'
      /\ \A q \in Panels, j \in Kinds : CheckInv(requests[q][j], j)'
  BY <1>1, <1>2, <1>3, RequestReplaced
<1>5. strip' \in [Panels -> StripType]
  BY DEF Click, UpdateInv, StripType
<1>6. \A q \in Panels : Honest(strip[q].update)'
  <2>1. \A q \in Panels : strip'[q].update = strip[q].update
    BY DEF Click, UpdateInv, StripType
  <2> QED BY <1>1, <2>1 DEF UpdateInv, Honest
<1> QED BY <1>1, <1>4, <1>5, <1>6, HostCarries DEF UpdateInv

\* The page paints what it got; the time of the answer is no part of its honesty.
LEMMA ArrivesKeeps ==
  ASSUME UpdateInv, NEW p \in Panels, NEW k \in Kinds, Arrives(p, k)
  PROVE  UpdateInv'
<1>1. manifest' = manifest /\ clock' = clock /\ lookup' = lookup /\ cache' = cache /\ clock \in Nat
  BY DEF Arrives, host, UpdateInv
<1>2. Idle \in RequestType /\ CheckInv(Idle, k)
  BY DEF Idle, RequestType, CheckInv
<1>3. requests' = [requests EXCEPT ![p][k] = Idle]
  BY DEF Arrives
<1>4. /\ (requests \in [Panels -> [Kinds -> RequestType]])'
      /\ \A q \in Panels, j \in Kinds : CheckInv(requests[q][j], j)'
  BY <1>1, <1>2, <1>3, RequestReplaced
<1> DEFINE info == requests[p][k].info
           painted == [info EXCEPT !.checkedAt = 0]
<1>5. info \in InfoType /\ Honest(info)
  <2>1. requests[p][k] \in RequestType /\ requests[p][k].st = "answered"
        /\ CheckInv(requests[p][k], k)
    BY DEF UpdateInv, Arrives
  <2> QED BY <2>1 DEF RequestType, CheckInv
<1>6. strip \in [Panels -> StripType] /\ strip' = [strip EXCEPT ![p] = Painted(@, k, info)]
  BY DEF UpdateInv, Arrives
<1> HIDE DEF info
<1>7. painted \in InfoType /\ Honest(painted)
  <2>1. /\ painted \in InfoType /\ painted.ok = info.ok /\ painted.latest = info.latest
        /\ painted.hasUpdate = info.hasUpdate /\ painted.ahead = info.ahead
        /\ painted.heard = info.heard
    BY <1>5 DEF InfoType
  <2>2. info # NoInfo
    <3>1. info.checkedAt \in Nat /\ NoInfo.checkedAt = -1
      BY <1>5 DEF InfoType, NoInfo
    <3> QED BY <3>1
  <2> QED BY <1>5, <2>1, <2>2 DEF Honest
<1>8. strip'[p].update = painted /\ \A q \in Panels : q # p => strip'[q] = strip[q]
  BY <1>6 DEF Painted, StripType
<1>9. strip' \in [Panels -> StripType]
  <2>1. Painted(strip[p], k, info) \in StripType
    <3>1. Painted(strip[p], k, info)
            = [strip[p] EXCEPT !.update = painted, !.busy = strip[p].busy /\ k # "click"]
      BY DEF Painted
    <3> HIDE DEF painted
    <3> QED BY <1>6, <1>7, <3>1 DEF StripType
  <2> QED BY <1>6, <2>1
<1> HIDE DEF painted
<1>10. \A q \in Panels : Honest(strip[q].update)'
  BY <1>1, <1>7, <1>8 DEF UpdateInv, Honest
<1> QED BY <1>1, <1>4, <1>9, <1>10, HostCarries DEF UpdateInv

LEMMA LostKeeps ==
  ASSUME UpdateInv, NEW p \in Panels, NEW k \in Kinds, Lost(p, k)
  PROVE  UpdateInv'
<1>1. manifest' = manifest /\ clock' = clock /\ lookup' = lookup /\ cache' = cache /\ clock \in Nat
  BY DEF Lost, host, UpdateInv
<1>2. Idle \in RequestType /\ CheckInv(Idle, k)
  BY DEF Idle, RequestType, CheckInv
<1>3. requests' = [requests EXCEPT ![p][k] = Idle]
  BY DEF Lost
<1>4. /\ (requests \in [Panels -> [Kinds -> RequestType]])'
      /\ \A q \in Panels, j \in Kinds : CheckInv(requests[q][j], j)'
  BY <1>1, <1>2, <1>3, RequestReplaced
<1>5. strip \in [Panels -> StripType] /\ strip' = [strip EXCEPT ![p] = Broken(@, k)]
  BY DEF Lost, UpdateInv
<1>6. Broken(strip[p], k) \in StripType
  BY <1>5 DEF Broken, StripType
<1>7. strip' \in [Panels -> StripType]
  BY <1>5, <1>6
<1>8. \A q \in Panels : Honest(strip[q].update)'
  <2>1. \A q \in Panels : strip'[q].update = strip[q].update
    BY <1>5 DEF Broken, StripType
  <2> QED BY <1>1, <2>1 DEF UpdateInv, Honest
<1> QED BY <1>1, <1>4, <1>7, <1>8, HostCarries DEF UpdateInv

\* A check is fresh from the cache, or waits.
LEMMA CheckKeeps ==
  ASSUME UpdateInv, NEW p \in Panels, NEW k \in Kinds, Check(p, k)
  PROVE  UpdateInv'
<1>1. manifest' = manifest /\ clock' = clock /\ cache' = cache /\ strip' = strip /\ clock \in Nat
  BY DEF Check, UpdateInv
<1>2. CASE Fresh /\ ~Forced(k)
  <2> DEFINE r == Request("answered", cache)
  <2>1. cache \in InfoType /\ Honest(cache) /\ clock - cache.checkedAt < Ttl
    BY <1>2 DEF UpdateInv, CacheInv, Fresh
  <2>2. r = [st |-> "answered", info |-> cache, at |-> clock]
    BY DEF Request
  <2>3. requests' = [requests EXCEPT ![p][k] = r] /\ lookup' = lookup
    BY <1>2 DEF Check
  <2> HIDE DEF r
  <2>4. r \in RequestType /\ CheckInv(r, k)
    BY <1>1, <1>2, <2>1, <2>2 DEF RequestType, CheckInv
  <2>5. /\ (requests \in [Panels -> [Kinds -> RequestType]])'
        /\ \A q \in Panels, j \in Kinds : CheckInv(requests[q][j], j)'
    BY <1>1, <2>3, <2>4, RequestReplaced
  <2> QED BY <1>1, <2>3, <2>5, HostCarries, StripsCarry DEF UpdateInv
<1>3. CASE ~(Fresh /\ ~Forced(k))
  <2> DEFINE r == Request("waiting", NoInfo)
  <2>1. r = [st |-> "waiting", info |-> NoInfo, at |-> clock]
    BY DEF Request
  <2>2. requests' = [requests EXCEPT ![p][k] = r]
        /\ lookup' = (IF lookup.begun THEN lookup ELSE NewLookup)
    BY <1>3 DEF Check
  <2> HIDE DEF r
  <2>3. r \in RequestType /\ CheckInv(r, k)
    BY <1>1, <2>1 DEF RequestType, CheckInv
  <2>4. /\ (requests \in [Panels -> [Kinds -> RequestType]])'
        /\ \A q \in Panels, j \in Kinds : CheckInv(requests[q][j], j)'
    BY <1>1, <2>2, <2>3, RequestReplaced
  <2>5. LookupInv'
    <3>1. CASE lookup' = NewLookup
      <4> DEFINE n == IF manifest.version = Absent THEN 0 ELSE Sources
      <4>1. n \in Nat /\ (manifest.version = Absent => n = 0)
        BY DEF Sources
      <4>2. lookup' = [NoLookup EXCEPT !.begun = TRUE, !.waiting = n]
        BY <3>1 DEF NewLookup
      <4> HIDE DEF n
      <4>3. lookup' = [begun |-> TRUE, waiting |-> n, best |-> Absent, heard |-> 0]
        BY <4>2 DEF NoLookup
      <4>4. lookup' \in [begun : BOOLEAN, waiting : Nat, best : Versions \cup {Absent},
                         heard : 0..Len(Ascending)]
        BY <4>1, <4>3, RankFacts
      <4> QED BY <1>1, <4>1, <4>3, <4>4 DEF LookupInv
    <3> QED BY <1>1, <2>2, <3>1, HostCarries
  <2> QED BY <1>1, <2>4, <2>5, HostCarries, StripsCarry DEF UpdateInv
<1> QED BY <1>2, <1>3

\* Everyone who waits was there before the lookup ended.
LEMMA LookupEndsKeeps ==
  ASSUME UpdateInv, LookupEnds
  PROVE  UpdateInv'
<1>1. /\ manifest' = manifest /\ clock' = clock /\ strip' = strip /\ clock \in Nat
      /\ cache' = Info(lookup.best, lookup.heard) /\ lookup' = NoLookup
  BY DEF LookupEnds, UpdateInv
<1>2. PICK info : info = Info(lookup.best, lookup.heard)
  OBVIOUS
<1>3. info \in InfoType /\ Honest(info) /\ info.checkedAt = clock
  BY <1>2, InfoIsHonest
<1>4. cache' = info /\ requests' = Answered(info)
  BY <1>1, <1>2 DEF LookupEnds, Answered
<1>5. LookupInv'
  BY <1>1, RankFacts DEF LookupInv, NoLookup
<1>6. CacheInv'
  BY <1>1, <1>3, <1>4 DEF CacheInv, Honest
<1>7. ASSUME NEW p \in Panels, NEW k \in Kinds
      PROVE  requests'[p][k] \in RequestType /\ CheckInv(requests[p][k], k)'
  <2> DEFINE r == requests[p][k]
  <2>1. r \in RequestType /\ CheckInv(r, k)
    BY DEF UpdateInv
  <2>2. requests'[p][k] = IF r.st = "waiting" THEN [r EXCEPT !.st = "answered", !.info = info]
                          ELSE r
    BY <1>4 DEF Answered
  <2>3. CASE r.st = "waiting"
    <3> HIDE DEF r
    <3>1. r \in [st : {"waiting"}, info : {NoInfo}, at : Nat] /\ r.at <= clock
      BY <2>1, <2>3 DEF RequestType, CheckInv
    <3>2. requests'[p][k] = [r EXCEPT !.st = "answered", !.info = info]
      BY <2>2, <2>3
    <3>3. /\ requests'[p][k] \in [st : {"answered"}, info : InfoType, at : Nat]
          /\ requests'[p][k].st = "answered" /\ requests'[p][k].info = info
          /\ requests'[p][k].at = r.at
      BY <1>3, <3>1, <3>2
    <3>4. requests'[p][k] \in RequestType
      BY <3>3 DEF RequestType
    <3>5. r.at \in Nat /\ info.checkedAt >= r.at
      BY <1>1, <1>3, <3>1
    <3> QED BY <1>1, <1>3, <3>3, <3>4, <3>5 DEF CheckInv, Honest
  <2>4. CASE r.st # "waiting"
    <3>1. requests'[p][k] = requests[p][k]
      BY <2>2, <2>4
    <3> QED BY <1>1, <2>1, <3>1, ChecksCarry
  <2> QED BY <2>3, <2>4
<1>8. requests' \in [Panels -> [Kinds -> RequestType]]
  <2>1. requests' = [p \in Panels |-> [k \in Kinds |-> requests'[p][k]]]
    BY <1>4 DEF Answered
  <2> QED BY <1>7, <2>1
<1> QED BY <1>1, <1>5, <1>6, <1>7, <1>8, HostCarries, StripsCarry DEF UpdateInv

LEMMA RestartKeeps ==
  ASSUME UpdateInv, Restart
  PROVE  UpdateInv'
<1>1. /\ manifest' = manifest /\ clock' = clock /\ strip' = strip /\ clock \in Nat
      /\ cache' = NoInfo /\ lookup' = NoLookup
  BY DEF Restart, UpdateInv
<1>2. LookupInv'
  BY <1>1, RankFacts DEF LookupInv, NoLookup
<1>3. CacheInv'
  BY <1>1 DEF CacheInv, NoInfo
<1>4. ASSUME NEW p \in Panels, NEW k \in Kinds
      PROVE  requests'[p][k] \in RequestType /\ CheckInv(requests[p][k], k)'
  <2>1. requests[p][k] \in RequestType
    BY DEF UpdateInv
  <2>2. CASE requests[p][k].st = "waiting"
    <3>1. requests'[p][k] = [st |-> "broken"]
      BY <2>2 DEF Restart
    <3> QED BY <3>1 DEF RequestType, CheckInv
  <2>3. CASE requests[p][k].st # "waiting"
    <3>1. requests'[p][k] = requests[p][k]
      BY <2>3 DEF Restart
    <3> QED BY <1>1, <2>1, <3>1, ChecksCarry
  <2> QED BY <2>2, <2>3
<1>5. requests' \in [Panels -> [Kinds -> RequestType]]
  <2>1. requests' = [p \in Panels |-> [k \in Kinds |-> requests'[p][k]]]
    BY DEF Restart
  <2> QED BY <1>4, <2>1
<1> QED BY <1>1, <1>2, <1>3, <1>4, <1>5, HostCarries, StripsCarry DEF UpdateInv

\* The steps that leave every request and every strip as they were.
LEMMA QuietKeeps ==
  ASSUME UpdateInv, manifest' = manifest, clock' \in Nat, clock <= clock', cache' = cache,
         requests' = requests, strip' = strip, LookupInv'
  PROVE  UpdateInv'
<1>1. \A p \in Panels, k \in Kinds : CheckInv(requests[p][k], k)'
  BY ChecksCarry
<1>2. (requests \in [Panels -> [Kinds -> RequestType]])'
  BY DEF UpdateInv
<1> QED BY <1>1, <1>2, HostCarries, StripsCarry DEF UpdateInv

LEMMA UpdateSteps ==
  UpdateInv /\ [UpdateNext]_UpdateVars => UpdateInv'
<1> SUFFICES ASSUME UpdateInv, [UpdateNext]_UpdateVars PROVE UpdateInv'
  OBVIOUS
<1>1. clock \in Nat
  BY DEF UpdateInv
<1>2. ASSUME NEW p \in Panels, Mount(p) \/ Unmount(p) \/ Click(p) PROVE UpdateInv'
  BY <1>2, MountKeeps, UnmountKeeps, ClickKeeps
<1>3. ASSUME NEW p \in Panels, NEW k \in Kinds, Check(p, k) \/ Arrives(p, k) \/ Lost(p, k)
      PROVE  UpdateInv'
  BY <1>3, CheckKeeps, ArrivesKeeps, LostKeeps
<1>4. CASE SourceAnswers
  <2>1. LookupInv'
    BY <1>4, LookupHears
  <2>2. manifest' = manifest /\ clock' = clock /\ cache' = cache /\ requests' = requests
        /\ strip' = strip
    BY <1>4 DEF SourceAnswers
  <2>3. clock' \in Nat /\ clock <= clock'
    BY <1>1, <2>2
  <2> QED BY <2>1, <2>2, <2>3, QuietKeeps
<1>5. CASE LookupEnds
  BY <1>5, LookupEndsKeeps
<1>6. CASE Restart
  BY <1>6, RestartKeeps
<1>7. CASE Tick \/ UNCHANGED UpdateVars
  <2>1. manifest' = manifest /\ cache' = cache /\ lookup' = lookup /\ requests' = requests
        /\ strip' = strip /\ clock' \in {clock, clock + 1}
    BY <1>7 DEF Tick, UpdateVars, host
  <2>2. clock' \in Nat /\ clock <= clock'
    BY <1>1, <2>1
  <2>3. LookupInv'
    BY <2>1, <2>2, HostCarries
  <2> QED BY <2>1, <2>2, <2>3, QuietKeeps
<1> QED BY <1>2, <1>3, <1>4, <1>5, <1>6, <1>7 DEF UpdateNext

\* update.ts: whatever checks, clicks, lookups, lost connections and restarts come in any order,
\* a lookup keeps the highest version it heard of, and everything a check or a strip holds is
\* honest, typed and was looked up before now.
THEOREM CheckGoesOn == UpdateSpec => []UpdateInv
BY UpdateStarts, UpdateSteps, PTL DEF UpdateSpec

\* update.ts and update-status.ts: the cache, every answer on its way and every strip tell the
\* highest version a source reported, and place the installed one right against it.
THEOREM StripTellsTheTruth == UpdateSpec => []UpdateHonest
<1>1. UpdateInv => UpdateHonest
  <2> SUFFICES ASSUME UpdateInv PROVE UpdateHonest
    OBVIOUS
  <2>1. Honest(cache)
    BY DEF UpdateInv, CacheInv, Honest
  <2>2. \A p \in Panels, k \in Kinds : requests[p][k].st = "answered" => Honest(requests[p][k].info)
    BY DEF UpdateInv, CheckInv
  <2>3. ASSUME NEW p \in Panels
        PROVE  /\ Tone(strip[p]) = "ok" => strip[p].update.heard \in 1..Rank(manifest.version)
               /\ Tone(strip[p]) = "update" => strip[p].update.heard > Rank(manifest.version)
    <3> DEFINE u == strip[p].update
    <3>1. Honest(u) /\ strip[p] \in StripType
      BY DEF UpdateInv
    <3>2. CASE u = NoInfo \/ strip[p].error
      BY <3>2 DEF Tone
    <3>3. CASE u # NoInfo /\ ~strip[p].error
      <4>1. u \in InfoType
        BY <3>1, <3>3 DEF StripType
      <4>2. u.heard \in Nat /\ u.ok \in BOOLEAN /\ u.hasUpdate \in BOOLEAN
        BY <4>1 DEF InfoType
      <4>3. Tone(strip[p]) = IF u.hasUpdate THEN "update" ELSE IF u.ok THEN "ok" ELSE "unknown"
        BY <3>3 DEF Tone
      <4>4. CASE manifest.version \in Versions /\ u.heard > 0
        <5>1. Rank(manifest.version) \in Nat
          BY <4>4, RankFacts
        <5>2. u.hasUpdate <=> u.heard > Rank(manifest.version)
          BY <3>1, <3>3, <4>4 DEF Honest
        <5> HIDE DEF u
        <5>3. CASE u.hasUpdate
          BY <4>3, <5>2, <5>3 DEF u
        <5>4. CASE ~u.hasUpdate
          <6>1. u.heard \in 1..Rank(manifest.version)
            BY <4>2, <4>4, <5>1, <5>2, <5>4
          <6> QED BY <4>3, <5>4, <6>1 DEF u
        <5> QED BY <4>2, <5>3, <5>4
      <4>5. CASE ~(manifest.version \in Versions /\ u.heard > 0)
        <5>1. ~u.ok /\ ~u.hasUpdate
          BY <3>1, <3>3, <4>5 DEF Honest
        <5> QED BY <4>3, <5>1
      <4> QED BY <4>4, <4>5
    <3> QED BY <3>2, <3>3
  <2> QED BY <2>1, <2>2, <2>3 DEF UpdateHonest
<1> QED BY <1>1, CheckGoesOn, PTL

\* update.ts check(): an answer was looked up after its check reached the host, or, for a check
\* nobody clicked for, is younger than the cache's lifetime, whatever joins, expiries and restarts
\* fell in between.
THEOREM AnswersAreFresh == UpdateSpec => []AnswersFresh
<1>1. UpdateInv => AnswersFresh
  BY DEF UpdateInv, CheckInv, AnswersFresh
<1> QED BY <1>1, CheckGoesOn, PTL
=============================================================================
