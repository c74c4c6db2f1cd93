--------------------------- MODULE SessionPoolProofs ---------------------------
(***************************************************************************)
(* Proofs about SessionPool, for any number of contexts, callers, sessions *)
(* and rounds of an unload: turns keep their order, a context has one      *)
(* session, and an unload disposes what was open.                          *)
(***************************************************************************)
EXTENDS SessionPool, TLAPS

\* The tables hold what their names say: openings a session that is being opened
\* for that context, handles one that is open.  A caller that has a session has
\* one the host was asked for, and only its opener has it as its own.
TablesHold ==
  /\ \A x \in Contexts : openings[x] # NoHandle =>
        status[openings[x]] = "opening" /\ home[openings[x]] = x
  /\ \A x \in Contexts : handles[x] # NoHandle =>
        status[handles[x]] = "open" /\ home[handles[x]] = x
  /\ \A h \in Handles : status[h] # "none" => home[h] \in Contexts

\* Until an unload, what is open or opening is in its table, in one of the two.
TablesComplete ==
  teardown.rounds = Rounds =>
    /\ \A h \in Handles :
         /\ status[h] = "opening" => openings[home[h]] = h
         /\ status[h] = "open" => handles[home[h]] = h
    /\ \A x \in Contexts : handles[x] = NoHandle \/ openings[x] = NoHandle

\* Who opened a session is the one to name it, and names it once.
OpenersName ==
  /\ \A c \in Callers : agent[c] # NoHandle => status[agent[c]] # "none"
  /\ \A c \in Callers : justOpened[c] => pc[c] \notin {"idle", "queued"} /\ agent[c] # NoHandle
  /\ \A c, d \in Callers : justOpened[c] /\ justOpened[d] /\ agent[c] = agent[d] => c = d
  /\ \A h \in Handles : named[h] <= 1
  /\ \A h \in Handles : named[h] # 0 =>
        \E c \in Callers : justOpened[c] /\ agent[c] = h /\ pc[c] \in {"running", "done"}

\* What an unload has taken out of the table was open, and is in no table again.
CapturedHeld ==
  /\ teardown.phase = "idle" => teardown.live = {}
  /\ \A h \in teardown.live : status[h] \in {"open", "disposed"}
  /\ \A x \in Contexts : handles[x] \notin teardown.live
  /\ \A h \in teardown.wasOpen : status[h] = "disposed" \/ h \in teardown.live

\* A caller that came has a context, one past the queue a session.
CallersPlaced ==
  \A c \in Callers :
    /\ pc[c] # "idle" => context[c] \in Contexts
    /\ pc[c] \in {"opening", "admitting", "running"} => agent[c] # NoHandle

\* The turns of a context before the j-th are over.
EarlierDone(x, j) == \A i \in 1..(j - 1) : pc[arrived[x][i]] = "done"

Chained(x) ==
  /\ \A j \in DOMAIN arrived[x] :
       LET t == arrived[x][j] IN
       /\ pc[t] # "idle"
       /\ pc[t] # "queued" \/ after[t] = NoTurn => EarlierDone(x, j)
       /\ after[t] # NoTurn => j > 1 /\ after[t] = arrived[x][j - 1]
  /\ tails[x] = NoTurn => \A j \in DOMAIN arrived[x] : pc[arrived[x][j]] = "done"
  /\ tails[x] # NoTurn => arrived[x] # <<>> /\ tails[x] = arrived[x][Len(arrived[x])]

\* What makes TurnsInOrder inductive: a turn waits for the one before it, or there
\* is none left to wait for.
ChainHolds == Unbroken => \A x \in Contexts : Chained(x)

PoolInv ==
  TypeOK /\ CallersPlaced /\ TablesHold /\ TablesComplete /\ OpenersName /\ CapturedHeld
-----------------------------------------------------------------------------
(* Types *)

LEMMA HandleNumbers == NoHandle \notin Handles /\ Handles \subseteq Nat
BY PoolBoundsAssumption DEF Handles, NoHandle

LEMMA LeaveChainType ==
  ASSUME TypeOK, NEW S, LeaveChain(S)
  PROVE  tails' \in [Contexts -> Turns \cup {NoTurn}]
BY DEF TypeOK, LeaveChain

\* Steps that leave the tables and the sessions alone.
LEMMA SamePool ==
  ASSUME PoolInv, UNCHANGED <<handles, openings, status, home, teardown>>
  PROVE  TablesHold' /\ TablesComplete' /\ CapturedHeld'
BY DEF PoolInv, TablesHold, TablesComplete, CapturedHeld

\* Steps that leave sessions, names and who opened what alone, and bring no caller
\* back to the queue or to an earlier stage.
LEMMA SameOpeners ==
  ASSUME PoolInv, UNCHANGED <<agent, justOpened, named>>,
         \A h \in Handles : status[h] # "none" => status'[h] # "none",
         \A c \in Callers : \/ pc'[c] = pc[c]
                            \/ pc[c] = "opening" /\ pc'[c] = "admitting"
                            \/ pc'[c] = "done"
                            \/ ~justOpened[c]
  PROVE  OpenersName'
<1>1. /\ \A c \in Callers : agent[c] # NoHandle => status'[agent[c]] # "none"
      /\ \A c \in Callers : justOpened[c] => pc'[c] \notin {"idle", "queued"} /\ agent[c] # NoHandle
  BY DEF PoolInv, OpenersName, TypeOK
<1>2. \A c \in Callers : justOpened[c] /\ pc[c] \in {"running", "done"} => pc'[c] \in {"running", "done"}
  BY DEF PoolInv, OpenersName
<1> QED BY <1>1, <1>2 DEF PoolInv, OpenersName
-----------------------------------------------------------------------------
(* Each operation keeps what the tables say *)

LEMMA ArriveKeeps ==
  ASSUME PoolInv, NEW c \in Callers, NEW x \in Contexts, RunTurn(c, x) \/ Delegate(c, x)
  PROVE  PoolInv'
<1>1. /\ pc[c] = "idle" /\ pc' = [pc EXCEPT ![c] = "queued"]
      /\ context' = [context EXCEPT ![c] = x]
      /\ UNCHANGED <<handles, openings, status, home, agent, justOpened, aborted,
                     teardown, closes, named>>
  BY DEF RunTurn, Delegate, pool, history
<1>2. /\ tails' \in [Contexts -> Turns \cup {NoTurn}]
      /\ after' \in [Callers -> Turns \cup {NoTurn}]
      /\ arrived' \in [Contexts -> Seq(Turns)]
  <2>1. CASE RunTurn(c, x)
    <3>1. c \in Turns /\ arrived[x] \in Seq(Turns) /\ tails[x] \in Turns \cup {NoTurn}
      BY <2>1 DEF RunTurn, Chains, PoolInv, TypeOK
    <3>2. Append(arrived[x], c) \in Seq(Turns)
      BY <3>1
    <3> QED BY <2>1, <3>1, <3>2 DEF RunTurn, Chain, PoolInv, TypeOK
  <2>2. CASE Delegate(c, x)
    BY <2>2 DEF Delegate, pool, history, PoolInv, TypeOK
  <2> QED BY <2>1, <2>2
<1>3. TypeOK'
  BY <1>1, <1>2 DEF PoolInv, TypeOK
<1>4. CallersPlaced'
  BY <1>1 DEF PoolInv, TypeOK, CallersPlaced
<1>5. ~justOpened[c]
  BY <1>1 DEF PoolInv, OpenersName, TypeOK
<1>6. OpenersName'
  <2>1. \A d \in Callers : d # c => pc'[d] = pc[d]
    BY <1>1 DEF PoolInv, TypeOK
  <2> QED BY <1>1, <1>5, <2>1, SameOpeners
<1> QED BY <1>1, <1>3, <1>4, <1>6, SamePool DEF PoolInv

LEMMA UseLiveKeeps ==
  ASSUME PoolInv, NEW c \in Callers, UseLive(c)
  PROVE  PoolInv'
<1> DEFINE x == context[c]
<1>1. /\ pc[c] = "queued" /\ x \in Contexts /\ handles[x] \in Handles
      /\ agent' = [agent EXCEPT ![c] = handles[x]] /\ pc' = [pc EXCEPT ![c] = "admitting"]
      /\ UNCHANGED <<handles, openings, tails, status, home, context, after, justOpened, aborted,
                     teardown, closes, arrived, named>>
  BY DEF UseLive, Ready, PoolInv, CallersPlaced, TypeOK, pool, history
<1>2. TypeOK'
  BY <1>1 DEF PoolInv, TypeOK
<1>3. CallersPlaced'
  BY <1>1, HandleNumbers DEF PoolInv, CallersPlaced, TypeOK
<1>4. ~justOpened[c] /\ status[handles[x]] # "none"
  BY <1>1, HandleNumbers DEF PoolInv, OpenersName, TablesHold, TypeOK
<1>5. \A d \in Callers : d # c => pc'[d] = pc[d] /\ agent'[d] = agent[d]
  BY <1>1 DEF PoolInv, TypeOK
<1>6. agent'[c] = handles[x]
  BY <1>1 DEF PoolInv, TypeOK
<1>7. OpenersName'
  BY <1>1, <1>4, <1>5, <1>6 DEF PoolInv, OpenersName
<1> QED BY <1>1, <1>2, <1>3, <1>7, SamePool DEF PoolInv

LEMMA JoinOpeningKeeps ==
  ASSUME PoolInv, NEW c \in Callers, JoinOpening(c)
  PROVE  PoolInv'
<1> DEFINE x == context[c]
<1>1. /\ pc[c] = "queued" /\ x \in Contexts /\ openings[x] \in Handles
      /\ agent' = [agent EXCEPT ![c] = openings[x]] /\ pc' = [pc EXCEPT ![c] = "opening"]
      /\ UNCHANGED <<handles, openings, tails, status, home, context, after, justOpened, aborted,
                     teardown, closes, arrived, named>>
  BY DEF JoinOpening, Ready, PoolInv, CallersPlaced, TypeOK, pool, history
<1>2. TypeOK'
  BY <1>1 DEF PoolInv, TypeOK
<1>3. CallersPlaced'
  BY <1>1, HandleNumbers DEF PoolInv, CallersPlaced, TypeOK
<1>4. ~justOpened[c] /\ status[openings[x]] # "none"
  BY <1>1, HandleNumbers DEF PoolInv, OpenersName, TablesHold, TypeOK
<1>5. \A d \in Callers : d # c => pc'[d] = pc[d] /\ agent'[d] = agent[d]
  BY <1>1 DEF PoolInv, TypeOK
<1>6. agent'[c] = openings[x]
  BY <1>1 DEF PoolInv, TypeOK
<1>7. OpenersName'
  BY <1>1, <1>4, <1>5, <1>6 DEF PoolInv, OpenersName
<1> QED BY <1>1, <1>2, <1>3, <1>7, SamePool DEF PoolInv

LEMMA OpenKeeps ==
  ASSUME PoolInv, NEW c \in Callers, Open(c)
  PROVE  PoolInv'
<1> DEFINE x == context[c]
<1>1. PICK h \in Handles :
        /\ status[h] = "none"
        /\ status' = [status EXCEPT ![h] = "opening"]
        /\ home' = [home EXCEPT ![h] = x]
        /\ openings' = [openings EXCEPT ![x] = h]
        /\ agent' = [agent EXCEPT ![c] = h]
  BY DEF Open
<1>2. /\ pc[c] = "queued" /\ x \in Contexts /\ handles[x] = NoHandle /\ openings[x] = NoHandle
      /\ justOpened' = [justOpened EXCEPT ![c] = TRUE] /\ pc' = [pc EXCEPT ![c] = "opening"]
      /\ UNCHANGED <<handles, tails, context, after, aborted, teardown, closes, arrived, named>>
  BY DEF Open, Ready, NeedsOpening, PoolInv, CallersPlaced, TypeOK, history
<1>3. TypeOK'
  BY <1>1, <1>2 DEF PoolInv, TypeOK
<1>4. CallersPlaced'
  BY <1>1, <1>2, HandleNumbers DEF PoolInv, CallersPlaced, TypeOK
<1>5. /\ \A g \in Handles : /\ status'[g] = IF g = h THEN "opening" ELSE status[g]
                            /\ home'[g] = IF g = h THEN x ELSE home[g]
      /\ \A y \in Contexts : openings'[y] = IF y = x THEN h ELSE openings[y]
      /\ \A d \in Callers : /\ agent'[d] = IF d = c THEN h ELSE agent[d]
                            /\ pc'[d] = IF d = c THEN "opening" ELSE pc[d]
                            /\ justOpened'[d] <=> (d = c \/ justOpened[d])
  BY <1>1, <1>2 DEF PoolInv, TypeOK
<1>6. /\ \A y \in Contexts : handles[y] \in Handles \cup {NoHandle}
                              /\ openings[y] \in Handles \cup {NoHandle}
      /\ \A d \in Callers : agent[d] \in Handles \cup {NoHandle}
      /\ teardown.live \subseteq Handles /\ teardown.wasOpen \subseteq Handles
  BY DEF PoolInv, TypeOK
<1> HIDE DEF x
<1>7. TablesHold'
  BY <1>1, <1>2, <1>5, <1>6 DEF PoolInv, TablesHold
<1>8. TablesComplete'
  <2>1. \A g \in Handles : status[g] \in {"opening", "open"} => home[g] \in Contexts
    BY DEF PoolInv, TablesHold
  <2> QED BY <1>1, <1>2, <1>5, <2>1, HandleNumbers DEF PoolInv, TablesComplete
<1>9. CapturedHeld'
  BY <1>1, <1>2, <1>5, <1>6 DEF PoolInv, CapturedHeld
<1>10. OpenersName'
  <2>1. ~justOpened[c] /\ \A d \in Callers : agent[d] # h
    BY <1>1, <1>2, HandleNumbers DEF PoolInv, OpenersName
  <2>2. \A d \in Callers : agent'[d] # NoHandle => status'[agent'[d]] # "none"
    BY <1>5, <1>6 DEF PoolInv, OpenersName
  <2>3. \A d \in Callers : justOpened'[d] => pc'[d] \notin {"idle", "queued"} /\ agent'[d] # NoHandle
    BY <1>5, HandleNumbers DEF PoolInv, OpenersName
  <2>4. \A d, e \in Callers : justOpened'[d] /\ justOpened'[e] /\ agent'[d] = agent'[e] => d = e
    BY <1>5, <2>1 DEF PoolInv, OpenersName
  <2>5. \A g \in Handles : named'[g] # 0 =>
          \E d \in Callers : justOpened'[d] /\ agent'[d] = g /\ pc'[d] \in {"running", "done"}
    BY <1>2, <1>5, <2>1 DEF PoolInv, OpenersName
  <2> QED BY <1>2, <2>2, <2>3, <2>4, <2>5 DEF PoolInv, OpenersName
<1> QED BY <1>3, <1>4, <1>7, <1>8, <1>9, <1>10 DEF PoolInv

\* What a settled opening leaves of the table of openings.
LEMMA ForgetFacts ==
  ASSUME PoolInv, NEW h \in Handles, status[h] = "opening", ForgetOpening(h)
  PROVE  /\ home[h] \in Contexts
         /\ openings' \in [Contexts -> Handles \cup {NoHandle}]
         /\ \A x \in Contexts : /\ openings'[x] = IF openings[x] = h THEN NoHandle ELSE openings[x]
                                /\ openings[x] = h => x = home[h]
<1>1. home[h] \in Contexts /\ \A x \in Contexts : openings[x] = h => x = home[h]
  BY HandleNumbers DEF PoolInv, TablesHold
<1> QED BY <1>1 DEF ForgetOpening, PoolInv, TypeOK

LEMMA OpenedKeeps ==
  ASSUME PoolInv, NEW h \in Handles, Opened(h)
  PROVE  PoolInv'
<1>1. /\ status[h] = "opening" /\ status' = [status EXCEPT ![h] = "open"]
      /\ handles' = [handles EXCEPT ![home[h]] = h]
      /\ ForgetOpening(h)
      /\ pc' = [c \in Callers |-> IF c \in AwaitersOf(h) THEN "admitting" ELSE pc[c]]
      /\ UNCHANGED <<tails, home, context, after, agent, justOpened, aborted,
                     teardown, closes, arrived, named>>
  BY DEF Opened, history
<1>2. home[h] \in Contexts
  BY <1>1, ForgetFacts
<1>3. TypeOK'
  BY <1>1, <1>2, ForgetFacts DEF PoolInv, TypeOK
<1>4. /\ \A g \in Handles : status'[g] = IF g = h THEN "open" ELSE status[g]
      /\ \A y \in Contexts : handles'[y] = IF y = home[h] THEN h ELSE handles[y]
      /\ \A c \in Callers : pc'[c] = pc[c] \/ (pc[c] = "opening" /\ pc'[c] = "admitting")
  BY <1>1 DEF PoolInv, TypeOK, AwaitersOf
<1>5. \A y \in Contexts : /\ openings'[y] = IF openings[y] = h THEN NoHandle ELSE openings[y]
                          /\ openings[y] = h => y = home[h]
  BY <1>1, ForgetFacts
<1>6. CallersPlaced'
  BY <1>1, <1>4 DEF PoolInv, CallersPlaced
<1>7. TablesHold'
  BY <1>1, <1>2, <1>4, <1>5, HandleNumbers DEF PoolInv, TablesHold, TypeOK
<1>8. TablesComplete'
  <2> SUFFICES ASSUME teardown.rounds = Rounds
               PROVE  /\ \A g \in Handles :
                           /\ status'[g] = "opening" => openings'[home[g]] = g
                           /\ status'[g] = "open" => handles'[home[g]] = g
                      /\ \A y \in Contexts : handles'[y] = NoHandle \/ openings'[y] = NoHandle
    BY <1>1 DEF TablesComplete
  <2>1. /\ \A g \in Handles : /\ status[g] = "opening" => openings[home[g]] = g
                              /\ status[g] = "open" => handles[home[g]] = g
        /\ \A y \in Contexts : handles[y] = NoHandle \/ openings[y] = NoHandle
        /\ \A g \in Handles : status[g] # "none" => home[g] \in Contexts
    BY DEF PoolInv, TablesComplete, TablesHold
  <2>2. openings[home[h]] = h /\ handles[home[h]] = NoHandle
    BY <1>1, <1>2, <2>1, HandleNumbers
  <2>3. ASSUME NEW g \in Handles, status'[g] = "opening" PROVE openings'[home[g]] = g
    <3>1. g # h /\ status[g] = "opening" /\ home[g] \in Contexts
      BY <1>4, <2>1, <2>3
    <3> QED BY <1>5, <2>1, <3>1
  <2>4. ASSUME NEW g \in Handles, status'[g] = "open" PROVE handles'[home[g]] = g
    <3>1. CASE g = h
      BY <1>2, <1>4, <3>1
    <3>2. CASE g # h
      <4>1. status[g] = "open" /\ home[g] \in Contexts /\ handles[home[g]] = g
        BY <1>4, <2>1, <2>4, <3>2
      <4>2. home[g] # home[h]
        BY <2>2, <4>1, HandleNumbers
      <4> QED BY <1>4, <4>1, <4>2
    <3> QED BY <3>1, <3>2
  <2>5. ASSUME NEW y \in Contexts PROVE handles'[y] = NoHandle \/ openings'[y] = NoHandle
    BY <1>2, <1>4, <1>5, <2>1, <2>2
  <2> QED BY <2>3, <2>4, <2>5
<1>9. CapturedHeld'
  <2>1. h \notin teardown.live
    BY <1>1 DEF PoolInv, CapturedHeld
  <2>2. teardown.live \subseteq Handles /\ teardown.wasOpen \subseteq Handles
    BY DEF PoolInv, TypeOK
  <2>3. \A g \in teardown.wasOpen : status'[g] = "disposed" \/ g \in teardown.live
    BY <1>1, <1>4, <2>2 DEF PoolInv, CapturedHeld
  <2> QED BY <1>1, <1>4, <2>1, <2>2, <2>3 DEF PoolInv, CapturedHeld
<1>10. OpenersName'
  BY <1>1, <1>4, SameOpeners
<1> QED BY <1>3, <1>6, <1>7, <1>8, <1>9, <1>10 DEF PoolInv

LEMMA OpeningFailsKeeps ==
  ASSUME PoolInv, NEW h \in Handles, OpeningFails(h)
  PROVE  PoolInv'
<1>1. /\ status[h] = "opening" /\ status' = [status EXCEPT ![h] = "failed"]
      /\ ForgetOpening(h) /\ LeaveChain(AwaitersOf(h))
      /\ pc' = [c \in Callers |-> IF c \in AwaitersOf(h) THEN "done" ELSE pc[c]]
      /\ UNCHANGED <<handles, home, context, after, agent, justOpened, aborted,
                     teardown, closes, arrived, named>>
  BY DEF OpeningFails, history
<1>2. TypeOK'
  BY <1>1, ForgetFacts, LeaveChainType DEF PoolInv, TypeOK
<1>3. /\ \A g \in Handles : status'[g] = IF g = h THEN "failed" ELSE status[g]
      /\ \A c \in Callers : pc'[c] = pc[c] \/ (pc[c] = "opening" /\ pc'[c] = "done")
  BY <1>1 DEF PoolInv, TypeOK, AwaitersOf
<1>4. \A y \in Contexts : /\ openings'[y] = IF openings[y] = h THEN NoHandle ELSE openings[y]
                          /\ openings[y] = h => y = home[h]
  BY <1>1, ForgetFacts
<1>5. CallersPlaced'
  BY <1>1, <1>3 DEF PoolInv, CallersPlaced
<1>6. \A y \in Contexts : handles[y] \in Handles \cup {NoHandle}
                          /\ openings[y] \in Handles \cup {NoHandle}
  BY DEF PoolInv, TypeOK
<1>7. TablesHold'
  BY <1>1, <1>3, <1>4, <1>6, HandleNumbers DEF PoolInv, TablesHold
<1>8. TablesComplete'
  <2>1. \A g \in Handles : status[g] # "none" => home[g] \in Contexts
    BY DEF PoolInv, TablesHold
  <2> QED BY <1>1, <1>3, <1>4, <2>1, HandleNumbers DEF PoolInv, TablesComplete
<1>9. CapturedHeld'
  <2>1. h \notin teardown.live
    BY <1>1 DEF PoolInv, CapturedHeld
  <2>2. teardown.live \subseteq Handles /\ teardown.wasOpen \subseteq Handles
    BY DEF PoolInv, TypeOK
  <2>3. \A g \in teardown.wasOpen : status'[g] = "disposed" \/ g \in teardown.live
    BY <1>1, <1>3, <2>2 DEF PoolInv, CapturedHeld
  <2> QED BY <1>1, <1>3, <2>1, <2>2, <2>3 DEF PoolInv, CapturedHeld
<1>10. OpenersName'
  BY <1>1, <1>3, SameOpeners
<1> QED BY <1>2, <1>5, <1>7, <1>8, <1>9, <1>10 DEF PoolInv

LEMMA SendKeeps ==
  ASSUME PoolInv, NEW c \in Callers, Send(c)
  PROVE  PoolInv'
<1>1. /\ pc[c] = "admitting" /\ pc' = [pc EXCEPT ![c] = "running"]
      /\ UNCHANGED <<handles, openings, tails, status, home, context, after, agent, justOpened,
                     aborted, teardown, closes, arrived>>
  BY DEF Send, pool
<1>2. agent[c] \in Handles
  BY <1>1, HandleNumbers DEF PoolInv, CallersPlaced, TypeOK
<1>3. \A h \in Handles : named'[h] = IF h = agent[c] /\ c \in Turns /\ justOpened[c]
                                     THEN named[h] + 1 ELSE named[h]
  BY <1>2 DEF Send, Names, PoolInv, TypeOK
<1>4. /\ \A h \in Handles : named[h] \in Nat
      /\ \A d \in Callers : pc'[d] = IF d = c THEN "running" ELSE pc[d]
  BY <1>1 DEF PoolInv, TypeOK
<1>5. named' \in [Handles -> Nat]
  <2>1. named[agent[c]] \in Nat /\ named[agent[c]] + 1 \in Nat /\ named \in [Handles -> Nat]
    BY <1>2, <1>4 DEF PoolInv, TypeOK
  <2>2. named' = [named EXCEPT ![agent[c]] = named[agent[c]] + 1]
        \/ named' = [named EXCEPT ![agent[c]] = named[agent[c]]]
    BY DEF Send
  <2> QED BY <2>1, <2>2
<1>6. TypeOK'
  BY <1>1, <1>5 DEF PoolInv, TypeOK
<1>7. CallersPlaced'
  BY <1>1, <1>4 DEF PoolInv, CallersPlaced
<1>8. justOpened[c] => named[agent[c]] = 0
  <2> SUFFICES ASSUME justOpened[c], named[agent[c]] # 0 PROVE FALSE
    OBVIOUS
  <2>1. PICK d \in Callers : justOpened[d] /\ agent[d] = agent[c] /\ pc[d] \in {"running", "done"}
    BY <1>2 DEF PoolInv, OpenersName
  <2> QED BY <1>1, <2>1 DEF PoolInv, OpenersName
<1>9. OpenersName'
  <2>1. \A h \in Handles : named'[h] <= 1
    BY <1>3, <1>4, <1>8 DEF PoolInv, OpenersName
  <2>2. \A h \in Handles : named'[h] # 0 =>
          \E d \in Callers : justOpened[d] /\ agent[d] = h /\ pc'[d] \in {"running", "done"}
    <3> SUFFICES ASSUME NEW h \in Handles, named'[h] # 0
                 PROVE  \E d \in Callers : justOpened[d] /\ agent[d] = h /\ pc'[d] \in {"running", "done"}
      OBVIOUS
    <3>1. CASE h = agent[c] /\ justOpened[c]
      BY <3>1, <1>4
    <3>2. CASE ~(h = agent[c] /\ justOpened[c])
      <4>1. named[h] # 0
        BY <3>2, <1>3
      <4> QED BY <4>1, <1>4 DEF PoolInv, OpenersName
    <3> QED BY <3>1, <3>2
  <2>3. \A d \in Callers : justOpened[d] => pc'[d] \notin {"idle", "queued"} /\ agent[d] # NoHandle
    BY <1>4 DEF PoolInv, OpenersName
  <2> QED BY <1>1, <2>1, <2>2, <2>3 DEF PoolInv, OpenersName
<1> QED BY <1>1, <1>6, <1>7, <1>9, SamePool DEF PoolInv

LEMMA EndTurnKeeps ==
  ASSUME PoolInv, NEW c \in Callers, EndTurn(c)
  PROVE  PoolInv'
<1>1. /\ pc' = [pc EXCEPT ![c] = "done"] /\ LeaveChain({c}) /\ pc[c] # "idle"
      /\ UNCHANGED <<handles, openings, status, home, context, after, agent, justOpened,
                     aborted, teardown, closes, arrived, named>>
  BY DEF EndTurn, history
<1>2. TypeOK'
  BY <1>1, LeaveChainType DEF PoolInv, TypeOK
<1>3. \A d \in Callers : pc'[d] = IF d = c THEN "done" ELSE pc[d]
  BY <1>1 DEF PoolInv, TypeOK
<1>4. CallersPlaced'
  BY <1>1, <1>3 DEF PoolInv, CallersPlaced
<1>5. OpenersName'
  BY <1>1, <1>3, SameOpeners
<1> QED BY <1>1, <1>2, <1>4, <1>5, SamePool DEF PoolInv

LEMMA AbortKeeps ==
  ASSUME PoolInv, NEW c \in Callers, Abort(c)
  PROVE  PoolInv'
<1>1. /\ aborted' = aborted \cup {c}
      /\ UNCHANGED <<handles, openings, tails, status, home, pc, context, after, agent, justOpened,
                     teardown, closes, arrived, named>>
  BY DEF Abort, pool, history
<1>2. TypeOK'
  BY <1>1 DEF PoolInv, TypeOK
<1>3. OpenersName'
  BY <1>1, SameOpeners
<1> QED BY <1>1, <1>2, <1>3, SamePool DEF PoolInv, CallersPlaced

LEMMA DisposeContextKeeps ==
  ASSUME PoolInv, NEW x \in Contexts, DisposeContext(x)
  PROVE  PoolInv'
<1>1. /\ closes < MaxCloses /\ closes' = closes + 1 /\ handles[x] # NoHandle
      /\ status' = [status EXCEPT ![handles[x]] = "disposed"]
      /\ handles' = [handles EXCEPT ![x] = NoHandle]
      /\ tails' = [tails EXCEPT ![x] = NoTurn]
      /\ UNCHANGED <<openings, home, pc, context, after, agent, justOpened, aborted,
                     teardown, arrived, named>>
  BY DEF DisposeContext, caller, history
<1>2. handles[x] \in Handles /\ closes \in Nat
  BY <1>1 DEF PoolInv, TypeOK
<1>3. closes' \in 0..MaxCloses
  BY <1>1, <1>2, PoolBoundsAssumption
<1>4. TypeOK'
  BY <1>1, <1>2, <1>3 DEF PoolInv, TypeOK
<1>5. /\ \A g \in Handles : status'[g] = IF g = handles[x] THEN "disposed" ELSE status[g]
      /\ \A y \in Contexts : handles'[y] = IF y = x THEN NoHandle ELSE handles[y]
  BY <1>1 DEF PoolInv, TypeOK
<1>6. CallersPlaced'
  BY <1>1 DEF PoolInv, CallersPlaced
<1>7. \A y \in Contexts : handles[y] \in Handles \cup {NoHandle}
                          /\ openings[y] \in Handles \cup {NoHandle}
  BY DEF PoolInv, TypeOK
<1>8. TablesHold'
  BY <1>1, <1>5, <1>7 DEF PoolInv, TablesHold
<1>9. TablesComplete'
  <2>1. \A g \in Handles : status[g] # "none" => home[g] \in Contexts
    BY DEF PoolInv, TablesHold
  <2> QED BY <1>1, <1>5, <2>1 DEF PoolInv, TablesComplete
<1>10. CapturedHeld'
  <2>1. /\ teardown.live \subseteq Handles /\ teardown.wasOpen \subseteq Handles
        /\ NoHandle \notin teardown.live
    BY HandleNumbers DEF PoolInv, TypeOK
  <2> QED BY <1>1, <1>5, <2>1 DEF PoolInv, CapturedHeld
<1>11. OpenersName'
  BY <1>1, <1>5, SameOpeners
<1> QED BY <1>4, <1>6, <1>8, <1>9, <1>10, <1>11 DEF PoolInv

LEMMA DisposeAllKeeps ==
  ASSUME PoolInv, DisposeAll
  PROVE  PoolInv' /\ teardown'.rounds # Rounds
<1>1. /\ teardown.phase = "idle" /\ teardown.rounds > 0
      /\ teardown'.rounds = teardown.rounds - 1 /\ teardown'.phase = "disposing"
      /\ teardown'.live = InTable(handles) /\ teardown'.settling = InTable(openings)
      /\ teardown'.wasOpen = IF teardown.rounds = Rounds THEN InTable(handles) ELSE teardown.wasOpen
      /\ UNCHANGED <<status, home, pc, context, after, agent, justOpened, aborted, closes,
                     arrived, named>>
  BY DEF DisposeAll, Captured, caller, history
<1>2. /\ handles' = [x \in Contexts |-> NoHandle]
      /\ openings' = [x \in Contexts |-> NoHandle]
      /\ tails' = [x \in Contexts |-> NoTurn]
  BY DEF DisposeAll
<1>3. teardown.rounds \in 0..Rounds /\ Rounds \in Nat
  BY PoolBoundsAssumption DEF PoolInv, TypeOK
<1>4. teardown'.rounds \in 0..Rounds /\ teardown'.rounds # Rounds
  BY <1>1, <1>3
<1>5. InTable(handles) \subseteq Handles /\ InTable(openings) \subseteq Handles
  BY DEF InTable, PoolInv, TypeOK
<1>6. TypeOK'
  <2>1. teardown' \in [rounds : 0..Rounds, phase : {"idle", "disposing"}, live : SUBSET Handles,
                       settling : SUBSET Handles, wasOpen : SUBSET Handles,
                       wasOpening : SUBSET Handles]
    <3>1. teardown.wasOpen \subseteq Handles /\ teardown.wasOpening \subseteq Handles
      BY DEF PoolInv, TypeOK
    <3> QED BY <1>3, <1>4, <1>5, <3>1 DEF DisposeAll, Captured
  <2> QED BY <1>1, <1>2, <2>1 DEF PoolInv, TypeOK
<1>7. CallersPlaced'
  BY <1>1 DEF PoolInv, CallersPlaced
<1>8. TablesHold' /\ TablesComplete'
  BY <1>1, <1>2, <1>4 DEF PoolInv, TablesHold, TablesComplete
<1>9. CapturedHeld'
  <2>1. \A h \in InTable(handles) : status[h] = "open" /\ h # NoHandle
    BY DEF InTable, PoolInv, TablesHold
  <2>2. \A h \in teardown.wasOpen : status[h] = "disposed"
    BY <1>1 DEF PoolInv, CapturedHeld
  <2> QED BY <1>1, <1>2, <2>1, <2>2 DEF CapturedHeld
<1>10. OpenersName'
  BY <1>1, SameOpeners
<1> QED BY <1>4, <1>6, <1>7, <1>8, <1>9, <1>10 DEF PoolInv

LEMMA DisposeCapturedKeeps ==
  ASSUME PoolInv, DisposeCaptured
  PROVE  PoolInv'
<1>1. /\ status' = [h \in Handles |-> IF h \in teardown.live THEN "disposed" ELSE status[h]]
      /\ teardown' = [teardown EXCEPT !.phase = "idle", !.live = {}, !.settling = {}]
      /\ UNCHANGED <<handles, openings, tails, home, pc, context, after, agent, justOpened, aborted,
                     closes, arrived, named>>
  BY DEF DisposeCaptured, caller, history
<1>2. /\ teardown'.phase = "idle" /\ teardown'.live = {}
      /\ teardown'.rounds = teardown.rounds /\ teardown'.wasOpen = teardown.wasOpen
  BY <1>1 DEF PoolInv, TypeOK
<1>3. TypeOK'
  BY <1>1 DEF PoolInv, TypeOK
<1>4. \A h \in teardown.live : status[h] \in {"open", "disposed"}
  BY DEF PoolInv, CapturedHeld
<1>5. \A h \in Handles : status'[h] = status[h] \/ (h \in teardown.live /\ status'[h] = "disposed")
  BY <1>1
<1>6. CallersPlaced'
  BY <1>1 DEF PoolInv, CallersPlaced
<1>7. \A y \in Contexts : /\ handles[y] \in Handles \cup {NoHandle}
                          /\ openings[y] \in Handles \cup {NoHandle}
                          /\ handles[y] \notin teardown.live
  BY DEF PoolInv, TypeOK, CapturedHeld
<1>8. TablesHold'
  BY <1>1, <1>4, <1>5, <1>7 DEF PoolInv, TablesHold
<1>9. TablesComplete'
  BY <1>1, <1>2, <1>5 DEF PoolInv, TablesComplete
<1>10. CapturedHeld'
  <2>1. teardown.wasOpen \subseteq Handles
    BY DEF PoolInv, TypeOK
  <2> QED BY <1>1, <1>2, <2>1 DEF PoolInv, CapturedHeld
<1>11. OpenersName'
  BY <1>1, <1>5, SameOpeners
<1> QED BY <1>3, <1>6, <1>8, <1>9, <1>10, <1>11 DEF PoolInv

LEMMA PoolStep ==
  ASSUME PoolInv, [Next]_vars
  PROVE  PoolInv'
<1>1. CASE UNCHANGED vars
  BY <1>1 DEF vars, pool, caller, history, PoolInv, TypeOK, CallersPlaced, TablesHold,
     TablesComplete, OpenersName, CapturedHeld
<1> QED BY <1>1, ArriveKeeps, UseLiveKeeps, JoinOpeningKeeps, OpenKeeps, OpenedKeeps,
        OpeningFailsKeeps, SendKeeps, EndTurnKeeps, AbortKeeps, DisposeContextKeeps,
        DisposeAllKeeps, DisposeCapturedKeeps DEF Next

\* In every reachable state the tables of the pool say of each session what the
\* host made of it, whatever was closed, failed or torn down meanwhile.
THEOREM PoolTables == Spec => []PoolInv
<1>1. Init => PoolInv
  <2> SUFFICES ASSUME Init PROVE PoolInv
    OBVIOUS
  <2>1. NoTeardown \in [rounds : 0..Rounds, phase : {"idle", "disposing"}, live : SUBSET Handles,
                        settling : SUBSET Handles, wasOpen : SUBSET Handles,
                        wasOpening : SUBSET Handles]
    BY PoolBoundsAssumption DEF NoTeardown
  <2>2. TypeOK
    BY <2>1, PoolBoundsAssumption DEF Init, TypeOK
  <2>3. TablesHold /\ TablesComplete /\ CallersPlaced
    BY DEF Init, TablesHold, TablesComplete, CallersPlaced
  <2>4. OpenersName
    BY DEF Init, OpenersName
  <2>5. CapturedHeld
    BY HandleNumbers DEF Init, CapturedHeld, NoTeardown
  <2> QED BY <2>2, <2>3, <2>4, <2>5 DEF PoolInv
<1>2. PoolInv /\ [Next]_vars => PoolInv'
  BY PoolStep
<1> QED BY <1>1, <1>2, PTL DEF Spec

\* For every value of the constants: variables keep their types.
THEOREM PoolTyped == Spec => []TypeOK
<1>1. PoolInv => TypeOK
  BY DEF PoolInv
<1> QED BY <1>1, PoolTables, PTL

\* For any number of callers: single flight.  A context has one session, named
\* once, and what the pool hands out is open and the context's own.
THEOREM SingleFlight == Spec => []OneOpenSession
<1>1. PoolInv => OneOpenSession
  <2> SUFFICES ASSUME PoolInv PROVE OneOpenSession
    OBVIOUS
  <2>1. ASSUME teardown.rounds = Rounds, NEW g \in Handles, NEW h \in Handles,
               {status[g], status[h]} \subseteq {"opening", "open"}, home[g] = home[h]
        PROVE  g = h
    <3>1. home[g] \in Contexts
      BY <2>1 DEF PoolInv, TablesHold
    <3>2. handles[home[g]] = NoHandle \/ openings[home[g]] = NoHandle
      BY <2>1, <3>1 DEF PoolInv, TablesComplete
    <3>3. /\ status[g] = "opening" => openings[home[g]] = g
          /\ status[g] = "open" => handles[home[g]] = g
          /\ status[h] = "opening" => openings[home[g]] = h
          /\ status[h] = "open" => handles[home[g]] = h
      BY <2>1 DEF PoolInv, TablesComplete
    <3> QED BY <2>1, <3>2, <3>3, HandleNumbers
  <2> QED BY <2>1 DEF OneOpenSession, PoolInv, OpenersName, TablesHold
<1> QED BY <1>1, PoolTables, PTL

\* For any number of executors that unload: what was open when the first began is
\* disposed when the last is done.
THEOREM UnloadDisposes == Spec => []TeardownComplete
<1>1. PoolInv => TeardownComplete
  BY DEF PoolInv, CapturedHeld, TeardownComplete, UnloadOver
<1> QED BY <1>1, PoolTables, PTL
-----------------------------------------------------------------------------
(* The order of turns *)

LEMMA ArrivedAreTurns ==
  ASSUME PoolInv, NEW x \in Contexts, NEW j \in DOMAIN arrived[x]
  PROVE  arrived[x][j] \in Turns /\ arrived[x][j] \in Callers
         /\ j \in Nat /\ \A i \in 1..(j - 1) : i \in DOMAIN arrived[x]
<1>1. arrived[x] \in Seq(Turns)
  BY DEF PoolInv, TypeOK
<1> QED BY <1>1 DEF Callers

\* A turn that leaves the queue does so when its predecessor is over; who is over
\* stays so; and a tail is dropped when its turn is over.
LEMMA MovingOnKeeps ==
  ASSUME PoolInv, NEW x \in Contexts, Chained(x), UNCHANGED <<after, arrived>>,
         \A c \in Turns : /\ pc[c] = "done" => pc'[c] = "done"
                          /\ pc'[c] = "idle" => pc[c] = "idle"
                          /\ pc'[c] = "queued" => pc[c] = "queued"
                          /\ pc[c] = "queued" => pc'[c] = "queued" \/ Ready(c),
         \/ tails'[x] = tails[x]
         \/ tails'[x] = NoTurn /\ pc[tails[x]] # "queued" /\ pc'[tails[x]] = "done"
  PROVE  Chained(x)'
<1>1. ASSUME NEW j \in DOMAIN arrived[x], EarlierDone(x, j)
      PROVE  \A i \in 1..(j - 1) : pc'[arrived[x][i]] = "done"
  BY <1>1, ArrivedAreTurns DEF EarlierDone
<1>2. ASSUME NEW j \in DOMAIN arrived[x],
             pc'[arrived[x][j]] # "queued" \/ after[arrived[x][j]] = NoTurn
      PROVE  EarlierDone(x, j)
  <2> DEFINE t == arrived[x][j]
  <2>1. CASE pc[t] # "queued" \/ after[t] = NoTurn
    BY <2>1 DEF Chained
  <2>2. CASE pc[t] = "queued" /\ after[t] # NoTurn
    <3>1. Ready(t) /\ after[t] = arrived[x][j - 1] /\ j > 1 /\ j \in Nat /\ j - 1 \in DOMAIN arrived[x]
      BY <1>2, <2>2, ArrivedAreTurns DEF Chained
    <3>2. pc[arrived[x][j - 1]] = "done"
      BY <3>1, ArrivedAreTurns DEF Ready
    <3>3. EarlierDone(x, j - 1)
      BY <3>1, <3>2 DEF Chained
    <3> QED BY <3>1, <3>2, <3>3 DEF EarlierDone
  <2> QED BY <2>1, <2>2
<1>3. ASSUME tails'[x] = NoTurn, NEW j \in DOMAIN arrived[x]
      PROVE  pc'[arrived[x][j]] = "done"
  <2>1. CASE tails[x] = NoTurn
    BY <2>1, ArrivedAreTurns DEF Chained
  <2>2. CASE tails[x] # NoTurn
    <3>1. /\ arrived[x] \in Seq(Turns) /\ arrived[x] # <<>>
          /\ tails[x] = arrived[x][Len(arrived[x])] /\ Len(arrived[x]) \in DOMAIN arrived[x]
      BY <2>2 DEF Chained, PoolInv, TypeOK
    <3>2. pc[tails[x]] # "queued" /\ pc'[tails[x]] = "done"
      BY <1>3, <2>2
    <3>3. EarlierDone(x, Len(arrived[x]))
      BY <3>1, <3>2 DEF Chained
    <3>4. j = Len(arrived[x]) \/ j \in 1..(Len(arrived[x]) - 1)
      BY <3>1
    <3> QED BY <3>1, <3>2, <3>3, <3>4, ArrivedAreTurns DEF EarlierDone
  <2> QED BY <2>1, <2>2
<1>4. ASSUME NEW j \in DOMAIN arrived[x] PROVE pc'[arrived[x][j]] # "idle"
  BY ArrivedAreTurns DEF Chained
<1>5. tails'[x] # NoTurn => arrived[x] # <<>> /\ tails'[x] = arrived[x][Len(arrived[x])]
  BY DEF Chained
<1>6. \A j \in DOMAIN arrived[x] : after[arrived[x][j]] # NoTurn =>
        j > 1 /\ after[arrived[x][j]] = arrived[x][j - 1]
  BY DEF Chained
<1> QED BY <1>1, <1>2, <1>3, <1>4, <1>5, <1>6 DEF Chained, EarlierDone

\* The turn that arrives is chained behind the last one, if that is not over.
LEMMA RunTurnChains ==
  ASSUME PoolInv, NEW t \in Callers, NEW y \in Contexts, RunTurn(t, y),
         NEW x \in Contexts, \A z \in Contexts : Chained(z)
  PROVE  Chained(x)'
<1>1. /\ t \in Turns /\ pc[t] = "idle" /\ pc' = [pc EXCEPT ![t] = "queued"]
      /\ after' = [after EXCEPT ![t] = tails[y]] /\ tails' = [tails EXCEPT ![y] = t]
      /\ arrived' = [arrived EXCEPT ![y] = Append(@, t)]
  BY DEF RunTurn, Chains, Chain
<1>2. arrived[x] \in Seq(Turns) /\ arrived[y] \in Seq(Turns)
  BY DEF PoolInv, TypeOK
<1>3. \A u \in Callers : u # t => pc'[u] = pc[u] /\ after'[u] = after[u]
  BY <1>1 DEF PoolInv, TypeOK
<1>4. pc'[t] = "queued" /\ after'[t] = tails[y]
  BY <1>1 DEF PoolInv, TypeOK
<1>5. \A j \in DOMAIN arrived[x] : /\ arrived[x][j] # t
                                   /\ pc'[arrived[x][j]] = pc[arrived[x][j]]
                                   /\ after'[arrived[x][j]] = after[arrived[x][j]]
  BY <1>1, <1>3, ArrivedAreTurns DEF Chained
<1>6. ASSUME NEW j \in DOMAIN arrived[x], EarlierDone(x, j)
      PROVE  \A i \in 1..(j - 1) : pc'[arrived[x][i]] = "done"
  BY <1>5, <1>6, ArrivedAreTurns DEF EarlierDone
<1>7. CASE x # y
  <2>1. arrived'[x] = arrived[x] /\ tails'[x] = tails[x]
    BY <1>1, <1>7 DEF PoolInv, TypeOK
  <2> QED BY <1>5, <1>6, <2>1 DEF Chained, EarlierDone
<1>8. CASE x = y
  <2>0. PICK n \in Nat : n = Len(arrived[x])
    BY <1>2
  <2>1. arrived'[x] = Append(arrived[x], t) /\ tails'[x] = t
    BY <1>1, <1>2, <1>8 DEF PoolInv, TypeOK
  <2>2. /\ DOMAIN arrived'[x] = 1..(n + 1) /\ DOMAIN arrived[x] = 1..n
        /\ arrived'[x][n + 1] = t /\ Len(arrived'[x]) = n + 1
        /\ \A i \in 1..n : arrived'[x][i] = arrived[x][i]
    BY <1>1, <1>2, <2>0, <2>1
  <2>3. t # NoTurn /\ arrived'[x] # <<>>
    BY <1>1, <1>2, <2>1, KindsAssumption
  <2>4. ASSUME NEW j \in 1..n
        PROVE  /\ pc'[arrived'[x][j]] # "idle"
               /\ pc'[arrived'[x][j]] # "queued" \/ after'[arrived'[x][j]] = NoTurn => EarlierDone(x, j)'
               /\ after'[arrived'[x][j]] # NoTurn => j > 1 /\ after'[arrived'[x][j]] = arrived'[x][j - 1]
    <3>1. /\ arrived'[x][j] = arrived[x][j] /\ j \in DOMAIN arrived[x]
          /\ \A i \in 1..(j - 1) : i \in 1..n /\ arrived'[x][i] = arrived[x][i]
      BY <2>1, <2>2
    <3>2. /\ pc[arrived[x][j]] # "idle"
          /\ pc[arrived[x][j]] # "queued" \/ after[arrived[x][j]] = NoTurn => EarlierDone(x, j)
          /\ after[arrived[x][j]] # NoTurn => j > 1 /\ after[arrived[x][j]] = arrived[x][j - 1]
      BY <3>1 DEF Chained
    <3>3. EarlierDone(x, j) => EarlierDone(x, j)'
      BY <1>6, <3>1 DEF EarlierDone
    <3>4. j > 1 => arrived'[x][j - 1] = arrived[x][j - 1]
      BY <2>1, <3>1
    <3> QED BY <1>5, <3>1, <3>2, <3>3, <3>4
  <2>5. tails[y] = NoTurn => EarlierDone(x, n + 1)'
    <3>1. ASSUME tails[y] = NoTurn, NEW i \in 1..n PROVE pc'[arrived'[x][i]] = "done"
      <4>1. i \in DOMAIN arrived[x] /\ arrived'[x][i] = arrived[x][i]
        BY <2>2
      <4>2. pc[arrived[x][i]] = "done"
        BY <1>8, <3>1, <4>1 DEF Chained
      <4> QED BY <1>5, <4>1, <4>2
    <3>2. (n + 1) - 1 = n
      BY <2>1
    <3> QED BY <3>1, <3>2 DEF EarlierDone
  <2>6. tails[y] # NoTurn => n + 1 > 1 /\ tails[y] = arrived'[x][n]
    <3>1. tails[y] # NoTurn => arrived[x] # <<>> /\ tails[y] = arrived[x][n]
      BY <1>8, <2>0 DEF Chained
    <3>2. arrived[x] # <<>> => n > 0
      BY <1>2, <2>0
    <3> QED BY <2>1, <2>2, <3>1, <3>2
  <2>7. \A j \in DOMAIN arrived'[x] : j \in 1..n \/ j = n + 1
    BY <2>1, <2>2
  <2>8. (n + 1) - 1 = n
    BY <2>1
  <2> QED BY <1>4, <2>1, <2>2, <2>3, <2>4, <2>5, <2>6, <2>7, <2>8 DEF Chained
<1> QED BY <1>7, <1>8

\* Steps that keep the order: what a caller or the host does to a chain.
LEMMA CallerStepsChain ==
  ASSUME PoolInv, NEW x \in Contexts, Chained(x),
         \/ \E c \in Callers, y \in Contexts : Delegate(c, y)
         \/ \E c \in Callers :
              UseLive(c) \/ JoinOpening(c) \/ Open(c) \/ Send(c) \/ EndTurn(c) \/ Abort(c)
         \/ \E h \in Handles : Opened(h) \/ OpeningFails(h)
         \/ DisposeCaptured
  PROVE  Chained(x)'
<1>. USE DEF pool, caller, history
<1>1. ASSUME NEW c \in Callers, NEW y \in Contexts, Delegate(c, y) PROVE Chained(x)'
  <2>1. c \notin Turns /\ pc' = [pc EXCEPT ![c] = "queued"] /\ UNCHANGED <<tails, after, arrived>>
    BY <1>1, KindsAssumption DEF Delegate
  <2>2. \A t \in Turns : pc'[t] = pc[t]
    BY <2>1 DEF PoolInv, TypeOK, Callers
  <2> QED BY <2>1, <2>2, MovingOnKeeps
<1>2. ASSUME NEW c \in Callers, UseLive(c) \/ JoinOpening(c) \/ Open(c) PROVE Chained(x)'
  <2>1. /\ Ready(c) /\ UNCHANGED <<tails, after, arrived>>
        /\ pc' = [pc EXCEPT ![c] = "admitting"] \/ pc' = [pc EXCEPT ![c] = "opening"]
    BY <1>2 DEF UseLive, JoinOpening, Open
  <2>2. /\ \A t \in Callers : t # c => pc'[t] = pc[t]
        /\ pc[c] = "queued" /\ pc'[c] \in {"admitting", "opening"}
    BY <2>1 DEF PoolInv, TypeOK, Ready
  <2> QED BY <2>1, <2>2, MovingOnKeeps DEF Callers
<1>3. ASSUME NEW c \in Callers, Send(c) \/ Abort(c) PROVE Chained(x)'
  <2>1. /\ UNCHANGED <<tails, after, arrived>>
        /\ \A t \in Callers : pc'[t] = pc[t] \/ (pc[t] = "admitting" /\ pc'[t] = "running")
    BY <1>3 DEF Send, Abort, PoolInv, TypeOK
  <2> QED BY <2>1, MovingOnKeeps DEF Callers
<1>4. ASSUME NEW c \in Callers, EndTurn(c) PROVE Chained(x)'
  <2>1. /\ UNCHANGED <<after, arrived>> /\ pc[c] \in {"admitting", "running"}
        /\ \A t \in Callers : pc'[t] = IF t = c THEN "done" ELSE pc[t]
        /\ tails'[x] = IF tails[x] = c THEN NoTurn ELSE tails[x]
    BY <1>4 DEF EndTurn, LeaveChain, PoolInv, TypeOK
  <2> QED BY <2>1, MovingOnKeeps DEF Callers
<1>5. ASSUME NEW h \in Handles, Opened(h) PROVE Chained(x)'
  <2>1. /\ UNCHANGED <<tails, after, arrived>>
        /\ \A t \in Callers : pc'[t] = pc[t] \/ (pc[t] = "opening" /\ pc'[t] = "admitting")
    BY <1>5 DEF Opened, AwaitersOf
  <2> QED BY <2>1, MovingOnKeeps DEF Callers
<1>6. ASSUME NEW h \in Handles, OpeningFails(h) PROVE Chained(x)'
  <2>1. /\ UNCHANGED <<after, arrived>>
        /\ \A t \in Callers : pc'[t] = pc[t] \/ (pc[t] = "opening" /\ pc'[t] = "done")
        /\ \A t \in AwaitersOf(h) : t \in Callers /\ pc[t] = "opening" /\ pc'[t] = "done"
        /\ tails'[x] = IF tails[x] \in AwaitersOf(h) THEN NoTurn ELSE tails[x]
    BY <1>6 DEF OpeningFails, AwaitersOf, LeaveChain
  <2> QED BY <2>1, MovingOnKeeps DEF Callers
<1>7. ASSUME DisposeCaptured PROVE Chained(x)'
  BY <1>7, MovingOnKeeps DEF DisposeCaptured
<1> QED BY <1>1, <1>2, <1>3, <1>4, <1>5, <1>6, <1>7

LEMMA ChainStep ==
  ASSUME PoolInv, ChainHolds, [Next]_vars
  PROVE  ChainHolds'
<1>1. SUFFICES ASSUME Unbroken', NEW x \in Contexts PROVE Chained(x)'
  BY DEF ChainHolds
<1>2. CASE UNCHANGED vars
  BY <1>1, <1>2 DEF vars, pool, caller, history, ChainHolds, Unbroken, Chained, EarlierDone
<1>3. ASSUME NEW y \in Contexts, DisposeContext(y) PROVE FALSE
  <2>1. closes \in Nat /\ closes' = closes + 1
    BY <1>3 DEF DisposeContext, PoolInv, TypeOK
  <2> QED BY <1>1, <2>1 DEF Unbroken
<1>4. ~DisposeAll
  BY <1>1, DisposeAllKeeps DEF Unbroken
<1>5. CASE Next
  <2>1. closes' = closes /\ teardown'.rounds = teardown.rounds
    BY <1>3, <1>4, <1>5 DEF Next, RunTurn, Delegate, UseLive, JoinOpening, Open, Send, EndTurn,
       Abort, Opened, OpeningFails, DisposeCaptured, pool, caller, history, PoolInv, TypeOK
  <2>2. \A y \in Contexts : Chained(y)
    BY <1>1, <2>1 DEF ChainHolds, Unbroken
  <2> QED BY <1>3, <1>4, <1>5, <2>2, RunTurnChains, CallerStepsChain DEF Next
<1> QED BY <1>2, <1>5

\* For any number of callers: until a close or an unload breaks the chains, the
\* turns of a context run one after the other, in the order they arrived.
THEOREM TurnsKeepOrder == Spec => []TurnsInOrder
<1>1. Init => ChainHolds
  BY DEF Init, ChainHolds, Chained
<1>2. PoolInv /\ ChainHolds /\ [Next]_vars => ChainHolds'
  BY ChainStep
<1>3. PoolInv /\ ChainHolds => TurnsInOrder
  <2> SUFFICES ASSUME PoolInv, ChainHolds, Unbroken, NEW x \in Contexts, NEW j \in DOMAIN arrived[x],
                      pc[arrived[x][j]] \notin {"idle", "queued"}
               PROVE  \A i \in 1..(j - 1) : pc[arrived[x][i]] = "done"
    BY DEF TurnsInOrder
  <2> QED BY DEF ChainHolds, Chained, EarlierDone
<1> QED BY <1>1, <1>2, <1>3, PoolTables, PTL DEF Spec
=============================================================================
