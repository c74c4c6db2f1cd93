----------------------------- MODULE SessionPool -----------------------------
(***************************************************************************)
(* ContextSessionPool (src/server/exec/agent-runtime.ts): one live agent   *)
(* session per A2A context, opened by single flight, with the turns of a   *)
(* context chained one behind the other.  The session executor runs turns; *)
(* the subagent executor only asks for the context's agent and delegates.  *)
(*                                                                         *)
(* The agent runtime is the host's: create and resume settle some day or   *)
(* never, an agent becomes idle when it likes.  Its sessions are numbered  *)
(* in the order the pool asks for them.                                    *)
(***************************************************************************)
EXTENDS Naturals, Sequences, FiniteSets

CONSTANTS
  Contexts,
  NoContext,
  NoTurn,
  Turns,        \* calls of runTurn (session executor)
  Delegations,  \* calls of agentFor alone (subagent executor)
  Abortable,    \* those whose task may be canceled
  MaxHandles,   \* bound: sessions asked of the host
  MaxCloses,    \* bound: disposeContext calls
  Rounds        \* executors that share the pool and dispose it on unload; 0: no unload

ASSUME KindsAssumption ==
  /\ Turns \cap Delegations = {}
  /\ NoTurn \notin Turns \cup Delegations
  /\ Abortable \subseteq Turns \cup Delegations
  /\ NoContext \notin Contexts
ASSUME PoolBoundsAssumption == MaxHandles \in Nat /\ MaxCloses \in Nat /\ Rounds \in Nat

Callers == Turns \cup Delegations
Handles == 1..MaxHandles
NoHandle == 0

VARIABLES
  handles,     \* handles[x]: the live session of context x
  openings,    \* openings[x]: the session being opened for x
  tails,       \* tails[x]: the turn whose end the next turn of x waits for
  status,      \* status[h]: what became of session h
  home,        \* home[h]: the context h was opened for
  pc,          \* pc[c]: where caller c is
  context,     \* context[c]: its context
  after,       \* after[c]: the turn c is chained behind
  agent,       \* agent[c]: the session c waits for or works with
  justOpened,  \* justOpened[c]: did c open it?
  aborted,     \* callers whose signal is aborted
  teardown,    \* disposeAll: rounds left, the sessions of the current round, and
               \* (history) those that were open or opening when the first began
  closes,
  arrived,     \* history: turns of each context in order of arrival
  named        \* history: onSessionOpened calls per session

pool == <<handles, openings, tails, status, home>>
caller == <<pc, context, after, agent, justOpened, aborted>>
history == <<arrived, named>>
vars == <<pool, caller, teardown, closes, history>>

NoTeardown == [rounds |-> Rounds, phase |-> "idle", live |-> {}, settling |-> {},
               wasOpen |-> {}, wasOpening |-> {}]

TypeOK ==
  /\ handles \in [Contexts -> Handles \cup {NoHandle}]
  /\ openings \in [Contexts -> Handles \cup {NoHandle}]
  /\ tails \in [Contexts -> Turns \cup {NoTurn}]
  /\ status \in [Handles -> {"none", "opening", "open", "failed", "disposed"}]
  /\ home \in [Handles -> Contexts \cup {NoContext}]
  /\ pc \in [Callers -> {"idle", "queued", "opening", "admitting", "running", "done"}]
  /\ context \in [Callers -> Contexts \cup {NoContext}]
  /\ after \in [Callers -> Turns \cup {NoTurn}]
  /\ agent \in [Callers -> Handles \cup {NoHandle}]
  /\ justOpened \in [Callers -> BOOLEAN]
  /\ aborted \subseteq Callers
  /\ teardown \in [rounds : 0..Rounds, phase : {"idle", "disposing"}, live : SUBSET Handles,
                   settling : SUBSET Handles, wasOpen : SUBSET Handles,
                   wasOpening : SUBSET Handles]
  /\ closes \in 0..MaxCloses
  /\ arrived \in [Contexts -> Seq(Turns)]
  /\ named \in [Handles -> Nat]

Init ==
  /\ handles = [x \in Contexts |-> NoHandle]
  /\ openings = [x \in Contexts |-> NoHandle]
  /\ tails = [x \in Contexts |-> NoTurn]
  /\ status = [h \in Handles |-> "none"]
  /\ home = [h \in Handles |-> NoContext]
  /\ pc = [c \in Callers |-> "idle"]
  /\ context = [c \in Callers |-> NoContext]
  /\ after = [c \in Callers |-> NoTurn]
  /\ agent = [c \in Callers |-> NoHandle]
  /\ justOpened = [c \in Callers |-> FALSE]
  /\ aborted = {}
  /\ teardown = NoTeardown
  /\ closes = 0
  /\ arrived = [x \in Contexts |-> <<>>]
  /\ named = [h \in Handles |-> 0]

-----------------------------------------------------------------------------
(* A caller arrives *)

\* Slip: the turn waits for the tail but does not become it.
ChainWithoutTail(t, x) ==
  /\ after' = [after EXCEPT ![t] = tails[x]]
  /\ UNCHANGED tails

\* Slip: the tail is read after it was replaced.
ChainOnItself(t, x) ==
  /\ after' = [after EXCEPT ![t] = t]
  /\ tails' = [tails EXCEPT ![x] = t]

\* The turn waits for the context's tail and becomes the tail.
Chain(t, x) ==
  /\ after' = [after EXCEPT ![t] = tails[x]]
  /\ tails' = [tails EXCEPT ![x] = t]

Chains(c) == c \in Turns

RunTurn(t, x) ==
  /\ Chains(t)
  /\ pc[t] = "idle"
  /\ Chain(t, x)
  /\ pc' = [pc EXCEPT ![t] = "queued"]
  /\ context' = [context EXCEPT ![t] = x]
  /\ arrived' = [arrived EXCEPT ![x] = Append(@, t)]
  /\ UNCHANGED <<handles, openings, status, home, agent, justOpened, aborted,
                 teardown, closes, named>>

\* The subagent executor joins no chain.
Delegate(d, x) ==
  /\ d \in Delegations
  /\ pc[d] = "idle"
  /\ pc' = [pc EXCEPT ![d] = "queued"]
  /\ context' = [context EXCEPT ![d] = x]
  /\ UNCHANGED <<pool, after, agent, justOpened, aborted, teardown, closes, history>>

-----------------------------------------------------------------------------
(* agentFor: the live session, the one being opened, or a new one *)

\* Its predecessor in the chain is over, well or badly.
Ready(c) ==
  /\ pc[c] = "queued"
  /\ \A t \in Turns : after[c] = t => pc[t] = "done"

UseLive(c) ==
  LET x == context[c]
  IN /\ Ready(c)
     /\ handles[x] # NoHandle
     /\ agent' = [agent EXCEPT ![c] = handles[x]]
     /\ pc' = [pc EXCEPT ![c] = "admitting"]
     /\ UNCHANGED <<pool, context, after, justOpened, aborted, teardown, closes, history>>

JoinOpening(c) ==
  LET x == context[c]
  IN /\ Ready(c)
     /\ handles[x] = NoHandle
     /\ openings[x] # NoHandle
     /\ agent' = [agent EXCEPT ![c] = openings[x]]
     /\ pc' = [pc EXCEPT ![c] = "opening"]
     /\ UNCHANGED <<pool, context, after, justOpened, aborted, teardown, closes, history>>

\* Slip: the opening is not published, so a second caller opens again.
NeedsOpeningAlways(x) == handles[x] = NoHandle

NeedsOpening(x) == handles[x] = NoHandle /\ openings[x] = NoHandle

Open(c) ==
  LET x == context[c]
  IN /\ Ready(c)
     /\ NeedsOpening(x)
     /\ \E h \in Handles :
           /\ status[h] = "none"
           /\ \A g \in Handles : g < h => status[g] # "none"
           /\ status' = [status EXCEPT ![h] = "opening"]
           /\ home' = [home EXCEPT ![h] = x]
           /\ openings' = [openings EXCEPT ![x] = h]
           /\ agent' = [agent EXCEPT ![c] = h]
     /\ justOpened' = [justOpened EXCEPT ![c] = TRUE]
     /\ pc' = [pc EXCEPT ![c] = "opening"]
     /\ UNCHANGED <<handles, tails, context, after, aborted, teardown, closes, history>>

\* The opening's promise leaves the table if it is still the one there.
ForgetOpening(h) ==
  openings' = [openings EXCEPT ![home[h]] = IF @ = h THEN NoHandle ELSE @]

AwaitersOf(h) == {c \in Callers : pc[c] = "opening" /\ agent[c] = h}

\* A turn that is over leaves the chain if it is still its tail.
LeaveChain(S) ==
  tails' = [x \in Contexts |-> IF tails[x] \in S THEN NoTurn ELSE tails[x]]

Opened(h) ==
  /\ status[h] = "opening"
  /\ status' = [status EXCEPT ![h] = "open"]
  /\ handles' = [handles EXCEPT ![home[h]] = h]
  /\ ForgetOpening(h)
  /\ pc' = [c \in Callers |-> IF c \in AwaitersOf(h) THEN "admitting" ELSE pc[c]]
  /\ UNCHANGED <<tails, home, context, after, agent, justOpened, aborted,
                 teardown, closes, history>>

OpeningFails(h) ==
  /\ status[h] = "opening"
  /\ status' = [status EXCEPT ![h] = "failed"]
  /\ ForgetOpening(h)
  /\ pc' = [c \in Callers |-> IF c \in AwaitersOf(h) THEN "done" ELSE pc[c]]
  /\ LeaveChain(AwaitersOf(h))
  /\ UNCHANGED <<handles, home, context, after, agent, justOpened, aborted,
                 teardown, closes, history>>

-----------------------------------------------------------------------------
(* The turn itself *)

Names(c) == justOpened[c]

\* An aborted signal makes the agent cancel what it is doing; the prompt is
\* sent all the same.
Send(c) ==
  /\ pc[c] = "admitting"
  /\ pc' = [pc EXCEPT ![c] = "running"]
  /\ named' = [named EXCEPT ![agent[c]] = IF c \in Turns /\ Names(c) THEN @ + 1 ELSE @]
  /\ UNCHANGED <<pool, context, after, agent, justOpened, aborted, teardown, closes, arrived>>

\* The content is not admitted, the session refuses the message, or the agent
\* goes idle and the turn is over.
EndTurn(c) ==
  /\ pc[c] \in {"admitting", "running"}
  /\ pc' = [pc EXCEPT ![c] = "done"]
  /\ LeaveChain({c})
  /\ UNCHANGED <<handles, openings, status, home, context, after, agent, justOpened,
                 aborted, teardown, closes, history>>

Abort(c) ==
  /\ pc[c] \notin {"idle", "done"}
  /\ c \in Abortable \ aborted
  /\ aborted' = aborted \cup {c}
  /\ UNCHANGED <<pool, pc, context, after, agent, justOpened, teardown, closes, history>>

-----------------------------------------------------------------------------
(* Closing *)

DisposeContext(x) ==
  /\ closes < MaxCloses
  /\ handles[x] # NoHandle
  /\ closes' = closes + 1
  /\ status' = [status EXCEPT ![handles[x]] = "disposed"]
  /\ handles' = [handles EXCEPT ![x] = NoHandle]
  /\ tails' = [tails EXCEPT ![x] = NoTurn]
  /\ UNCHANGED <<openings, home, caller, teardown, history>>

InTable(table) == {table[x] : x \in Contexts} \ {NoHandle}

\* Slip: the sessions are looked up only after the tables were emptied.
CapturedTooLate == {}

Captured == InTable(handles)

DisposeAll ==
  /\ teardown.phase = "idle"
  /\ teardown.rounds > 0
  /\ teardown' = [rounds |-> teardown.rounds - 1,
                  phase |-> "disposing",
                  live |-> Captured,
                  settling |-> InTable(openings),
                  wasOpen |-> IF teardown.rounds = Rounds
                                THEN InTable(handles) ELSE teardown.wasOpen,
                  wasOpening |-> IF teardown.rounds = Rounds
                                   THEN InTable(openings) ELSE teardown.wasOpening]
  /\ handles' = [x \in Contexts |-> NoHandle]
  /\ openings' = [x \in Contexts |-> NoHandle]
  /\ tails' = [x \in Contexts |-> NoTurn]
  /\ UNCHANGED <<status, home, caller, closes, history>>

\* Every opening under way has settled; now the captured sessions go.
DisposeCaptured ==
  /\ teardown.phase = "disposing"
  /\ \A h \in teardown.settling : status[h] # "opening"
  /\ status' = [h \in Handles |-> IF h \in teardown.live THEN "disposed" ELSE status[h]]
  /\ teardown' = [teardown EXCEPT !.phase = "idle", !.live = {}, !.settling = {}]
  /\ UNCHANGED <<handles, openings, tails, home, caller, closes, history>>

Next ==
  \/ \E c \in Callers, x \in Contexts : RunTurn(c, x) \/ Delegate(c, x)
  \/ \E c \in Callers :
        UseLive(c) \/ JoinOpening(c) \/ Open(c) \/ Send(c) \/ EndTurn(c) \/ Abort(c)
  \/ \E h \in Handles : Opened(h) \/ OpeningFails(h)
  \/ \E x \in Contexts : DisposeContext(x)
  \/ DisposeAll \/ DisposeCaptured

Spec == Init /\ [][Next]_vars

\* Promise continuations run.  Of the host it is assumed that an opening
\* settles and that an agent goes idle in the end: with a host that hangs, a
\* context's chain hangs with it.
Fairness ==
  /\ \A c \in Callers : WF_vars(UseLive(c) \/ JoinOpening(c) \/ Open(c)) /\ WF_vars(EndTurn(c))
  /\ \A h \in Handles : WF_vars(Opened(h) \/ OpeningFails(h))

FairSpec == Spec /\ Fairness
-----------------------------------------------------------------------------
(* Properties *)

\* The turns of a context use its agent one after the other, in the order they
\* arrived: a turn gets past the queue only when all earlier ones are over,
\* failed and aborted ones included (runTurn's chain of tails).  A close or an
\* unload breaks the chain.
Unbroken == closes = 0 /\ teardown.rounds = Rounds
TurnsInOrder ==
  Unbroken =>
    \A x \in Contexts : \A j \in DOMAIN arrived[x] : \A i \in 1..(j - 1) :
       pc[arrived[x][j]] \notin {"idle", "queued"} => pc[arrived[x][i]] = "done"

\* Callers that need a context's session at once share one: until the pool is
\* torn down, a context never has two sessions open or opening; it is named and
\* bound to the context at most once (onSessionOpened), whoever opened it; and
\* the session the pool would hand out is open and its context's own, whatever
\* was closed meanwhile.
OneOpenSession ==
  /\ teardown.rounds = Rounds =>
       \A g, h \in Handles :
          /\ {status[g], status[h]} \subseteq {"opening", "open"}
          /\ home[g] = home[h]
          => g = h
  /\ \A h \in Handles : named[h] <= 1
  /\ \A x \in Contexts : handles[x] # NoHandle =>
        status[handles[x]] = "open" /\ home[handles[x]] = x

UnloadOver == teardown.rounds = 0 /\ teardown.phase = "idle"

\* What was open when the unload began is disposed when it is over, though
\* sessions are closed and opened while it waits for the openings.
TeardownComplete ==
  UnloadOver => \A h \in teardown.wasOpen : status[h] = "disposed"

\* Every caller is served in the end, behind failed and aborted turns too.
CallersEnd == \A c \in Callers : pc[c] = "queued" ~> pc[c] = "done"
=============================================================================
