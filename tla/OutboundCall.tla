----------------------------- MODULE OutboundCall -----------------------------
(***************************************************************************)
(* One call of an outbound tool (src/outbound/calls.ts, tools.ts): the     *)
(* message is sent and its task polled, or its events are streamed, until  *)
(* the task settles; with retries, a timeout per request, a deadline for   *)
(* polling, and the caller's abort passed on as a CancelTask.              *)
(*                                                                         *)
(* The remote agent is one that knows message ids, as this plugin's own    *)
(* server does: however many copies of the message reach it there is one   *)
(* task.  Requests may be lost, late, or answered when nobody listens any  *)
(* more.  AUTH_REQUIRED is treated like INPUT_REQUIRED and left out.       *)
(***************************************************************************)
EXTENDS A2AProtocol, Naturals

CONSTANTS
  Modes,   \* does the remote's card advertise streaming? {"poll"}, {"stream"} or both
  Retries  \* the client's `retries` option

ASSUME CallAssumption == Modes \subseteq {"poll", "stream"} /\ Retries \in Nat

VARIABLES
  mode,
  pc,        \* where the call is
  attempt,   \* retries of the current request
  seen,      \* the call's own copy of the task; ABSENT when it has none
  aborted,   \* the caller's signal
  expired,   \* has the deadline for polling passed?
  outcome,   \* what the call came to: a task's state, or why it threw
  posted,    \* is a copy of the message on its way to the remote?
  canceling, \* has a CancelTask been sent?
  state,     \* the remote task
  told       \* history: the state the remote reported last

client == <<mode, pc, attempt, seen, aborted, expired, outcome, told>>
vars == <<client, posted, canceling, state>>

InFlight == {"sending", "getting", "streaming"}

TypeOK ==
  /\ mode \in Modes
  /\ pc \in InFlight \cup {"polling", "pausing", "done"}
  /\ attempt \in 0..Retries
  /\ {seen, told, state} \subseteq TaskState \cup {ABSENT}
  /\ {aborted, expired, posted, canceling} \subseteq BOOLEAN
  /\ outcome \in TaskState \cup {"none", "aborted", "timedOut", "failed"}
  /\ pc = "done" <=> outcome # "none"

\* The request the call is at.
Request(m, known) ==
  IF m = "stream" THEN "streaming" ELSE IF known = ABSENT THEN "sending" ELSE "getting"

Init ==
  /\ mode \in Modes
  /\ pc = Request(mode, ABSENT)
  /\ attempt = 0
  /\ seen = ABSENT
  /\ aborted = FALSE
  /\ expired = FALSE
  /\ outcome = "none"
  /\ posted = TRUE
  /\ canceling = FALSE
  /\ state = ABSENT
  /\ told = ABSENT

-----------------------------------------------------------------------------
(* The remote agent *)

\* A copy of the message arrives: the first creates the task.
RemoteTakes ==
  /\ posted
  /\ posted' = FALSE
  /\ state' = IF state = ABSENT THEN "WORKING" ELSE state
  /\ UNCHANGED <<client, canceling>>

RemoteMoves ==
  /\ state = "WORKING"
  /\ state' \in {"INPUT_REQUIRED", "COMPLETED", "FAILED"}
  /\ UNCHANGED <<client, posted, canceling>>

RemoteCancels ==
  /\ canceling
  /\ state # ABSENT /\ ~IsTerminal(state)
  /\ state' = "CANCELED"
  /\ UNCHANGED <<client, posted, canceling>>

\* What an answer or a frame says, which may be older than the task is.
Said == IF state = ABSENT \/ posted THEN {} ELSE {"WORKING", state}

-----------------------------------------------------------------------------
(* The end of a call *)

End(how) == pc' = "done" /\ outcome' = how
Cancel == canceling' = (canceling \/ seen # ABSENT)

\* Slip: an abort is passed on only while a request is in flight.
CancelInFlight == canceling' = (canceling \/ (seen # ABSENT /\ pc \in InFlight))

\* An aborted call cancels the task it knows.
CancelOnAbort == Cancel

\* Slip: whatever the remote answers is the result.
IsResultAtOnce(s) == TRUE

IsResult(s) == IsTerminal(s)

-----------------------------------------------------------------------------
(* Answers and frames *)

Learn(s) == seen' = s /\ told' = s

\* The answer to SendMessage.
Answered ==
  /\ pc = "sending"
  /\ \E s \in Said :
        /\ Learn(s)
        /\ \/ IsResult(s) /\ End(s)
           \/ ~IsResult(s) /\ pc' = "polling" /\ UNCHANGED outcome
  /\ UNCHANGED <<mode, attempt, aborted, expired, posted, canceling, state>>

\* Slip: the deadline is not looked at.
OverdueNever == FALSE

Overdue == expired

\* The answer to GetTask.
Polled ==
  /\ pc = "getting"
  /\ \E s \in Said :
        /\ Learn(s)
        /\ \/ IsResult(s) /\ End(s) /\ UNCHANGED canceling
           \/ ~IsResult(s) /\ Overdue /\ End("timedOut") /\ canceling' = TRUE
           \/ /\ ~IsResult(s)
              /\ ~Overdue
              /\ pc' = "polling"
              /\ UNCHANGED <<outcome, canceling>>
  /\ UNCHANGED <<mode, attempt, aborted, expired, posted, state>>

PollAgain ==
  /\ pc = "polling"
  /\ ~aborted
  /\ pc' = "getting"
  /\ attempt' = 0
  /\ UNCHANGED <<mode, seen, aborted, expired, outcome, told, posted, canceling, state>>

Deadline ==
  /\ ~expired
  /\ mode = "poll"
  /\ seen # ABSENT
  /\ pc # "done"
  /\ expired' = TRUE
  /\ UNCHANGED <<mode, pc, attempt, seen, aborted, outcome, told, posted, canceling, state>>

\* A frame of the stream is folded into the task (EventStream has the frames).
ReadFrame ==
  /\ pc = "streaming"
  /\ \E s \in Said :
        /\ Learn(s)
        /\ \/ IsResult(s) /\ End(s)
           \/ ~IsResult(s) /\ UNCHANGED <<pc, outcome>>
  /\ UNCHANGED <<mode, attempt, aborted, expired, posted, canceling, state>>

-----------------------------------------------------------------------------
(* Failures, timeouts and retries *)

\* The request is repeated after a pause; a stream begins without a task.
Retry ==
  /\ attempt < Retries
  /\ attempt' = attempt + 1
  /\ pc' = "pausing"
  /\ seen' = IF mode = "stream" THEN ABSENT ELSE seen
  /\ UNCHANGED outcome

GiveUp(how) == End(how) /\ UNCHANGED <<attempt, seen>>

\* The connection breaks, or the stream ends before the task is settled: that
\* is retried, and so are 5xx and internal errors.  Others are not.
Fails ==
  /\ pc \in InFlight
  /\ aborted => pc = "sending"
  /\ Retry \/ GiveUp("failed")
  /\ UNCHANGED <<mode, aborted, expired, told, posted, canceling, state>>

\* A stream that times out cancels the task it knows, and is retried.
TimesOut ==
  /\ pc \in InFlight
  /\ ~aborted
  /\ IF pc = "streaming" THEN Cancel ELSE UNCHANGED canceling
  /\ Retry \/ (attempt = Retries /\ GiveUp("timedOut"))
  /\ UNCHANGED <<mode, aborted, expired, told, posted, state>>

Resume ==
  /\ pc = "pausing"
  /\ ~aborted
  /\ pc' = Request(mode, seen)
  /\ posted' = (posted \/ pc' # "getting")
  /\ UNCHANGED <<mode, attempt, seen, aborted, expired, outcome, told, canceling, state>>

-----------------------------------------------------------------------------
(* The caller's abort *)

Abort ==
  /\ pc # "done"
  /\ ~aborted
  /\ aborted' = TRUE
  /\ UNCHANGED <<mode, pc, attempt, seen, expired, outcome, told, posted, canceling, state>>

\* The request in flight rejects, or the next one does at once.
NoticeAbort ==
  /\ aborted
  /\ pc # "done"
  /\ CancelOnAbort
  /\ End("aborted")
  /\ UNCHANGED <<mode, attempt, seen, aborted, expired, told, posted, state>>

Next ==
  \/ RemoteTakes \/ RemoteMoves \/ RemoteCancels
  \/ Answered \/ Polled \/ PollAgain \/ Deadline \/ ReadFrame
  \/ Fails \/ TimesOut \/ Resume
  \/ Abort \/ NoticeAbort

Spec == Init /\ [][Next]_vars

\* Timers fire: a request is answered, fails or times out, and a stream is over
\* when its timeout has passed, whatever it has delivered.  Nothing is assumed
\* of the remote agent.
Fairness ==
  /\ WF_vars(Answered \/ Polled \/ Fails \/ TimesOut \/ NoticeAbort)
  /\ WF_vars(PollAgain \/ Resume \/ NoticeAbort)
  /\ WF_vars(Deadline)

FairSpec == Spec /\ Fairness
-----------------------------------------------------------------------------
(* Properties *)

\* A call returns no task that still moves: what it hands to the model is the
\* remote task's last word, though answers are late and requests repeated.
ResultIsFinal ==
  outcome \in TaskState =>
    /\ IsSettled(outcome)
    /\ IsTerminal(outcome) => state = outcome

\* docs/reference/http-api.md, section 3: the tool "propagates the caller's abort
\* (sending `CancelTask` once the task id is known)".  A polling call does, in a
\* request, between two requests and between two attempts at one.  (A stream
\* that is aborted between two attempts does not: it has forgotten the id.)
PollAbortPropagates ==
  mode = "poll" /\ outcome = "aborted" /\ told # ABSENT => canceling

\* Every call comes to an end, whatever the remote agent does.
CallEnds == <>(pc = "done")
=============================================================================
