------------------------------- MODULE Dashboard -------------------------------
(***************************************************************************)
(* The two server forms of the dashboard (src/client/index.ts) against the *)
(* control API (src/api.ts) and the facade (src/index.ts).                 *)
(*                                                                         *)
(* Submitting a form is a chain of calls: save the record, read a snapshot *)
(* to find a created record's id, set its token.  A submission works on    *)
(* what the form held when it was clicked, while the user goes on, other   *)
(* pages submit, and any of its requests may fail.                         *)
(*                                                                         *)
(* A server is its id and its token.  What else a record holds is saved    *)
(* with it by one call and left out.                                       *)
(***************************************************************************)
EXTENDS Naturals, Sequences

CONSTANTS
  Pages,       \* open pages of the dashboard
  Tokens,      \* tokens a user may type
  Created,     \* the servers of each side when the pages are opened, numbered from 1
  MaxIds,      \* bound: servers ever created
  MaxJobs      \* bound: submissions and removals

Sides == {"inbound", "outbound"}
None == "none"
Keep == "keep"  \* no token was asked for

VARIABLES
  servers,  \* servers[side]: the records in the order the managers list them, oldest first
  lastId,   \* the last id given
  shown,    \* shown[p]: the snapshot page p shows
  form,     \* form[p][side]: the fields of its two forms
  busy,     \* busy[p]: its buttons are disabled
  jobs      \* what its handlers have begun, each with the fields it captured

vars == <<servers, lastId, shown, form, busy, jobs>>

Empty == [editing |-> 0, token |-> None, clear |-> FALSE]
Ids(list) == {list[i].id : i \in DOMAIN list}

Init ==
  /\ servers = Created
  /\ lastId = Len(Created.inbound) + Len(Created.outbound)
  /\ shown = [p \in Pages |-> Created]
  /\ form = [p \in Pages |-> [side \in Sides |-> Empty]]
  /\ busy = [p \in Pages |-> FALSE]
  /\ jobs = <<>>

-----------------------------------------------------------------------------
(* The user.                                                                 *)

\* asked is history: what the user wants of the token of the server that is saved.
Job(p, side, st, fields, asked) ==
  [page |-> p, side |-> side, st |-> st, editing |-> fields.editing, token |-> fields.token,
   clear |-> fields.clear, server |-> 0, target |-> 0, set |-> Keep, asked |-> asked]

\* control() disables the buttons first.
Begin(job) ==
  /\ Len(jobs) < MaxJobs
  /\ ~busy[job.page]
  /\ busy' = [busy EXCEPT ![job.page] = TRUE]
  /\ jobs' = Append(jobs, job)
  /\ UNCHANGED <<servers, lastId, shown>>

Asked(fields) == IF fields.token = None THEN Keep ELSE fields.token

Submit(p, side) ==
  /\ Begin(Job(p, side, "saving", form[p][side], Asked(form[p][side])))
  /\ UNCHANGED form

\* The handler sets the flag and submits, but the submission reads the flag of the last
\* rendering.
ClearAuth(p) ==
  /\ \E i \in DOMAIN shown[p].inbound :
       shown[p].inbound[i].id = form[p].inbound.editing /\ shown[p].inbound[i].token # None
  /\ Begin(Job(p, "inbound", "saving", form[p].inbound,
               IF form[p].inbound.token = None THEN None ELSE form[p].inbound.token))
  /\ form' = [form EXCEPT ![p].inbound.clear = TRUE]

Edit(p, side) ==
  /\ ~busy[p]
  /\ \E id \in Ids(shown[p][side]) : form' = [form EXCEPT ![p][side] = [Empty EXCEPT !.editing = id]]
  /\ UNCHANGED <<servers, lastId, shown, busy, jobs>>

Cancel(p, side) ==
  /\ ~busy[p]
  /\ form[p][side].editing # 0
  /\ form' = [form EXCEPT ![p][side] = Empty]
  /\ UNCHANGED <<servers, lastId, shown, busy, jobs>>

Type(p, side) ==
  /\ \E t \in Tokens : form' = [form EXCEPT ![p][side].token = t]
  /\ UNCHANGED <<servers, lastId, shown, busy, jobs>>

\* The form of a server that is being removed is emptied at once.
Remove(p, side) ==
  \E id \in Ids(shown[p][side]) :
    /\ Begin([Job(p, side, "removing", Empty, Keep) EXCEPT !.target = id])
    /\ form' = [form EXCEPT ![p][side] = IF @.editing = id THEN Empty ELSE @]

-----------------------------------------------------------------------------
(* The host: one POST each, which may be refused.                            *)

Answered(j, st) == [jobs EXCEPT ![j].st = st]
HostOnly == UNCHANGED <<shown, form, busy>>

Create(j) ==
  /\ jobs[j].st = "saving" /\ jobs[j].editing = 0
  /\ lastId < MaxIds
  /\ lastId' = lastId + 1
  /\ servers' = [servers EXCEPT ![jobs[j].side] = Append(@, [id |-> lastId', token |-> None])]
  /\ jobs' = [Answered(j, "saved") EXCEPT ![j].server = lastId']
  /\ HostOnly

Update(j) ==
  /\ jobs[j].st = "saving" /\ jobs[j].editing \in Ids(servers[jobs[j].side])
  /\ jobs' = [Answered(j, "saved") EXCEPT ![j].server = jobs[j].editing]
  /\ UNCHANGED <<servers, lastId>> /\ HostOnly

SetAuth(j) ==
  LET job == jobs[j]
  IN /\ job.st = "authorizing" /\ job.target \in Ids(servers[job.side])
     /\ servers' = [servers EXCEPT ![job.side] =
                      [i \in DOMAIN @ |-> IF @[i].id = job.target
                                          THEN [@[i] EXCEPT !.token = job.token] ELSE @[i]]]
     /\ jobs' = [Answered(j, "authorized") EXCEPT ![j].set = job.token]
     /\ UNCHANGED lastId /\ HostOnly

RemoveServer(j) ==
  LET job == jobs[j]
  IN /\ job.st = "removing"
     /\ servers' = [servers EXCEPT ![job.side] = SelectSeq(@, LAMBDA s : s.id # job.target)]
     /\ jobs' = Answered(j, "removed")
     /\ UNCHANGED lastId /\ HostOnly

\* The record is gone, or could not be saved.
Refuse(j) ==
  /\ jobs[j].st \in {"saving", "removing", "authorizing"}
  /\ jobs' = Answered(j, IF jobs[j].st = "authorizing" THEN "denied" ELSE "refused")
  /\ UNCHANGED <<servers, lastId>> /\ HostOnly

-----------------------------------------------------------------------------
(* The page, after an answer.                                                *)

\* What follows the save once the server is known; the token typed wins over the flag.
Authorize(j, id) ==
  LET job == jobs[j]
  IN IF job.token # None \/ job.clear
     THEN /\ jobs' = [Answered(j, "authorizing") EXCEPT ![j].target = id]
          /\ busy' = [busy EXCEPT ![job.page] = TRUE]
          /\ UNCHANGED form
     ELSE /\ jobs' = Answered(j, "done")
          /\ busy' = [busy EXCEPT ![job.page] = FALSE]
          /\ form' = [form EXCEPT ![job.page][job.side] = Empty]

Ends(j, st) ==
  /\ jobs' = Answered(j, st)
  /\ busy' = [busy EXCEPT ![jobs[j].page] = FALSE]

\* control() reads a snapshot after every answer; a token that was denied is not noticed.
Refreshed(j) ==
  LET job == jobs[j]
  IN /\ shown' = [shown EXCEPT ![job.page] = servers]
     /\ \/ job.st = "saved" /\ job.editing # 0 /\ Authorize(j, job.editing)
        \/ job.st = "saved" /\ job.editing = 0 /\ Ends(j, "locating") /\ UNCHANGED form
        \/ /\ job.st \in {"authorized", "denied"}
           /\ Ends(j, IF job.st = "denied" THEN "over" ELSE "done")
           /\ form' = [form EXCEPT ![job.page][job.side] = Empty]
        \/ job.st \in {"refused", "removed"} /\ Ends(j, "over") /\ UNCHANGED form
     /\ UNCHANGED <<servers, lastId>>

\* The created server is taken for the first one of a new snapshot.
Locate(j) ==
  LET list == servers[jobs[j].side]
  IN /\ jobs[j].st = "locating"
     /\ IF list = <<>> THEN Ends(j, "over") /\ UNCHANGED form
        ELSE Authorize(j, Head(list).id)
     /\ UNCHANGED <<servers, lastId, shown>>

\* A request or its answer is lost.  Whatever becomes of the token, the form is emptied.
Lost(j) ==
  LET job == jobs[j]
  IN /\ job.st \notin {"done", "over"}
     /\ Ends(j, "over")
     /\ form' = IF job.st \in {"authorizing", "authorized", "denied"}
                THEN [form EXCEPT ![job.page][job.side] = Empty] ELSE form
     /\ UNCHANGED <<servers, lastId, shown>>

Poll(p) ==
  /\ shown' = [shown EXCEPT ![p] = servers]
  /\ UNCHANGED <<servers, lastId, form, busy, jobs>>

Next ==
  \/ \E p \in Pages, side \in Sides :
       Submit(p, side) \/ Edit(p, side) \/ Cancel(p, side) \/ Type(p, side) \/ Remove(p, side)
  \/ \E p \in Pages : ClearAuth(p) \/ Poll(p)
  \/ \E j \in DOMAIN jobs :
       \/ Create(j) \/ Update(j) \/ SetAuth(j) \/ RemoveServer(j) \/ Refuse(j)
       \/ Refreshed(j) \/ Locate(j) \/ Lost(j)

Spec == Init /\ [][Next]_vars

-----------------------------------------------------------------------------
(* Properties.                                                               *)

\* docs/guide/operations.md:57 and 59: a submission of which every call succeeded has done with
\* the token of the server it saved what the user asked: set it, cleared it or left it, and it
\* has touched no other server's.
TokenAsAsked ==
  \A j \in DOMAIN jobs :
    jobs[j].st = "done" =>
      /\ jobs[j].set = jobs[j].asked
      /\ jobs[j].set # Keep => jobs[j].target = jobs[j].server
=============================================================================
