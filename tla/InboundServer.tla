----------------------------- MODULE InboundServer -----------------------------
(***************************************************************************)
(* One inbound server instance in its manager                              *)
(* (src/servers/inbound-manager.ts): its record in the inbound_servers     *)
(* table, the live instance and the routes registered for it               *)
(* (src/server/routes.ts).  An edit builds a new live instance and swaps   *)
(* it in; the instances are numbered as they are built.                    *)
(*                                                                         *)
(* Operations are handlers with awaits in them, between which others run:  *)
(* storing a token, waiting for a queued write, deriving the skills.  Of a *)
(* record only its enabled flag and the number of its last edit are kept.  *)
(* Writes do not fail and reach the table in the order they were queued.   *)
(***************************************************************************)
EXTENDS Naturals, Sequences

CONSTANTS
  Ops,         \* operation slots: dashboard calls in progress
  MaxGens,     \* bound: instances ever built
  MaxBegun,    \* bound: operations begun
  MaxRestarts  \* bound: restarts of the process

ASSUME InboundAssumption == {MaxGens, MaxBegun, MaxRestarts} \subseteq Nat

Gens == 1..MaxGens
None == 0
Nobody == "nobody"  \* waits for the writes no operation waits for
Flag == {"on", "off"}

VARIABLES
  record,    \* the row, NoRow when it is missing or a tombstone
  writes,    \* the domain's write chain
  live,      \* the instance in the manager's table
  routed,    \* instances whose routes are registered
  disposed,  \* instances that were disposed
  config,    \* config[g]: the edit instance g was built from
  booting,   \* is the row being assembled at boot?
  op,        \* op[o]: the operation in slot o
  made,      \* instances, operations, edits and restarts so far
  intended,  \* history: the flag last asked for, or "removed"
  alone      \* history: has every operation run alone so far?

instances == <<live, routed, disposed, config>>
history == <<intended, alone>>
vars == <<record, writes, instances, booting, op, made, history>>

\* Rows; a missing one is a row of edit 0.
Row(flag, edit) == [flag |-> flag, edit |-> edit]
NoRow == Row("off", 0)
Rows == [flag : Flag, edit : 0..MaxBegun]

\* An operation: the instance it found in the table, the row it will save.
Op(kind, pc, old, row) == [kind |-> kind, pc |-> pc, old |-> old, row |-> row]
NoOp == Op("none", "idle", None, NoRow)
Operations == [kind : {"none", "add", "edit", "remove"},
               pc : {"idle", "storing", "saving", "deriving"},
               old : Gens \cup {None}, row : Rows]

TypeOK ==
  /\ record \in Rows
  /\ writes \in Seq([row : Rows, by : Ops \cup {Nobody}])
  /\ live \in Gens \cup {None}
  /\ routed \subseteq Gens
  /\ disposed \subseteq Gens
  /\ config \in [Gens -> 0..MaxBegun]
  /\ booting \in BOOLEAN
  /\ op \in [Ops -> Operations]
  /\ made \in [gens : 0..MaxGens, ops : 0..MaxBegun, edits : 0..MaxBegun,
                restarts : 0..MaxRestarts]
  /\ made.edits <= made.ops
  /\ intended \in Flag \cup {"removed"}

Init ==
  /\ record = NoRow
  /\ writes = <<>>
  /\ live = None
  /\ routed = {}
  /\ disposed = {}
  /\ config = [g \in Gens |-> 0]
  /\ booting = FALSE
  /\ op = [o \in Ops |-> NoOp]
  /\ made = [gens |-> 0, ops |-> 0, edits |-> 0, restarts |-> 0]
  /\ intended = "removed"
  /\ alone = TRUE

-----------------------------------------------------------------------------
(* The write chain *)

Save(row, o) == writes' = Append(writes, [row |-> row, by |-> o])
Saved(o) == \A i \in DOMAIN writes : writes[i].by # o

\* Slip: the chain stops at the empty value of a removed row.
WriteRowsOnly ==
  /\ writes # <<>>
  /\ Head(writes).row # NoRow
  /\ record' = Head(writes).row
  /\ writes' = Tail(writes)
  /\ UNCHANGED <<instances, booting, op, made, history>>

Write ==
  /\ writes # <<>>
  /\ record' = Head(writes).row
  /\ writes' = Tail(writes)
  /\ UNCHANGED <<instances, booting, op, made, history>>

Idle == ~booting /\ \A o \in Ops : op[o] = NoOp
Quiet == Idle /\ writes = <<>>

-----------------------------------------------------------------------------
(* The beginning of an operation *)

Begin(edits) ==
  /\ made.ops < MaxBegun
  /\ made' = [made EXCEPT !.ops = @ + 1, !.edits = @ + edits]
  /\ alone' = (alone /\ Quiet)

Enter(o, operation) ==
  /\ op[o] = NoOp
  /\ op' = [op EXCEPT ![o] = operation]

\* add(): the skills first, then the row, then the table.  Its id is a new one,
\* so nobody else knows it yet; it is numbered when it enters the table.
Add(o) ==
  /\ made.edits = 0
  /\ Begin(1)
  /\ \E flag \in Flag :
        /\ Enter(o, Op("add", "deriving", None, Row(flag, 1)))
        /\ intended' = flag
  /\ UNCHANGED <<record, writes, instances, booting>>

\* A patch keeps the enabled flag that is stored.
Patched == Row(record.flag, made.edits + 1)

\* update(): the patched record is saved first.
Update(o) ==
  /\ live # None
  /\ record # NoRow
  /\ Begin(1)
  /\ Enter(o, Op("edit", "saving", live, Patched))
  /\ Save(Patched, o)
  /\ UNCHANGED <<record, instances, booting, intended>>

\* setAuth(): the same behind a call to the credentials service.
SetAuth(o) ==
  /\ live # None
  /\ record # NoRow
  /\ Begin(1)
  /\ Enter(o, Op("edit", "storing", live, Patched))
  /\ UNCHANGED <<record, writes, instances, booting, intended>>

\* setEnabled() does not wait for its write.
SetEnabled ==
  /\ live # None
  /\ Begin(0)
  /\ \E flag \in Flag :
        /\ routed' = IF flag = "on" THEN routed \cup {live} ELSE routed \ {live}
        /\ IF record # NoRow THEN Save(Row(flag, record.edit), Nobody) ELSE UNCHANGED writes
        /\ intended' = flag
  /\ UNCHANGED <<record, live, disposed, config, booting, op>>

Dispose(g) == disposed' = disposed \cup {g} /\ routed' = routed \ {g}

\* remove(): the instance at once, then the row.
Remove(o) ==
  /\ live # None
  /\ Begin(0)
  /\ Enter(o, Op("remove", "saving", None, NoRow))
  /\ Dispose(live)
  /\ live' = None
  /\ Save(NoRow, o)
  /\ intended' = "removed"
  /\ UNCHANGED <<record, config, booting>>

-----------------------------------------------------------------------------
(* The rest of it *)

Goto(o, pc) == op' = [op EXCEPT ![o].pc = pc]
Finish(o) == op' = [op EXCEPT ![o] = NoOp]
At(o, kind, pc) == op[o].kind = kind /\ op[o].pc = pc

\* The preset's skills and the token are read, or fall back: neither fails.
SkillsDerived(o, kind) == At(o, kind, "deriving")

\* assemble(): an instance without routes yet.
Assemble(row) ==
  /\ made.gens < MaxGens
  /\ made' = [made EXCEPT !.gens = @ + 1]
  /\ config' = [config EXCEPT ![made.gens + 1] = row.edit]
Assembled == made.gens + 1

AddSaves(o) ==
  /\ SkillsDerived(o, "add")
  /\ Save(op[o].row, o)
  /\ Goto(o, "saving")
  /\ UNCHANGED <<record, instances, booting, made, history>>

AddEnds(o) ==
  /\ At(o, "add", "saving")
  /\ Saved(o)
  /\ Assemble(op[o].row)
  /\ live' = Assembled
  /\ routed' = IF op[o].row.flag = "on" THEN routed \cup {Assembled} ELSE routed
  /\ Finish(o)
  /\ UNCHANGED <<record, writes, disposed, booting, history>>

\* The credentials service may refuse: nothing was changed then.
TokenStored(o) ==
  /\ At(o, "edit", "storing")
  /\ \/ Save(op[o].row, o) /\ Goto(o, "saving")
     \/ Finish(o) /\ UNCHANGED writes
  /\ UNCHANGED <<record, instances, booting, made, history>>

EditSaved(o) ==
  /\ At(o, "edit", "saving")
  /\ Saved(o)
  /\ Goto(o, "deriving")
  /\ UNCHANGED <<record, writes, instances, booting, made, history>>

\* Slip: the instance in the table is disposed after it was replaced there.
SwapDisposesNew(o) ==
  /\ SkillsDerived(o, "edit")
  /\ Assemble(op[o].row)
  /\ live' = Assembled
  /\ disposed' = disposed \cup {Assembled}
  /\ routed' = routed \ {Assembled}
  /\ Finish(o)
  /\ UNCHANGED <<record, writes, booting, history>>

\* Slip: the flag of the record alone decides.
SwapByOldRoutes(o) ==
  /\ SkillsDerived(o, "edit")
  /\ Assemble(op[o].row)
  /\ live' = Assembled
  /\ disposed' = disposed \cup {op[o].old}
  /\ routed' = IF op[o].old \in routed THEN routed \cup {Assembled} ELSE routed
  /\ Finish(o)
  /\ UNCHANGED <<record, writes, booting, history>>

\* The instance the operation found is disposed, the new one takes its place in
\* the table, and its routes are registered if those of the old one were or the
\* record says so.
Swap(o) ==
  LET routes == op[o].old \in routed \/ op[o].row.flag = "on"
  IN /\ SkillsDerived(o, "edit")
     /\ Assemble(op[o].row)
     /\ live' = Assembled
     /\ disposed' = disposed \cup {op[o].old}
     /\ routed' = (routed \ {op[o].old}) \cup (IF routes THEN {Assembled} ELSE {})
     /\ Finish(o)
     /\ UNCHANGED <<record, writes, booting, history>>

RemoveEnds(o) ==
  /\ At(o, "remove", "saving")
  /\ Saved(o)
  /\ Finish(o)
  /\ UNCHANGED <<record, writes, instances, booting, made, history>>

-----------------------------------------------------------------------------
(* Restart *)

\* The process ends, anywhere: what was live is gone, and so are queued writes.
Restart ==
  /\ made.restarts < MaxRestarts
  /\ made' = [made EXCEPT !.restarts = @ + 1]
  /\ live' = None
  /\ routed' = {}
  /\ disposed' = {}
  /\ op' = [o \in Ops |-> NoOp]
  /\ booting' = (record # NoRow)
  /\ alone' = (alone /\ Quiet)
  /\ writes' = <<>>
  /\ UNCHANGED <<record, config, intended>>

Boot ==
  /\ booting
  /\ Assemble(record)
  /\ live' = Assembled
  /\ routed' = IF record.flag = "on" THEN {Assembled} ELSE {}
  /\ booting' = FALSE
  /\ UNCHANGED <<record, writes, disposed, op, history>>

Continue(o) ==
  AddSaves(o) \/ AddEnds(o) \/ TokenStored(o) \/ EditSaved(o) \/ Swap(o) \/ RemoveEnds(o)

Next ==
  \/ Write \/ SetEnabled \/ Restart \/ Boot
  \/ \E o \in Ops : Add(o) \/ Update(o) \/ SetAuth(o) \/ Remove(o) \/ Continue(o)

Spec == Init /\ [][Next]_vars

\* The medium, the credentials service and the preset roster answer.
FairSpec == Spec /\ WF_vars(Write) /\ \A o \in Ops : WF_vars(Continue(o))
-----------------------------------------------------------------------------
(* Properties *)

\* However operations overlap, the instance in the table is not one that was
\* disposed, and no disposed instance has routes: requests never reach it.
DisposedIsGone == disposed \cap (routed \cup {live}) = {}

\* As long as operations come one at a time: when one has ended the instance in
\* the table is the record's, the record has the flag last asked for, the
\* instance has routes exactly if that is "on", and no other instance has any;
\* through edits, toggles and restarts.
InstanceMatchesRecord ==
  alone /\ Quiet =>
    \/ live = None /\ record = NoRow /\ routed = {}
    \/ /\ live # None
       /\ record # NoRow
       /\ config[live] = record.edit
       /\ record.flag = intended
       /\ routed = IF intended = "on" THEN {live} ELSE {}

\* Every operation comes to an end.
OpsEnd == \A o \in Ops : op[o] # NoOp ~> op[o] = NoOp
=============================================================================
