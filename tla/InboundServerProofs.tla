-------------------------- MODULE InboundServerProofs --------------------------
(***************************************************************************)
(* Proofs about InboundServer, for any number of operations at a time and  *)
(* whatever the bounds are.                                                *)
(***************************************************************************)
EXTENDS InboundServer, SequenceTheorems, TLAPS

\* Every instance that is spoken of was built, and an edit knows one.
Built == 1..made.gens
NumberedSoFar ==
  /\ live \in Built \cup {None}
  /\ routed \subseteq Built
  /\ disposed \subseteq Built
  /\ \A o \in Ops : op[o].kind = "edit" => op[o].old \in Built

\* Rows and operations that the handlers build.
LEMMA RowsBuilt ==
  /\ NoRow \in Rows
  /\ \A f \in Flag, n \in 0..MaxBegun : Row(f, n) \in Rows
BY InboundAssumption DEF NoRow, Row, Rows, Flag

LEMMA NoOpBuilt == NoOp \in Operations
BY RowsBuilt DEF NoOp, Op, Operations, None

LEMMA OpBuilt ==
  ASSUME NEW kind \in {"add", "edit", "remove"}, NEW pc \in {"storing", "saving", "deriving"},
         NEW old \in Gens \cup {None}, NEW row \in Rows
  PROVE  Op(kind, pc, old, row) \in Operations
BY DEF Op, Operations

LEMMA TypeInit == Init => TypeOK
<1>. SUFFICES ASSUME Init PROVE TypeOK
  OBVIOUS
<1>. USE InboundAssumption
<1>1. op \in [Ops -> Operations]
  BY NoOpBuilt DEF Init
<1>2. config \in [Gens -> 0..MaxBegun]
  BY DEF Init
<1>3. made \in [gens : 0..MaxGens, ops : 0..MaxBegun, edits : 0..MaxBegun,
                restarts : 0..MaxRestarts] /\ made.edits <= made.ops
  BY DEF Init
<1>4. writes \in Seq([row : Rows, by : Ops \cup {Nobody}])
  BY DEF Init
<1>. QED
  BY <1>1, <1>2, <1>3, <1>4, RowsBuilt DEF Init, TypeOK

-----------------------------------------------------------------------------
(* The helpers that several actions share *)

LEMMA SaveType ==
  ASSUME TypeOK, NEW row \in Rows, NEW o \in Ops \cup {Nobody}, Save(row, o)
  PROVE  writes' \in Seq([row : Rows, by : Ops \cup {Nobody}])
BY DEF TypeOK, Save

LEMMA BeginType ==
  ASSUME TypeOK, NEW n \in {0, 1}, Begin(n)
  PROVE  /\ made' \in [gens : 0..MaxGens, ops : 0..MaxBegun, edits : 0..MaxBegun,
                       restarts : 0..MaxRestarts]
         /\ made'.edits <= made'.ops
         /\ made'.gens = made.gens
         /\ made.edits + n \in 0..MaxBegun
<1>. USE InboundAssumption
<1>1. /\ made.ops \in 0..MaxBegun /\ made.edits \in 0..MaxBegun
      /\ made.edits <= made.ops /\ made.ops < MaxBegun
  BY DEF TypeOK, Begin
<1>2. made.ops + 1 \in 0..MaxBegun /\ made.edits + n \in 0..MaxBegun
      /\ made.edits + n <= made.ops + 1
  BY <1>1
<1>3. made' = [made EXCEPT !.ops = made.ops + 1, !.edits = made.edits + n]
  BY DEF Begin
<1>. QED
  BY <1>2, <1>3 DEF TypeOK

LEMMA EnterType ==
  ASSUME TypeOK, NEW o \in Ops, NEW operation \in Operations, Enter(o, operation)
  PROVE  op' \in [Ops -> Operations]
BY DEF TypeOK, Enter

LEMMA GotoType ==
  ASSUME TypeOK, NEW o \in Ops, NEW pc \in {"saving", "deriving"}, Goto(o, pc)
  PROVE  op' \in [Ops -> Operations]
<1>1. [op[o] EXCEPT !.pc = pc] \in Operations
  BY DEF TypeOK, Operations
<1>. QED
  BY <1>1 DEF TypeOK, Goto

LEMMA FinishType ==
  ASSUME TypeOK, NEW o \in Ops, Finish(o)
  PROVE  op' \in [Ops -> Operations]
BY NoOpBuilt DEF TypeOK, Finish

LEMMA AssembleType ==
  ASSUME TypeOK, NEW row \in Rows, Assemble(row)
  PROVE  /\ Assembled \in Gens
         /\ config' \in [Gens -> 0..MaxBegun]
         /\ made' \in [gens : 0..MaxGens, ops : 0..MaxBegun, edits : 0..MaxBegun,
                       restarts : 0..MaxRestarts]
         /\ made'.edits <= made'.ops
         /\ made'.gens = Assembled
<1>. USE InboundAssumption
<1>1. made.gens + 1 \in 0..MaxGens /\ Assembled \in Gens
  BY DEF TypeOK, Assemble, Assembled, Gens
<1>2. made' = [made EXCEPT !.gens = made.gens + 1]
  BY DEF Assemble
<1>3. row.edit \in 0..MaxBegun
  BY DEF Rows
<1>. QED
  BY <1>1, <1>2, <1>3 DEF TypeOK, Assemble, Assembled

-----------------------------------------------------------------------------
(* Type correctness *)

LEMMA BeginnersType ==
  ASSUME TypeOK, NEW o \in Ops, Add(o) \/ Update(o) \/ SetAuth(o) \/ Remove(o)
  PROVE  TypeOK'
<1>. USE RowsBuilt
<1>1. CASE Add(o)
  <2>1. Begin(1) /\ made.edits = 0
    BY <1>1 DEF Add
  <2>2. PICK flag \in Flag : Enter(o, Op("add", "deriving", None, Row(flag, 1)))
                             /\ intended' = flag
    BY <1>1 DEF Add
  <2>3. 1 \in 0..MaxBegun
    BY <2>1, BeginType DEF TypeOK
  <2>4. Op("add", "deriving", None, Row(flag, 1)) \in Operations
    BY <2>3, OpBuilt
  <2>5. op' \in [Ops -> Operations]
    BY <2>2, <2>4, EnterType
  <2>. QED
    BY <1>1, <2>1, <2>2, <2>5, BeginType DEF Add, TypeOK, instances
<1>2. CASE Update(o) \/ SetAuth(o)
  <2>1. Begin(1)
    BY <1>2 DEF Update, SetAuth
  <2>2. Patched \in Rows
    BY <2>1, BeginType DEF Patched, TypeOK, Rows, Flag, Row
  <2>3. \E pc \in {"storing", "saving"} : Enter(o, Op("edit", pc, live, Patched))
    BY <1>2 DEF Update, SetAuth
  <2>4. op' \in [Ops -> Operations]
    BY <2>2, <2>3, OpBuilt, EnterType DEF TypeOK
  <2>5. writes' \in Seq([row : Rows, by : Ops \cup {Nobody}])
    BY <1>2, <2>2, SaveType DEF Update, SetAuth, TypeOK
  <2>. QED
    BY <1>2, <2>1, <2>4, <2>5, BeginType DEF Update, SetAuth, TypeOK, instances
<1>3. CASE Remove(o)
  <2>1. Begin(0) /\ live \in Gens
    BY <1>3 DEF Remove, TypeOK
  <2>2. op' \in [Ops -> Operations]
    BY <1>3, OpBuilt, EnterType DEF Remove
  <2>3. writes' \in Seq([row : Rows, by : Ops \cup {Nobody}])
    BY <1>3, SaveType DEF Remove
  <2>. QED
    BY <1>3, <2>1, <2>2, <2>3, BeginType DEF Remove, Dispose, TypeOK
<1>. QED
  BY <1>1, <1>2, <1>3

LEMMA ContinueType ==
  ASSUME TypeOK, NumberedSoFar, NEW o \in Ops, Continue(o)
  PROVE  TypeOK'
<1>1. op[o].row \in Rows /\ op[o].old \in Gens \cup {None}
  BY DEF TypeOK, Operations
<1>2. CASE AddSaves(o)
  BY <1>1, <1>2, SaveType, GotoType DEF AddSaves, TypeOK, instances, history
<1>3. CASE AddEnds(o)
  <2>1. Assemble(op[o].row) /\ Finish(o) /\ live' = Assembled
        /\ routed' \subseteq routed \cup {Assembled}
    BY <1>3 DEF AddEnds
  <2>. QED
    BY <1>1, <1>3, <2>1, AssembleType, FinishType DEF AddEnds, TypeOK, history
<1>4. CASE TokenStored(o)
  <2>1. op' \in [Ops -> Operations]
    BY <1>4, GotoType, FinishType DEF TokenStored
  <2>2. writes' \in Seq([row : Rows, by : Ops \cup {Nobody}])
    BY <1>1, <1>4, SaveType DEF TokenStored, TypeOK
  <2>. QED
    BY <1>4, <2>1, <2>2 DEF TokenStored, TypeOK, instances, history
<1>5. CASE EditSaved(o)
  BY <1>5, GotoType DEF EditSaved, TypeOK, instances, history
<1>6. CASE Swap(o)
  <2>1. SkillsDerived(o, "edit") /\ Assemble(op[o].row) /\ Finish(o) /\ live' = Assembled
        /\ disposed' = disposed \cup {op[o].old}
        /\ routed' \subseteq routed \cup {Assembled}
    BY <1>6 DEF Swap
  <2>2. op[o].old \in Gens
    BY <2>1, <1>1, InboundAssumption DEF SkillsDerived, At, NumberedSoFar, Built, Gens, TypeOK
  <2>. QED
    BY <1>1, <1>6, <2>1, <2>2, AssembleType, FinishType DEF Swap, TypeOK, history
<1>7. CASE RemoveEnds(o)
  BY <1>7, FinishType DEF RemoveEnds, TypeOK, instances, history
<1>. QED
  BY <1>2, <1>3, <1>4, <1>5, <1>6, <1>7 DEF Continue

LEMMA TypeStep ==
  ASSUME TypeOK, NumberedSoFar, [Next]_vars
  PROVE  TypeOK'
<1>. USE InboundAssumption
<1>1. CASE Write
  <2>1. Head(writes) \in [row : Rows, by : Ops \cup {Nobody}]
        /\ Tail(writes) \in Seq([row : Rows, by : Ops \cup {Nobody}])
    BY <1>1, HeadTailProperties DEF Write, TypeOK
  <2>. QED
    BY <1>1, <2>1 DEF Write, TypeOK, instances, history
<1>2. CASE SetEnabled
  <2>1. Begin(0) /\ live \in Gens
    BY <1>2 DEF SetEnabled, TypeOK
  <2>2. PICK flag \in Flag :
          /\ routed' \subseteq routed \cup {live}
          /\ Save(Row(flag, record.edit), Nobody) \/ UNCHANGED writes
          /\ intended' = flag
    BY <1>2 DEF SetEnabled
  <2>3. Row(flag, record.edit) \in Rows
    BY DEF TypeOK, Row, Rows
  <2>4. writes' \in Seq([row : Rows, by : Ops \cup {Nobody}])
    BY <2>2, <2>3, SaveType DEF TypeOK
  <2>. QED
    BY <1>2, <2>1, <2>2, <2>4, BeginType DEF SetEnabled, TypeOK
<1>3. CASE Restart
  <2>1. op' \in [Ops -> Operations]
    BY <1>3, NoOpBuilt DEF Restart
  <2>2. made' = [made EXCEPT !.restarts = made.restarts + 1]
        /\ made.restarts + 1 \in 0..MaxRestarts
    BY <1>3 DEF Restart, TypeOK
  <2>3. made' \in [gens : 0..MaxGens, ops : 0..MaxBegun, edits : 0..MaxBegun,
                   restarts : 0..MaxRestarts] /\ made'.edits <= made'.ops
    BY <2>2 DEF TypeOK
  <2>4. booting' \in BOOLEAN /\ writes' = <<>>
    BY <1>3 DEF Restart
  <2>. QED
    BY <1>3, <2>1, <2>3, <2>4 DEF Restart, TypeOK
<1>4. CASE Boot
  <2>1. Assemble(record) /\ live' = Assembled /\ routed' \subseteq {Assembled}
    BY <1>4 DEF Boot
  <2>. QED
    BY <1>4, <2>1, AssembleType DEF Boot, TypeOK, history
<1>5. ASSUME NEW o \in Ops, Add(o) \/ Update(o) \/ SetAuth(o) \/ Remove(o)
      PROVE  TypeOK'
  BY <1>5, BeginnersType
<1>6. ASSUME NEW o \in Ops, Continue(o) PROVE TypeOK'
  BY <1>6, ContinueType
<1>7. CASE UNCHANGED vars
  BY <1>7 DEF vars, instances, history, TypeOK
<1>. QED
  BY <1>1, <1>2, <1>3, <1>4, <1>5, <1>6, <1>7 DEF Next

-----------------------------------------------------------------------------
(* Instances *)

\* An instance is built with a number of its own, so it is no disposed one.
LEMMA InstancesStep ==
  ASSUME TypeOK, NumberedSoFar, DisposedIsGone, [Next]_vars
  PROVE  NumberedSoFar' /\ DisposedIsGone'
<1>. USE InboundAssumption DEF NumberedSoFar, DisposedIsGone
<1>0. made.gens \in Nat /\ None \notin Built
  BY DEF TypeOK, Built, None
<1>1. ASSUME NEW row \in Rows, Assemble(row)
      PROVE  /\ Assembled \in Built' /\ Assembled \notin Built
             /\ Built \subseteq Built'
  <2>1. made'.gens = made.gens + 1 /\ Assembled = made.gens + 1
    BY <1>1, AssembleType DEF Assembled
  <2>. QED
    BY <1>0, <2>1 DEF Built
<1>1a. made'.gens = made.gens => Built' = Built
  BY DEF Built
<1>2. CASE Write
  BY <1>2, <1>1a DEF Write, instances, history
<1>3. CASE SetEnabled
  <2>1. Built' = Built /\ live # None
    BY <1>3, <1>1a, BeginType DEF SetEnabled
  <2>2. routed' \subseteq routed \cup {live}
    BY <1>3 DEF SetEnabled
  <2>. QED
    BY <1>3, <2>1, <2>2 DEF SetEnabled
<1>4. CASE Restart
  <2>1. Built' = Built
    BY <1>4, <1>1a DEF Restart, TypeOK
  <2>2. \A o \in Ops : op'[o].kind = "none"
    BY <1>4 DEF Restart, NoOp, Op
  <2>. QED
    BY <1>4, <2>1, <2>2 DEF Restart
<1>5. CASE Boot
  <2>1. Assembled \in Built' /\ Assembled \notin Built /\ Built \subseteq Built'
    BY <1>1, <1>5 DEF Boot, TypeOK
  <2>2. live' = Assembled /\ routed' \subseteq {Assembled} /\ UNCHANGED <<disposed, op>>
    BY <1>5 DEF Boot, history
  <2>. QED
    BY <1>0, <2>1, <2>2
<1>6. ASSUME NEW o \in Ops, Add(o) \/ Update(o) \/ SetAuth(o)
      PROVE  NumberedSoFar' /\ DisposedIsGone'
  <2>1. Built' = Built /\ UNCHANGED <<live, routed, disposed>>
    BY <1>6, <1>1a, BeginType DEF Add, Update, SetAuth, instances
  <2>2. \A p \in Ops : op'[p].kind = "edit" => op'[p].old \in Built
    BY <1>6 DEF Add, Update, SetAuth, Enter, Op, TypeOK
  <2>. QED
    BY <2>1, <2>2
<1>7. ASSUME NEW o \in Ops, Remove(o)
      PROVE  NumberedSoFar' /\ DisposedIsGone'
  <2>1. /\ Built' = Built
        /\ live \in Built
        /\ live' = None
        /\ disposed' = disposed \cup {live}
        /\ routed' = routed \ {live}
    BY <1>7, <1>1a, BeginType DEF Remove, Dispose
  <2>2. \A p \in Ops : op'[p].kind = "edit" => op'[p].old \in Built
    BY <1>7 DEF Remove, Enter, Op, TypeOK
  <2>. QED
    BY <1>0, <2>1, <2>2
<1>8. ASSUME NEW o \in Ops, AddSaves(o) \/ TokenStored(o) \/ EditSaved(o) \/ RemoveEnds(o)
      PROVE  NumberedSoFar' /\ DisposedIsGone'
  <2>1. Built' = Built /\ UNCHANGED <<live, routed, disposed>>
    BY <1>8, <1>1a DEF AddSaves, TokenStored, EditSaved, RemoveEnds, instances
  <2>2. Finish(o) \/ \E pc \in {"saving", "deriving"} : Goto(o, pc)
    BY <1>8 DEF AddSaves, TokenStored, EditSaved, RemoveEnds
  <2>3. \A p \in Ops : op'[p].kind = "edit" => op'[p].kind = op[p].kind /\ op'[p].old = op[p].old
    <3>1. \A p \in Ops : op[p] \in Operations
      BY DEF TypeOK
    <3>2. CASE Finish(o)
      BY <3>2 DEF Finish, NoOp, Op, TypeOK
    <3>3. ASSUME NEW pc \in {"saving", "deriving"}, Goto(o, pc), NEW p \in Ops
          PROVE  op'[p].kind = op[p].kind /\ op'[p].old = op[p].old
      BY <3>1, <3>3 DEF Goto, Operations, TypeOK
    <3>. QED
      BY <2>2, <3>2, <3>3
  <2>. QED
    BY <2>1, <2>3
<1>9. ASSUME NEW o \in Ops, AddEnds(o)
      PROVE  NumberedSoFar' /\ DisposedIsGone'
  <2>1. op[o].row \in Rows
    BY DEF TypeOK, Operations
  <2>2. Assembled \in Built' /\ Assembled \notin Built /\ Built \subseteq Built'
    BY <1>1, <1>9, <2>1 DEF AddEnds
  <2>3. live' = Assembled /\ routed' \subseteq routed \cup {Assembled} /\ disposed' = disposed
    BY <1>9 DEF AddEnds
  <2>4. \A p \in Ops : op'[p].kind = "edit" => op'[p].kind = op[p].kind /\ op'[p].old = op[p].old
    BY <1>9 DEF AddEnds, Finish, NoOp, Op, TypeOK
  <2>. QED
    BY <1>0, <2>2, <2>3, <2>4
<1>10. ASSUME NEW o \in Ops, Swap(o)
       PROVE  NumberedSoFar' /\ DisposedIsGone'
  <2>1. op[o].row \in Rows /\ op[o].old \in Built
    BY <1>10 DEF Swap, SkillsDerived, At, TypeOK, Operations
  <2>2. Assembled \in Built' /\ Assembled \notin Built /\ Built \subseteq Built'
    BY <1>1, <1>10, <2>1 DEF Swap
  <2>3. /\ live' = Assembled
        /\ disposed' = disposed \cup {op[o].old}
        /\ routed' \subseteq (routed \ {op[o].old}) \cup {Assembled}
    BY <1>10 DEF Swap
  <2>4. \A p \in Ops : op'[p].kind = "edit" => op'[p].kind = op[p].kind /\ op'[p].old = op[p].old
    BY <1>10 DEF Swap, Finish, NoOp, Op, TypeOK
  <2>. QED
    BY <1>0, <2>1, <2>2, <2>3, <2>4
<1>11. CASE UNCHANGED vars
  BY <1>11, <1>1a DEF vars, instances
<1>. QED
  BY <1>2, <1>3, <1>4, <1>5, <1>6, <1>7, <1>8, <1>9, <1>10, <1>11 DEF Next, Continue

InstanceInvariant == TypeOK /\ NumberedSoFar /\ DisposedIsGone

LEMMA InstancesCorrect == Spec => []InstanceInvariant
<1>1. Init => InstanceInvariant
  <2>1. Init => NumberedSoFar /\ DisposedIsGone
    BY DEF Init, NumberedSoFar, DisposedIsGone, NoOp, Op
  <2>. QED
    BY <2>1, TypeInit DEF InstanceInvariant
<1>2. InstanceInvariant /\ [Next]_vars => InstanceInvariant'
  BY TypeStep, InstancesStep DEF InstanceInvariant
<1>. QED
  BY <1>1, <1>2, PTL DEF Spec

\* The manager's variables keep their types, whatever overlaps.
THEOREM InboundTypeCorrect == Spec => []TypeOK
BY InstancesCorrect, PTL DEF InstanceInvariant

\* With any number of dashboard operations overlapping at their awaits, no
\* instance that was disposed is in the table or has routes.
THEOREM DisposedInstancesGone == Spec => []DisposedIsGone
BY InstancesCorrect, PTL DEF InstanceInvariant
-----------------------------------------------------------------------------
(* Operations that come one at a time *)

\* The row a live instance goes by once it is written: one of an edit that was
\* made, with the flag last asked for.
Current(row) == row.edit \in 1..made.edits /\ row.flag = intended
NotServing == live = None /\ routed = {}
Serving == live # None /\ routed = IF intended = "on" THEN {live} ELSE {}

\* The only write there is, or it has reached the table.
Queued(row, by) == writes = <<[row |-> row, by |-> by]>>
Put(row, by) == Queued(row, by) \/ (writes = <<>> /\ record = row)

Settled ==
  \/ NotServing /\ record = NoRow
  \/ Serving /\ Current(record) /\ config[live] = record.edit

\* A toggle whose write is queued.
Toggled ==
  /\ writes # <<>> /\ Queued(Head(writes).row, Nobody)
  /\ Serving /\ Current(Head(writes).row) /\ config[live] = Head(writes).row.edit

\* Where the only operation is, and what it has changed by then.
Adding(o) ==
  /\ op[o].kind = "add" /\ NotServing /\ Current(op[o].row)
  /\ \/ op[o].pc = "deriving" /\ writes = <<>>
     \/ op[o].pc = "saving" /\ Put(op[o].row, o)
Editing(o) ==
  /\ op[o].kind = "edit" /\ op[o].old = live /\ Serving /\ Current(op[o].row)
  /\ \/ op[o].pc = "storing" /\ writes = <<>> /\ Settled
     \/ op[o].pc = "saving" /\ Put(op[o].row, o)
     \/ op[o].pc = "deriving" /\ writes = <<>> /\ record = op[o].row
Removing(o) ==
  op[o].kind = "remove" /\ op[o].pc = "saving" /\ NotServing /\ Put(NoRow, o)
Only(o) ==
  /\ ~booting /\ \A p \in Ops : p # o => op[p] = NoOp
  /\ Adding(o) \/ Editing(o) \/ Removing(o)

Phases ==
  \/ Quiet /\ Settled
  \/ Idle /\ Toggled
  \/ booting /\ (\A o \in Ops : op[o] = NoOp) /\ writes = <<>> /\ NotServing /\ Current(record)
  \/ \E o \in Ops : Only(o)

\* What makes InstanceMatchesRecord inductive.
AloneInv == alone => Phases

LEMMA OneWrite ==
  ASSUME NEW x
  PROVE  /\ Head(<<x>>) = x /\ Tail(<<x>>) = <<>> /\ <<x>> # <<>> /\ Append(<<>>, x) = <<x>>
         /\ <<x>>[1] = x /\ DOMAIN <<x>> = {1}
OBVIOUS

\* An operation that begins alone begins when the last one has been settled.
LEMMA BeginsSettled ==
  ASSUME AloneInv, Quiet, alone
  PROVE  /\ Settled /\ ~booting /\ writes = <<>> /\ \A o \in Ops : op[o] = NoOp
<1>1. ~booting /\ writes = <<>> /\ \A o \in Ops : op[o] = NoOp
  BY DEF Quiet, Idle
<1>2. \A o \in Ops : ~Only(o)
  <2>1. NoOp.kind = "none"
    BY DEF NoOp, Op
  <2>2. ASSUME NEW o \in Ops PROVE op[o].kind = "none"
    <3>1. op[o] = NoOp
      BY <1>1
    <3> QED BY <2>1, <3>1
  <2> QED BY <2>2 DEF Only, Adding, Editing, Removing
<1> QED BY <1>1, <1>2 DEF AloneInv, Phases, Toggled

LEMMA BeginsAlone ==
  ASSUME TypeOK, AloneInv, NEW n \in {0, 1}, Begin(n), alone'
  PROVE  /\ Settled /\ ~booting /\ writes = <<>> /\ \A o \in Ops : op[o] = NoOp
         /\ made.edits \in Nat /\ made'.edits = made.edits + n
<1>1. alone /\ Quiet
  BY DEF Begin
<1>2. made.edits \in Nat /\ made'.edits = made.edits + n
  BY InboundAssumption DEF Begin, TypeOK
<1> QED BY <1>1, <1>2, BeginsSettled

\* An operation that goes on alone is the only one.
LEMMA GoesOnAlone ==
  ASSUME AloneInv, alone, NEW o \in Ops, op[o].kind # "none"
  PROVE  Only(o)
<1>1. op[o] # NoOp
  BY DEF NoOp, Op
<1>2. ~Idle /\ ~(\A p \in Ops : op[p] = NoOp)
  BY <1>1 DEF Idle
<1>3. PICK p \in Ops : Only(p)
  BY <1>2 DEF AloneInv, Phases, Quiet
<1>4. p = o
  BY <1>1, <1>3 DEF Only
<1> QED BY <1>3, <1>4

\* Rows of an edit are no missing ones.
LEMMA CurrentIsRow ==
  ASSUME NEW row, Current(row), TypeOK
  PROVE  row # NoRow
<1>1. NoRow.edit = 0 /\ row.edit # 0
  BY InboundAssumption DEF Current, TypeOK, NoRow, Row
<1> QED BY <1>1

\* The first write of an operation is the only one.
LEMMA FirstWrite ==
  ASSUME NEW row, NEW o, writes = <<>>, Save(row, o)
  PROVE  Queued(row, o)'
BY OneWrite DEF Save, Queued

LEMMA BeginnersAlone ==
  ASSUME TypeOK, AloneInv, NEW o \in Ops, Add(o) \/ Update(o) \/ SetAuth(o) \/ Remove(o)
  PROVE  AloneInv'
<1> SUFFICES ASSUME alone' PROVE Phases'
  BY DEF AloneInv
<1>0. op \in [Ops -> Operations]
  BY DEF TypeOK
<1>1. CASE Add(o)
  <2>1. Begin(1) /\ made.edits = 0
    BY <1>1 DEF Add
  <2>2. PICK flag \in Flag : Enter(o, Op("add", "deriving", None, Row(flag, 1)))
                             /\ intended' = flag
    BY <1>1 DEF Add
  <2>3. /\ Settled /\ ~booting /\ writes = <<>> /\ \A p \in Ops : op[p] = NoOp
        /\ made'.edits = 1
    BY <2>1, BeginsAlone
  <2>4. NotServing
    BY <2>1, <2>3 DEF Settled, Current
  <2>5. NotServing' /\ UNCHANGED <<writes, booting>>
    BY <1>1, <2>4 DEF Add, NotServing, instances
  <2>6. op'[o] = Op("add", "deriving", None, Row(flag, 1)) /\ \A p \in Ops : p # o => op'[p] = op[p]
    BY <1>0, <2>2 DEF Enter
  <2>7. Adding(o)'
    BY <2>2, <2>3, <2>5, <2>6 DEF Adding, Op, Row, Current
  <2> QED BY <2>3, <2>5, <2>6, <2>7 DEF Phases, Only
<1>2. CASE Update(o) \/ SetAuth(o)
  <2>1. Begin(1) /\ live # None /\ record # NoRow /\ UNCHANGED <<live, routed, config, record, booting, intended>>
    BY <1>2 DEF Update, SetAuth, instances
  <2>2. /\ Settled /\ ~booting /\ writes = <<>> /\ \A p \in Ops : op[p] = NoOp
        /\ made.edits \in Nat /\ made'.edits = made.edits + 1
    BY <2>1, BeginsAlone
  <2>3. Serving /\ Current(record) /\ config[live] = record.edit
    BY <2>1, <2>2 DEF Settled
  <2>4. Patched.edit = made.edits + 1 /\ Patched.flag = record.flag
    BY DEF Patched, Row
  <2>5. Serving' /\ Current(record)'
    BY <2>1, <2>2, <2>3 DEF Current, Serving
  <2>6. PICK pc \in {"storing", "saving"} :
          /\ Enter(o, Op("edit", pc, live, Patched))
          /\ pc = "saving" => Save(Patched, o)
          /\ pc = "storing" => UNCHANGED writes
    BY <1>2 DEF Update, SetAuth
  <2>7. op'[o] = Op("edit", pc, live, Patched) /\ \A p \in Ops : p # o => op'[p] = op[p]
    BY <1>0, <2>6 DEF Enter
  <2>8. /\ op'[o].kind = "edit" /\ op'[o].pc = pc /\ op'[o].old = live' /\ op'[o].row = Patched
    BY <2>1, <2>7 DEF Op
  <2>10. Current(op[o].row)'
    BY <2>1, <2>2, <2>3, <2>4, <2>8 DEF Current
  <2>11. CASE pc = "storing"
    <3>1. writes' = <<>> /\ Settled'
      BY <2>1, <2>2, <2>3, <2>5, <2>6, <2>11 DEF Settled
    <3>2. Editing(o)'
      BY <2>5, <2>8, <2>10, <2>11, <3>1 DEF Editing
    <3> QED BY <2>1, <2>2, <2>7, <3>2 DEF Phases, Only
  <2>12. CASE pc = "saving"
    <3>1. writes' = <<[row |-> Patched, by |-> o]>>
      BY <2>2, <2>6, <2>12, OneWrite DEF Save
    <3>2. Put(op[o].row, o)'
      BY <2>8, <3>1 DEF Put, Queued
    <3>3. Editing(o)'
      BY <2>5, <2>8, <2>10, <2>12, <3>2 DEF Editing
    <3> QED BY <2>1, <2>2, <2>7, <3>3 DEF Phases, Only
  <2> QED BY <2>11, <2>12
<1>3. CASE Remove(o)
  <2>1. /\ Begin(0) /\ Dispose(live) /\ live' = None /\ Save(NoRow, o) /\ UNCHANGED booting
        /\ Enter(o, Op("remove", "saving", None, NoRow)) /\ live # None
    BY <1>3 DEF Remove
  <2>2. /\ Settled /\ ~booting /\ writes = <<>> /\ \A p \in Ops : op[p] = NoOp
    BY <2>1, BeginsAlone
  <2>3. NotServing'
    BY <2>1, <2>2 DEF Settled, Serving, NotServing, Dispose
  <2>4. Queued(NoRow, o)'
    BY <2>1, <2>2, FirstWrite
  <2>5. op'[o] = Op("remove", "saving", None, NoRow) /\ \A p \in Ops : p # o => op'[p] = op[p]
    BY <1>0, <2>1 DEF Enter
  <2>6. Removing(o)'
    BY <2>3, <2>4, <2>5 DEF Removing, Op, Put
  <2> QED BY <2>1, <2>2, <2>5, <2>6 DEF Phases, Only
<1> QED BY <1>1, <1>2, <1>3

LEMMA SetEnabledAlone ==
  ASSUME TypeOK, AloneInv, SetEnabled
  PROVE  AloneInv'
<1> SUFFICES ASSUME alone' PROVE Phases'
  BY DEF AloneInv
<1>1. /\ Begin(0) /\ live # None
      /\ UNCHANGED <<record, live, disposed, config, booting, op>>
  BY DEF SetEnabled
<1>2. PICK flag \in Flag :
        /\ routed' = IF flag = "on" THEN routed \cup {live} ELSE routed \ {live}
        /\ IF record # NoRow THEN Save(Row(flag, record.edit), Nobody) ELSE UNCHANGED writes
        /\ intended' = flag
  BY DEF SetEnabled
<1>3. /\ Settled /\ ~booting /\ writes = <<>> /\ \A p \in Ops : op[p] = NoOp
      /\ made'.edits = made.edits
  BY <1>1, BeginsAlone
<1>4. Serving /\ Current(record) /\ config[live] = record.edit /\ record # NoRow
  BY <1>1, <1>3, CurrentIsRow DEF Settled, NotServing
<1> DEFINE row == Row(flag, record.edit)
<1>5. row.edit = record.edit /\ row.flag = flag
  BY DEF Row
<1>6. writes' = <<[row |-> row, by |-> Nobody]>>
  BY <1>2, <1>3, <1>4, OneWrite DEF Save
<1> HIDE DEF row
<1>7. writes' # <<>> /\ Head(writes').row = row /\ Queued(Head(writes).row, Nobody)'
  BY <1>6, OneWrite DEF Queued
<1>8. routed' = IF flag = "on" THEN {live} ELSE {}
  BY <1>2, <1>4 DEF Serving
<1>9. Serving'
  BY <1>1, <1>2, <1>4, <1>8 DEF Serving
<1>10. row.edit \in 1..made'.edits /\ row.flag = intended' /\ config'[live'] = row.edit
  BY <1>1, <1>2, <1>3, <1>4, <1>5 DEF Current
<1>11. Toggled'
  BY <1>7, <1>9, <1>10 DEF Toggled, Current
<1>12. Idle'
  BY <1>1, <1>3 DEF Idle
<1> QED BY <1>11, <1>12 DEF Phases

LEMMA WriteAlone ==
  ASSUME TypeOK, AloneInv, Write
  PROVE  AloneInv'
<1>1. /\ writes # <<>> /\ record' = Head(writes).row /\ writes' = Tail(writes)
      /\ UNCHANGED <<live, routed, disposed, config, booting, op, made, intended, alone>>
  BY DEF Write, instances, history
<1> SUFFICES ASSUME alone PROVE Phases'
  BY <1>1 DEF AloneInv
<1>2. ASSUME NEW row, NEW by, Queued(row, by)
      PROVE  Put(row, by)' /\ record' = row /\ writes' = <<>>
  BY <1>1, <1>2, OneWrite DEF Queued, Put
<1>3. Serving' = Serving /\ NotServing' = NotServing
  BY <1>1 DEF Serving, NotServing
<1>4. ASSUME Idle, Toggled PROVE Quiet' /\ Settled'
  <2>1. record' = Head(writes).row /\ writes' = <<>>
    BY <1>2, <1>4 DEF Toggled
  <2>2. Idle'
    BY <1>1, <1>4 DEF Idle
  <2>3. Serving' /\ Current(record)' /\ config'[live'] = record'.edit
    BY <1>1, <1>3, <1>4, <2>1 DEF Toggled, Current
  <2> QED BY <2>1, <2>2, <2>3 DEF Quiet, Settled
<1>5. ASSUME NEW o \in Ops, Only(o) PROVE Only(o)'
  <2>1. ~booting' /\ \A p \in Ops : p # o => op'[p] = NoOp
    BY <1>1, <1>5 DEF Only
  <2>2. CASE Adding(o)
    <3>1. op[o].pc = "saving" /\ Queued(op[o].row, o)
      BY <1>1, <2>2 DEF Adding, Put
    <3>2. Put(op[o].row, o)'
      BY <1>1, <1>2, <3>1
    <3> QED BY <1>1, <1>3, <2>1, <2>2, <3>1, <3>2 DEF Adding, Only, Current
  <2>3. CASE Editing(o)
    <3>1. op[o].pc = "saving" /\ Queued(op[o].row, o)
      BY <1>1, <2>3 DEF Editing, Put
    <3>2. Put(op[o].row, o)'
      BY <1>1, <1>2, <3>1
    <3> QED BY <1>1, <1>3, <2>1, <2>3, <3>1, <3>2 DEF Editing, Only, Current
  <2>4. CASE Removing(o)
    <3>1. Queued(NoRow, o)
      BY <1>1, <2>4 DEF Removing, Put
    <3>2. Put(NoRow, o)'
      BY <1>2, <3>1
    <3> QED BY <1>1, <1>3, <2>1, <2>4, <3>2 DEF Removing, Only
  <2> QED BY <1>5, <2>2, <2>3, <2>4 DEF Only
<1> QED BY <1>1, <1>4, <1>5 DEF AloneInv, Phases, Quiet

LEMMA RestartAlone ==
  ASSUME TypeOK, AloneInv, Restart
  PROVE  AloneInv'
<1> SUFFICES ASSUME alone' PROVE Phases'
  BY DEF AloneInv
<1>1. /\ live' = None /\ routed' = {} /\ op' = [o \in Ops |-> NoOp] /\ booting' = (record # NoRow)
      /\ writes' = <<>> /\ UNCHANGED <<record, config, intended>> /\ made'.edits = made.edits
  BY DEF Restart, TypeOK
<1>2. Settled
  BY BeginsSettled DEF Restart
<1>3. NotServing' /\ \A o \in Ops : op'[o] = NoOp
  BY <1>1 DEF NotServing
<1>4. CASE record = NoRow
  <2>1. Quiet' /\ Settled'
    BY <1>1, <1>3, <1>4 DEF Quiet, Idle, Settled
  <2> QED BY <2>1 DEF Phases
<1>5. CASE record # NoRow
  <2>1. Current(record)'
    BY <1>1, <1>2, <1>5 DEF Settled, Current
  <2> QED BY <1>1, <1>3, <1>5, <2>1 DEF Phases
<1> QED BY <1>4, <1>5

LEMMA AssembleBuilds ==
  ASSUME TypeOK, NEW row \in Rows, Assemble(row)
  PROVE  /\ Assembled \in Gens /\ Assembled # None /\ config'[Assembled] = row.edit
         /\ made'.edits = made.edits
<1>1. Assembled \in Gens /\ Assembled # None
  BY AssembleType, InboundAssumption DEF Gens, None
<1>2. config' = [config EXCEPT ![Assembled] = row.edit] /\ made' = [made EXCEPT !.gens = @ + 1]
  BY DEF Assemble, Assembled
<1> QED BY <1>1, <1>2 DEF TypeOK

LEMMA BootAlone ==
  ASSUME TypeOK, AloneInv, Boot
  PROVE  AloneInv'
<1>1. /\ booting /\ Assemble(record) /\ live' = Assembled /\ booting' = FALSE
      /\ routed' = IF record.flag = "on" THEN {Assembled} ELSE {}
      /\ UNCHANGED <<record, writes, disposed, op, intended, alone>>
  BY DEF Boot, history
<1> SUFFICES ASSUME alone PROVE Phases'
  BY <1>1 DEF AloneInv
<1>2. (\A o \in Ops : op[o] = NoOp) /\ writes = <<>> /\ Current(record)
  BY <1>1 DEF AloneInv, Phases, Quiet, Idle, Only
<1>3. /\ Assembled \in Gens /\ Assembled # None /\ config'[Assembled] = record.edit
      /\ made'.edits = made.edits
  BY <1>1, AssembleBuilds DEF TypeOK
<1>4. Quiet'
  BY <1>1, <1>2 DEF Quiet, Idle
<1>5. Settled'
  BY <1>1, <1>2, <1>3 DEF Settled, Serving, Current
<1> QED BY <1>4, <1>5 DEF Phases

\* What is not queued has been written.
LEMMA SavedIsWritten ==
  ASSUME NEW row, NEW o, Put(row, o), Saved(o)
  PROVE  writes = <<>> /\ record = row
BY OneWrite DEF Put, Queued, Saved

LEMMA ContinueAlone ==
  ASSUME TypeOK, AloneInv, NEW o \in Ops, Continue(o)
  PROVE  AloneInv'
<1>1. alone' = alone /\ intended' = intended /\ booting' = booting /\ record' = record
      /\ op[o].kind # "none"
  BY DEF Continue, AddSaves, AddEnds, TokenStored, EditSaved, Swap, RemoveEnds, At,
         SkillsDerived, history
<1> SUFFICES ASSUME alone PROVE Phases'
  BY <1>1 DEF AloneInv
<1>2. Only(o)
  BY <1>1, GoesOnAlone
<1>3. op \in [Ops -> Operations] /\ ~booting' /\ op[o].row \in Rows
  BY <1>1, <1>2 DEF TypeOK, Only, Operations
<1>4. ASSUME NEW pc \in {"saving", "deriving"}, Goto(o, pc)
      PROVE  /\ op'[o].kind = op[o].kind /\ op'[o].old = op[o].old /\ op'[o].row = op[o].row
             /\ op'[o].pc = pc /\ \A p \in Ops : p # o => op'[p] = NoOp
  <2>1. op[o] \in Operations
    BY <1>3
  <2>2. op'[o] = [op[o] EXCEPT !.pc = pc] /\ \A p \in Ops : p # o => op'[p] = op[p]
    BY <1>3, <1>4 DEF Goto
  <2> QED BY <1>2, <2>1, <2>2 DEF Operations, Only
<1>5. ASSUME Finish(o) PROVE Idle' /\ \A p \in Ops : op'[p] = NoOp
  BY <1>2, <1>3, <1>5 DEF Finish, Only, Idle
<1>6. ASSUME Assemble(op[o].row)
      PROVE  /\ Assembled # None /\ config'[Assembled] = op[o].row.edit
             /\ made'.edits = made.edits
  BY <1>3, <1>6, AssembleBuilds
<1>7. CASE AddSaves(o)
  <2>1. Adding(o) /\ writes = <<>>
    BY <1>2, <1>7 DEF AddSaves, SkillsDerived, At, Only, Adding, Editing, Removing
  <2>2. Queued(op[o].row, o)' /\ op'[o].row = op[o].row
    <3>1. writes' = <<[row |-> op[o].row, by |-> o]>>
      BY <1>7, <2>1, OneWrite DEF AddSaves, Save
    <3> QED BY <1>4, <1>7, <3>1 DEF AddSaves, Queued
  <2>3. Adding(o)'
    BY <1>1, <1>4, <1>7, <2>1, <2>2 DEF AddSaves, Adding, NotServing, Current, Put, instances
  <2> QED BY <1>3, <1>4, <1>7, <2>3 DEF AddSaves, Phases, Only
<1>8. CASE AddEnds(o)
  <2>1. Adding(o) /\ Put(op[o].row, o) /\ Saved(o)
    BY <1>2, <1>8 DEF AddEnds, At, Only, Adding, Editing, Removing
  <2>2. writes = <<>> /\ record = op[o].row
    BY <2>1, SavedIsWritten
  <2>3. /\ live' = Assembled /\ Assemble(op[o].row) /\ Finish(o) /\ writes' = writes
        /\ routed' = IF op[o].row.flag = "on" THEN routed \cup {Assembled} ELSE routed
    BY <1>8 DEF AddEnds
  <2>4. Quiet'
    BY <1>5, <2>2, <2>3 DEF Quiet
  <2>5. Serving' /\ Current(record)'
    BY <1>1, <1>6, <2>1, <2>2, <2>3 DEF Adding, NotServing, Serving, Current
  <2>6. config'[live'] = record'.edit
    BY <1>1, <1>6, <2>2, <2>3
  <2> QED BY <2>4, <2>5, <2>6 DEF Phases, Settled
<1>9. CASE TokenStored(o)
  <2>1. Editing(o) /\ writes = <<>> /\ Settled
    BY <1>2, <1>9 DEF TokenStored, At, Only, Adding, Editing, Removing
  <2>2. UNCHANGED <<live, routed, config, made, record, intended>>
    BY <1>9 DEF TokenStored, instances, history
  <2>3. Settled' /\ Serving' /\ NotServing' = NotServing
    BY <2>1, <2>2 DEF Settled, Serving, NotServing, Current, Editing
  <2>4. CASE Save(op[o].row, o) /\ Goto(o, "saving")
    <3>1. writes' = <<[row |-> op[o].row, by |-> o]>>
      BY <2>1, <2>4, OneWrite DEF Save
    <3>2. Queued(op[o].row, o)'
      BY <1>4, <2>4, <3>1 DEF Queued
    <3>3. Editing(o)'
      BY <1>4, <2>1, <2>2, <2>3, <2>4, <3>2 DEF Editing, Current, Put
    <3> QED BY <1>3, <1>4, <2>4, <3>3 DEF Phases, Only
  <2>5. CASE Finish(o) /\ UNCHANGED writes
    <3>1. Quiet'
      BY <1>5, <2>1, <2>5 DEF Quiet
    <3> QED BY <2>3, <3>1 DEF Phases
  <2> QED BY <1>9, <2>4, <2>5 DEF TokenStored
<1>10. CASE EditSaved(o)
  <2>1. Editing(o) /\ Put(op[o].row, o) /\ Saved(o)
    BY <1>2, <1>10 DEF EditSaved, At, Only, Adding, Editing, Removing
  <2>2. writes = <<>> /\ record = op[o].row
    BY <2>1, SavedIsWritten
  <2>3. UNCHANGED <<live, routed, config, made, record, intended, writes>> /\ Goto(o, "deriving")
    BY <1>10 DEF EditSaved, instances, history
  <2>4. Editing(o)'
    BY <1>4, <2>1, <2>2, <2>3 DEF Editing, Serving, Current
  <2> QED BY <1>3, <1>4, <2>3, <2>4 DEF Phases, Only
<1>11. CASE Swap(o)
  <2>1. Editing(o) /\ writes = <<>> /\ record = op[o].row
    BY <1>2, <1>11 DEF Swap, SkillsDerived, At, Only, Adding, Editing, Removing
  <2>2. /\ live' = Assembled /\ Assemble(op[o].row) /\ Finish(o) /\ writes' = writes
        /\ routed' = (routed \ {op[o].old}) \cup
             (IF op[o].old \in routed \/ op[o].row.flag = "on" THEN {Assembled} ELSE {})
    BY <1>11 DEF Swap
  <2>3. Quiet'
    BY <1>5, <2>1, <2>2 DEF Quiet
  <2>4. op[o].old = live /\ Serving /\ Current(op[o].row)
    BY <2>1 DEF Editing
  <2>5. routed' = IF intended = "on" THEN {Assembled} ELSE {}
    BY <2>2, <2>4 DEF Serving, Current
  <2>6. Serving' /\ Current(record)'
    BY <1>1, <1>6, <2>1, <2>2, <2>4, <2>5 DEF Serving, Current
  <2>7. config'[live'] = record'.edit
    BY <1>1, <1>6, <2>1, <2>2
  <2> QED BY <2>3, <2>6, <2>7 DEF Phases, Settled
<1>12. CASE RemoveEnds(o)
  <2>1. Removing(o) /\ Put(NoRow, o) /\ Saved(o)
    BY <1>2, <1>12 DEF RemoveEnds, At, Only, Adding, Editing, Removing
  <2>2. writes = <<>> /\ record = NoRow
    BY <2>1, SavedIsWritten
  <2>3. UNCHANGED <<live, routed, record, writes>> /\ Finish(o)
    BY <1>12 DEF RemoveEnds, instances, history
  <2>4. Quiet' /\ NotServing' /\ record' = NoRow
    BY <1>5, <2>1, <2>2, <2>3 DEF Quiet, Removing, NotServing
  <2> QED BY <2>4 DEF Phases, Settled
<1> QED BY <1>7, <1>8, <1>9, <1>10, <1>11, <1>12 DEF Continue

\* While operations come one at a time the instance, its routes and the record say
\* the same once each has ended, through edits, toggles and restarts.
THEOREM InstanceGoesByRecord == Spec => []InstanceMatchesRecord
<1>1. Init => AloneInv
  <2>1. Init => Quiet /\ NotServing /\ record = NoRow
    BY DEF Init, Quiet, Idle, NotServing
  <2> QED BY <2>1 DEF AloneInv, Phases, Settled
<1>2. InstanceInvariant /\ AloneInv /\ [Next]_vars => AloneInv'
  <2> SUFFICES ASSUME TypeOK, AloneInv, [Next]_vars PROVE AloneInv'
    BY DEF InstanceInvariant
  <2>1. CASE UNCHANGED vars
    BY <2>1 DEF AloneInv, Phases, Quiet, Idle, Settled, Toggled, Only, Adding, Editing, Removing,
                Put, Queued, Current, Serving, NotServing, vars, instances, history
  <2> QED BY <2>1, BeginnersAlone, SetEnabledAlone, WriteAlone, RestartAlone, BootAlone,
             ContinueAlone DEF Next
<1>3. InstanceInvariant /\ AloneInv => InstanceMatchesRecord
  <2> SUFFICES ASSUME TypeOK, AloneInv, alone, Quiet PROVE InstanceMatchesRecord
    BY DEF InstanceInvariant, InstanceMatchesRecord
  <2>1. Settled
    BY BeginsSettled
  <2>2. Current(record) => record # NoRow
    BY CurrentIsRow
  <2> QED BY <2>1, <2>2 DEF InstanceMatchesRecord, Settled, Serving, NotServing, Current
<1> QED BY <1>1, <1>2, <1>3, InstancesCorrect, PTL DEF Spec
=============================================================================
