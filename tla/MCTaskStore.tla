------------------------------ MODULE MCTaskStore ------------------------------
(* A small instance of TaskStore.                                              *)
EXTENDS TaskStore, TLC

CONSTANTS i1, i2, m0, m1

Record(owner, state, m, at) ==
  [owner |-> owner, state |-> state, why |-> FALSE, parts |-> m, inputs |-> <<m>>,
   ids |-> {m}, at |-> at, rev |-> 0]

\* A new domain; one with a record older than the inputs; two newer ones of one instance.
MCTables ==
  {[t \in Tasks |-> NoTask],
   [t \in Tasks |-> IF t = 1 THEN [Record(i1, "INPUT_REQUIRED", m0, 1) EXCEPT !.inputs = Absent]
                             ELSE NoTask],
   [t \in Tasks |-> Record(i1, "INPUT_REQUIRED", m0, t)]}
=============================================================================
