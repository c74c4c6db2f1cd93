----------------------------- MODULE MCInboundTasks -----------------------------
(* A small instance of InboundTasks.                                            *)
EXTENDS InboundTasks, TLC

CONSTANTS t1, t2, p1, p2, c1, c2

Symmetry == Permutations(Tasks) \cup Permutations(Peers) \cup Permutations(Calls)
=============================================================================
