---------------------------- MODULE MCSessionPool ----------------------------
(* Small instances of SessionPool: the .cfg files give the constants.  No     *)
(* symmetry, because the passing run checks a liveness property.              *)
EXTENDS SessionPool
=============================================================================
