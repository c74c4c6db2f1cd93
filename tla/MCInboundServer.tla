---------------------------- MODULE MCInboundServer ----------------------------
(* Small instances of InboundServer: the .cfg files give the constants.  No     *)
(* symmetry, because the passing run checks a liveness property.                *)
EXTENDS InboundServer
=============================================================================
