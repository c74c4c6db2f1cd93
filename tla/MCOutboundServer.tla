--------------------------- MODULE MCOutboundServer ---------------------------
(* Small instances of OutboundServer: the .cfg files give the constants.  No   *)
(* symmetry, because the passing run checks a liveness property.               *)
EXTENDS OutboundServer
=============================================================================
