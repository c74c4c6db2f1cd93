---------------------------- MODULE MCOutboundCall ----------------------------
(* Small instances of OutboundCall: the .cfg files give the constants.        *)
EXTENDS OutboundCall
=============================================================================
