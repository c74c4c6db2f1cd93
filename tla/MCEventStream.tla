---------------------------- MODULE MCEventStream ----------------------------
(* Small instances of EventStream: the .cfg files give the constants.  One    *)
(* client, for clients do not disturb each other.                             *)
EXTENDS EventStream
=============================================================================
