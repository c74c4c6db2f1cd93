------------------------------ MODULE MCDashboard ------------------------------
(* A small instance of Dashboard.                                              *)
EXTENDS Dashboard, TLC

\* One inbound server that has a token, and no outbound one.
MCCreated == [inbound |-> <<[id |-> 1, token |-> "t1"]>>, outbound |-> <<>>]
=============================================================================
