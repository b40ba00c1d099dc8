---------------------------- MODULE MCDhcpServer ----------------------------
(* Three stations compete for two addresses.  The clock wraps after 8 ticks *)
(* and a lease lasts 2, the least range the assumptions allow.             *)
EXTENDS DhcpServer, TLC

CONSTANTS c1, c2, c3

MCClients == {c1, c2, c3}
MCRequestBytes == {15, 16, 17, 18}
Symmetry == Permutations(MCClients)
=============================================================================
