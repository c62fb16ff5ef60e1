---------------------------- MODULE MCDhcpServer ----------------------------
(* A pool of two addresses for three clients.                              *)
EXTENDS DhcpServer, TLC

ClientSymmetry == Permutations(Clients)
=============================================================================
