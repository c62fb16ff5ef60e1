---------------------------- MODULE MCTnfsRelay ----------------------------
(* The instance of TnfsRelay that TLC checks: two names, and a server given *)
(* as an address; its constants are in the configuration file.              *)
EXTENDS TnfsRelay
=============================================================================
