---------------------------- MODULE MCTnfsClient ----------------------------
(* Small instances of TnfsClient for TLC.                                  *)
EXTENDS TnfsClient
=============================================================================
