----------------------------- MODULE MCSetupAp -----------------------------
(* The instance of SetupAp that TLC checks: its constants are numbers and   *)
(* model values, which the configuration files give directly.               *)
EXTENDS SetupAp
=============================================================================
