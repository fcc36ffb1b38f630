----------------------------- MODULE MCHostStats -----------------------------
(* The constants of HostStats are numbers given in the configuration.       *)
EXTENDS HostStats
=============================================================================
