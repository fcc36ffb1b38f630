----------------------------- MODULE MCScorchCC -----------------------------
(* Model values for ScorchCC are assigned in the configurations.            *)
EXTENDS ScorchCC
=============================================================================
