---------------------------- MODULE MCMirrorNet ----------------------------
(* Model values for MirrorNet: experiments are interchangeable.             *)
EXTENDS MirrorNet, TLC

Symmetry == Permutations(Exp)

=============================================================================
