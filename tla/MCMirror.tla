------------------------------ MODULE MCMirror ------------------------------
(* Model values for Mirror: the cluster hosts are interchangeable, the      *)
(* receivers are not (they have their places in a list).                    *)
EXTENDS Mirror, TLC

Symmetry == Permutations(Host)

=============================================================================
