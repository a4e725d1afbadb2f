----------------------------- MODULE MCCheckpoints -----------------------------
(* Instances of Checkpoints for TLC.                                       *)
EXTENDS Checkpoints, TLC

Parameters2 == <<"means", "variances">>
Symmetry == Permutations(Mappings) \cup Permutations(Updates)
=============================================================================
