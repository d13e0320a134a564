------------------------------ MODULE MCCluster ------------------------------
(* The joining nodes are interchangeable.                                  *)
EXTENDS Cluster, TLC

Symmetry == Permutations(Nodes \ {Boot})

=============================================================================
