-------------------------- MODULE MCClusterImport --------------------------
(* Instances of ClusterImport for TLC. *)
EXTENDS ClusterImport, TLC

\* Generated names are interchangeable.
Symmetry == Permutations(RancherIds)
=============================================================================
