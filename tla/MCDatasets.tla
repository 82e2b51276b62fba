------------------------------ MODULE MCDatasets ------------------------------
(* Instances of Datasets for TLC. *)
EXTENDS Datasets, TLC

Symmetry == Permutations(Handlers)
=============================================================================
