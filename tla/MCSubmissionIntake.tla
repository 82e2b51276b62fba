-------------------------- MODULE MCSubmissionIntake --------------------------
(* Instances of SubmissionIntake for TLC. *)
EXTENDS SubmissionIntake, TLC

Symmetry == Permutations(Users) \union Permutations(Files) \union Permutations(Requests)
=============================================================================
