-------------------------------- MODULE MCTeams --------------------------------
(* Instances of Teams for TLC. *)
EXTENDS Teams, TLC

Symmetry == Permutations(Users) \union Permutations(Teams) \union Permutations(Calls)
=============================================================================
