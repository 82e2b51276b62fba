-------------------------- MODULE MCScoringPipeline ---------------------------
(* Instances of ScoringPipeline for TLC: two files, the public and private
   scores of which rank them in opposite orders. *)
EXTENDS ScoringPipeline, TLC

CONSTANTS f1, f2

MCPublicScore == (f1 :> 1) @@ (f2 :> 2)
MCPrivateScore == (f1 :> 5) @@ (f2 :> 3)

Symmetry == Permutations(Slots) \union Permutations(Requests)
=============================================================================
