------------------------ MODULE MCCompetitionLifecycle ------------------------
(* Instances of CompetitionLifecycle for TLC: two settings, one of which ends
   the competition within the clock values explored. *)
EXTENDS CompetitionLifecycle, TLC

CONSTANTS soon, late

MCEndsAt == (soon :> 0) @@ (late :> 1)

Symmetry == Permutations(Calls) \union Permutations(Crons)
=============================================================================
