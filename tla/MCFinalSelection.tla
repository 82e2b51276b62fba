--------------------------- MODULE MCFinalSelection ---------------------------
(* Instances of FinalSelection for TLC: two rows of one user and one of
   another. *)
EXTENDS FinalSelection, TLC

CONSTANTS soon, u1, u2, r1, r2, r3

MCEndsAt == (soon :> 0)
MCOwner == [r \in Rows |-> IF r = r3 THEN u2 ELSE u1]
MCPrivateScore == [r \in Rows |-> IF r = r2 THEN 2 ELSE 1]

Symmetry == Permutations(Clicks) \union Permutations(Crons)
=============================================================================
