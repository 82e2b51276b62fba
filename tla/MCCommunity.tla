----------------------------- MODULE MCCommunity -----------------------------
(* Instances of Community for TLC. *)
EXTENDS Community, TLC

MCSubmissionBadges ==
  <<[code |-> "FIRST_SUBMISSION", threshold |-> 1], [code |-> "TEN_SUBMISSIONS", threshold |-> 2]>>

Symmetry == Permutations(Handlers) \union Permutations(Replicas)
=============================================================================
