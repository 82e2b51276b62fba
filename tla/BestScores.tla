------------------------------ MODULE BestScores ------------------------------
(***************************************************************************)
(* What a leaderboard promises: a user is on it from the first result that *)
(* is accepted, with the best public score and, apart from it, the best    *)
(* private score of all results so far, whatever their order.              *)
(***************************************************************************)
EXTENDS Integers

CONSTANTS
  Users,
  NoEntry

VARIABLES
  lower,     \* a smaller score wins
  accepted,  \* per user, the results so far
  best       \* per user, the scores shown, or NoEntry

vars == <<lower, accepted, best>>

NoWorse(a, b) == IF lower THEN a <= b ELSE a >= b

\* Of the results rs, r has the best score in a field.
IsBest(r, rs, field) == \A s \in rs : NoWorse(r[field], s[field])

Init ==
  /\ lower \in BOOLEAN
  /\ accepted = [u \in Users |-> {}]
  /\ best = [u \in Users |-> NoEntry]

\* A result, a record with pub and priv, that no file of u had before.
Accept(u) ==
  /\ \E result \in accepted'[u] \ accepted[u] :
       accepted' = [accepted EXCEPT ![u] = @ \union {result}]
  /\ \E r, s \in accepted'[u] :
       /\ IsBest(r, accepted'[u], "pub") /\ IsBest(s, accepted'[u], "priv")
       /\ best' = [best EXCEPT ![u] = [pub |-> r.pub, priv |-> s.priv]]
  /\ UNCHANGED lower

Next == \E u \in Users : Accept(u)

Spec == Init /\ [][Next]_vars
=============================================================================
