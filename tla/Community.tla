------------------------------ MODULE Community ------------------------------
(***************************************************************************)
(* Discussions and rewards together: a vote that leaves an item with       *)
(* HelpfulAt votes or more has the replica that served it evaluate the     *)
(* HELPFUL badge of the item's author.                                     *)
(***************************************************************************)
EXTENDS Discussions

CONSTANTS
  MaxRequests  \* bound: requests, an event counted as two

vars == <<boardVars, rewardVars>>

Init == BoardInit /\ RewardInit

Votes(h) == Up(Item(h)) + Delta(<<User(h), Item(h)>>, call[h].arg)

\* The handler of a vote answers, and the evaluation goes on by itself.
Vote(h, p) ==
  /\ vote(h)
  /\ IF Counts(h) /\ Votes(h) >= HelpfulAt
     THEN /\ jobs' = jobs \union {Job(p, -N(h), Author(Item(h)), "award", <<"HELPFUL">>)}
          /\ UNCHANGED <<follows, followers, following, scored, peak, badges, notes, events, seen>>
     ELSE UNCHANGED rewardVars

Next ==
  /\ \/ /\ (\E u \in Users : createTopic(u)) \/ (\E h \in Handlers : Write(h))
        /\ UNCHANGED rewardVars
     \/ \E h \in Handlers, p \in Replicas : Vote(h, p)
     \/ Reward /\ UNCHANGED boardVars
  /\ calls' + 2 * events' <= MaxRequests

Spec == Init /\ [][Next]_vars

-----------------------------------------------------------------------------
TypeOK == BoardTypeOK /\ RewardTypeOK

\* Whatever requests overlap, and whatever rows are deleted under them, the
\* stored counters agree with the rows they count: votes, replies, followers
\* (vote, createReply, deleteReply, deleteTopic, follow, unfollow).
CountersMatch == BoardCounters /\ FollowCounters
=============================================================================
