----------------------------- MODULE Discussions -----------------------------
(***************************************************************************)
(* The discussion board of one competition: topics, replies, votes.        *)
(*                                                                         *)
(* A handler checks what it needs, then writes in one transaction; other   *)
(* handlers run between the two.  A request that a check refuses, or that  *)
(* the database aborts for a serialization conflict, changes nothing and   *)
(* is not a step.  Titles and texts are left out: text is the request that *)
(* wrote the one an item shows.  A row is named by the request that        *)
(* created it (a UUID, never used again).  Every user is enrolled.  The    *)
(* service calls BadgeService: Community joins the two.                    *)
(***************************************************************************)
EXTENDS Rewards, Functions

CONSTANTS
  Host,       \* competition.hostId
  Admin,      \* a user with the role ADMIN
  Handlers,   \* requests in flight at one time
  None,       \* null
  MaxCalls    \* bound: requests that pass their checks

ASSUME DiscussionsAssumption ==
  /\ MaxCalls \in Nat /\ None \notin Nat \union Users
  /\ IsFiniteSet(Handlers)

VARIABLES
  discussion,  \* topics: author, counters, pinned, text
  reply,       \* replies: their topic, author, parent, counter, text
  votes,       \* <<user, item>> -> 1 or -1
  lost,        \* history, per topic: replies that went with their parent
  call,        \* per handler: what it has checked
  calls        \* requests begun

boardVars == <<discussion, reply, votes, lost, call, calls>>

Id == 1..MaxCalls
Topics == DOMAIN discussion
Replies == DOMAIN reply
Items == Topics \union Replies
RepliesOf(t) == {r \in Replies : reply[r].discussion = t}
Author(i) == IF i \in Topics THEN discussion[i].author ELSE reply[i].author
Up(i) == IF i \in Topics THEN discussion[i].up ELSE reply[i].up

Extend(f, x, y) == [k \in DOMAIN f \union {x} |-> IF k = x THEN y ELSE f[k]]

BoardInit ==
  /\ discussion = << >> /\ reply = << >> /\ votes = << >> /\ lost = << >>
  /\ call = [h \in Handlers |-> [op |-> "idle"]]
  /\ calls = 0

-----------------------------------------------------------------------------
At(h, op) == call[h].op = op
User(h) == call[h].user
Item(h) == call[h].item
N(h) == call[h].n

\* The handler's checks have passed.
Begin(h, op, u, i, arg) ==
  /\ At(h, "idle") /\ calls < MaxCalls
  /\ calls' = calls + 1
  /\ call' = [call EXCEPT ![h] = [op |-> op, n |-> calls + 1, user |-> u, item |-> i, arg |-> arg]]
  /\ UNCHANGED <<discussion, reply, votes, lost>>

End(h) == call' = [call EXCEPT ![h] = [op |-> "idle"]] /\ UNCHANGED calls

\* A row the transaction needs is gone: it is rolled back.
Rollback(h) == End(h) /\ UNCHANGED <<discussion, reply, votes, lost>>

createTopic(u) ==
  /\ calls < MaxCalls /\ calls' = calls + 1
  /\ discussion' = Extend(discussion, calls + 1,
       [author |-> u, up |-> 0, replies |-> 0, pinned |-> FALSE, text |-> calls + 1])
  /\ lost' = Extend(lost, calls + 1, 0)
  /\ UNCHANGED <<reply, votes, call>>

\* The parent is a reply of the first level, of this topic or of another one.
ReplyRequest(h, u, t, parent) ==
  /\ t \in Topics
  /\ parent # None => parent \in Replies /\ reply[parent].parent = None
  /\ Begin(h, "reply", u, t, parent)

\* Both foreign keys must hold when the row is inserted.
createReply(h) ==
  /\ At(h, "reply")
  /\ IF Item(h) \in Topics /\ call[h].arg \in Replies \union {None}
     THEN /\ reply' = Extend(reply, N(h), [discussion |-> Item(h), author |-> User(h),
                                           parent |-> call[h].arg, up |-> 0, text |-> N(h)])
          /\ discussion' = [discussion EXCEPT ![Item(h)].replies = @ + 1]
          /\ End(h) /\ UNCHANGED <<votes, lost>>
     ELSE Rollback(h)

VoteRequest(h, u, i, value) == i \in Items /\ Begin(h, "vote", u, i, value)

\* The same vote again takes it back, the other one turns it round.
Delta(v, value) ==
  IF v \notin DOMAIN votes THEN value ELSE IF votes[v] = value THEN -value ELSE 2 * value

\* The item is still there, and its counter would not fall below zero, which
\* the database refuses.
Counts(h) ==
  Item(h) \in Items /\ Up(Item(h)) + Delta(<<User(h), Item(h)>>, call[h].arg) >= 0

\* One Serializable transaction over the vote and the counter of the item.
vote(h) ==
  LET v == <<User(h), Item(h)>>
      value == call[h].arg
  IN  /\ At(h, "vote")
      /\ IF Counts(h)
         THEN /\ votes' = IF v \in DOMAIN votes /\ votes[v] = value
                          THEN Restrict(votes, DOMAIN votes \ {v}) ELSE Extend(votes, v, value)
              /\ IF Item(h) \in Topics
                 THEN discussion' = [discussion EXCEPT ![Item(h)].up = @ + Delta(v, value)] /\ UNCHANGED reply
                 ELSE reply' = [reply EXCEPT ![Item(h)].up = @ + Delta(v, value)] /\ UNCHANGED discussion
              /\ End(h) /\ UNCHANGED lost
         ELSE Rollback(h)

EditRequest(h, u, i) == i \in Items /\ Author(i) = u /\ Begin(h, "edit", u, i, None)

\* updateTopic, updateReply
Update(h) ==
  /\ At(h, "edit")
  /\ IF Item(h) \in Items
     THEN /\ IF Item(h) \in Topics
             THEN discussion' = [discussion EXCEPT ![Item(h)].text = N(h)] /\ UNCHANGED reply
             ELSE reply' = [reply EXCEPT ![Item(h)].text = N(h)] /\ UNCHANGED discussion
          /\ End(h) /\ UNCHANGED <<votes, lost>>
     ELSE Rollback(h)

PinRequest(h, u, t, isPinned) ==
  /\ t \in Topics /\ u \in {Host, Admin}
  /\ Begin(h, IF isPinned THEN "pin" ELSE "unpin", u, t, None)

pinTopic(h) ==
  /\ At(h, "pin") \/ At(h, "unpin")
  /\ IF Item(h) \in Topics
     THEN /\ discussion' = [discussion EXCEPT ![Item(h)].pinned = At(h, "pin")]
          /\ End(h) /\ UNCHANGED <<reply, votes, lost>>
     ELSE Rollback(h)

DeleteRequest(h, u, i) == i \in Items /\ u \in {Author(i), Admin} /\ Begin(h, "delete", u, i, None)

\* Faulty variant: the replies to a reply stay.
CascadeOnce(i) == {r \in Replies : i \in {r, reply[r].discussion}}

\* Deleting a topic or a reply deletes the rows that refer to it, and those
\* that refer to them; the votes stay.
Cascade(i) ==
  LET first == {r \in Replies : i \in {r, reply[r].discussion, reply[r].parent}}
  IN  first \union {r \in Replies : reply[r].parent \in first}

Remove(i, counted) ==
  /\ reply' = Restrict(reply, Replies \ Cascade(i))
  /\ lost' = [t \in Topics \ {i} |-> lost[t] + Cardinality((RepliesOf(t) \intersect Cascade(i)) \ {i})]
  /\ discussion' = [t \in Topics \ {i} |-> [discussion[t] EXCEPT !.replies = @ - counted[t]]]
  /\ UNCHANGED votes

\* Faulty variant: the counter falls even when the reply is gone.
DeleteCountsTwice(h) ==
  /\ At(h, "delete")
  /\ IF Item(h) \in Items
     THEN Remove(Item(h), [t \in Topics |-> IF Item(h) \in RepliesOf(t) THEN 1 ELSE 0]) /\ End(h)
     ELSE /\ discussion' = [t \in Topics |-> [discussion[t] EXCEPT !.replies = @ - 1]]
          /\ End(h) /\ UNCHANGED <<reply, votes, lost>>

\* deleteTopic; deleteReply counts its topic down by one in the same
\* transaction, whatever the number of replies that go.
Delete(h) ==
  /\ At(h, "delete")
  /\ IF Item(h) \in Items
     THEN Remove(Item(h), [t \in Topics |-> IF Item(h) \in RepliesOf(t) THEN 1 ELSE 0]) /\ End(h)
     ELSE Rollback(h)

\* Every step but the votes.
Write(h) ==
  \/ \E u \in Users, t \in Id, parent \in Id \union {None} : ReplyRequest(h, u, t, parent)
  \/ \E u \in Users, i \in Id, value \in {1, -1} : VoteRequest(h, u, i, value)
  \/ \E u \in Users, i \in Id : EditRequest(h, u, i) \/ DeleteRequest(h, u, i)
  \/ \E u \in Users, t \in Id, isPinned \in BOOLEAN : PinRequest(h, u, t, isPinned)
  \/ createReply(h) \/ Update(h) \/ pinTopic(h) \/ Delete(h)

-----------------------------------------------------------------------------
BoardTypeOK ==
  /\ calls \in 0..MaxCalls
  /\ Topics \subseteq 1..calls /\ Replies \subseteq (1..calls) \ Topics
  /\ \A t \in Topics : discussion[t] \in
       [author : Users, up : Nat, replies : Int, pinned : BOOLEAN, text : Id]
  /\ \A r \in Replies : reply[r] \in
       [discussion : Topics, author : Users, parent : Replies \union {None}, up : Nat, text : Id]
  /\ DOMAIN votes \subseteq Users \X (1..calls) /\ \A v \in DOMAIN votes : votes[v] \in {1, -1}
  /\ lost \in [Topics -> Nat]
  /\ \A h \in Handlers : ~At(h, "idle") => User(h) \in Users /\ Item(h) \in 1..calls /\ N(h) \in 1..calls

VotesOf(i, value) == {v \in DOMAIN votes : v[2] = i /\ votes[v] = value}

\* The score of an item is the sum of the votes on it, and the reply count of
\* a topic is the number of its replies plus those that were deleted with
\* their parent, which deleteReply does not count down (vote, createReply,
\* deleteReply, deleteTopic).
BoardCounters ==
  /\ \A t \in Topics : discussion[t].replies = Cardinality(RepliesOf(t)) + lost[t]
  /\ \A i \in Items : Up(i) = Cardinality(VotesOf(i, 1)) - Cardinality(VotesOf(i, -1))
=============================================================================
