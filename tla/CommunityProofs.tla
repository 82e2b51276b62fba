---------------------------- MODULE CommunityProofs ----------------------------
(***************************************************************************)
(* What TLAPS proves of Community, for every number of users, requests and *)
(* replicas, every table of badges and every number of votes that makes an *)
(* item helpful.                                                           *)
(***************************************************************************)
EXTENDS Community, FiniteSetTheorems, SequenceTheorems, TLAPS

-----------------------------------------------------------------------------
\* The board.

Request ==
  [op : {"reply", "vote", "edit", "pin", "unpin", "delete"}, n : 1..calls, user : Users,
   item : 1..calls, arg : (1..calls) \union {None, 1, -1}]

CallTypes ==
  /\ DOMAIN call = Handlers
  /\ \A h \in Handlers : ~At(h, "idle") =>
       /\ call[h] \in Request
       /\ At(h, "vote") => call[h].arg \in {1, -1}
       /\ At(h, "reply") => call[h].arg \in (1..calls) \union {None}

\* The row a pending reply will create is nobody's yet: no item, no parent of
\* another pending reply, and no vote bears its number.
FreshRows ==
  /\ \A h, g \in Handlers : h # g /\ ~At(h, "idle") /\ ~At(g, "idle") => N(h) # N(g)
  /\ \A h \in Handlers : At(h, "reply") =>
       /\ N(h) \notin Items
       /\ \A v \in DOMAIN votes : v[2] # N(h)
       /\ \A g \in Handlers : At(g, "reply") => call[g].arg # N(h)

\* Replies have two levels, and the parent of a pending one is of the first.
TwoLevels ==
  /\ \A r \in Replies : reply[r].parent # None => reply[reply[r].parent].parent = None
  /\ \A h \in Handlers : At(h, "reply") /\ call[h].arg \in Replies => reply[call[h].arg].parent = None

BoardInv == BoardTypeOK /\ CallTypes /\ FreshRows /\ TwoLevels /\ BoardCounters

LEMMA BoardInitInv == BoardInit => BoardInv
<1> SUFFICES ASSUME BoardInit PROVE BoardInv
  OBVIOUS
<1>1. /\ Topics = {} /\ Replies = {} /\ DOMAIN votes = {} /\ lost = << >> /\ DOMAIN lost = {} /\ calls = 0
      /\ DOMAIN call = Handlers /\ \A h \in Handlers : At(h, "idle")
  BY DEF BoardInit, Topics, Replies, At
<1>2. lost \in [Topics -> Nat]
  BY <1>1, SMT
<1>3. Items = {} /\ calls \in 0..MaxCalls
  BY <1>1, DiscussionsAssumption DEF Items
<1>4. BoardTypeOK
  BY <1>1, <1>2, <1>3 DEF BoardTypeOK
<1>5. CallTypes /\ FreshRows
  BY <1>1, Zenon DEF CallTypes, FreshRows, At
<1>6. TwoLevels /\ BoardCounters
  BY <1>1, <1>3 DEF TwoLevels, BoardCounters
<1> QED
  BY <1>4, <1>5, <1>6 DEF BoardInv

LEMMA RowsAreFinite ==
  ASSUME BoardTypeOK
  PROVE  IsFiniteSet(Replies) /\ IsFiniteSet(DOMAIN votes)
<1>1. calls \in Nat /\ IsFiniteSet(1..calls)
  BY FS_Interval, DiscussionsAssumption DEF BoardTypeOK
<1>2. IsFiniteSet(Replies)
  BY <1>1, FS_Subset DEF BoardTypeOK
<1>3. IsFiniteSet(Users \X (1..calls))
  BY <1>1, FS_Product, RewardsAssumption
<1>4. IsFiniteSet(DOMAIN votes)
  BY <1>3, FS_Subset DEF BoardTypeOK
<1> QED
  BY <1>2, <1>4

LEMMA NoneIsNoRow ==
  ASSUME BoardTypeOK
  PROVE  None \notin 1..calls /\ None \notin Items /\ None \notin Replies
<1>1. None \notin 1..calls
  BY DiscussionsAssumption DEF BoardTypeOK
<1> QED
  BY <1>1 DEF BoardTypeOK, Items

\* A request has passed its checks.
LEMMA BeginInv ==
  ASSUME BoardInv, NEW h \in Handlers, NEW u \in Users, NEW i \in Items,
         NEW op \in {"reply", "vote", "edit", "pin", "unpin", "delete"}, NEW arg,
         op = "vote" => arg \in {1, -1},
         op = "reply" => arg = None \/ (arg \in Replies /\ reply[arg].parent = None),
         op \notin {"vote", "reply"} => arg = None,
         Begin(h, op, u, i, arg)
  PROVE  BoardInv'
<1>1. /\ At(h, "idle") /\ calls < MaxCalls /\ calls' = calls + 1
      /\ call' = [call EXCEPT ![h] = [op |-> op, n |-> calls + 1, user |-> u, item |-> i, arg |-> arg]]
      /\ UNCHANGED <<discussion, reply, votes, lost>>
  BY DEF Begin
<1>2. BoardTypeOK /\ CallTypes /\ FreshRows /\ TwoLevels /\ BoardCounters
  BY DEF BoardInv
<1>3. calls \in Nat /\ MaxCalls \in Nat /\ calls' \in 0..MaxCalls /\ 1..calls \subseteq 1..calls'
  BY <1>1, <1>2, DiscussionsAssumption DEF BoardTypeOK
<1>4. Items \subseteq 1..calls /\ Replies \subseteq 1..calls
  BY <1>2 DEF BoardTypeOK, Items
<1>5. Topics' = Topics /\ Replies' = Replies /\ Items' = Items
  BY <1>1 DEF Topics, Replies, Items
<1>6. PICK new : new = [op |-> op, n |-> calls + 1, user |-> u, item |-> i, arg |-> arg]
  OBVIOUS
<1>7. /\ call'[h] = new /\ DOMAIN call' = Handlers
      /\ \A g \in Handlers \ {h} : call'[g] = call[g]
  BY <1>1, <1>2, <1>6 DEF CallTypes
<1>8. new.op = op /\ new.n = calls + 1 /\ new.item = i /\ new.arg = arg /\ new \in Request'
  <2>1. calls + 1 \in 1..calls' /\ i \in 1..calls'
    BY <1>1, <1>3, <1>4
  <2>2. arg \in (1..calls') \union {None, 1, -1}
    BY <1>3, <1>4
  <2> QED
    BY <1>6, <2>1, <2>2 DEF Request
<1>9. \A g \in Handlers : ~At(g, "idle")' =>
        /\ call'[g] \in Request'
        /\ At(g, "vote")' => call'[g].arg \in {1, -1}
        /\ At(g, "reply")' => call'[g].arg \in (1..calls') \union {None}
  <2> SUFFICES ASSUME NEW g \in Handlers, ~At(g, "idle")'
               PROVE  /\ call'[g] \in Request'
                      /\ At(g, "vote")' => call'[g].arg \in {1, -1}
                      /\ At(g, "reply")' => call'[g].arg \in (1..calls') \union {None}
    OBVIOUS
  <2>1. CASE g = h
    BY <1>3, <1>4, <1>7, <1>8, <2>1 DEF At
  <2>2. CASE g # h
    <3>1. call'[g] = call[g] /\ call[g] \in Request
      BY <1>2, <1>7, <2>2 DEF At, CallTypes
    <3>2. call[g] \in Request'
      BY <1>3, <3>1 DEF Request
    <3> QED
      BY <1>2, <1>3, <2>2, <3>1, <3>2 DEF At, CallTypes
  <2> QED
    BY <2>1, <2>2
<1>10. CallTypes'
  BY <1>7, <1>9 DEF CallTypes
<1>11. BoardTypeOK'
  <2>1. \A g \in Handlers : ~At(g, "idle")' => User(g)' \in Users /\ Item(g)' \in 1..calls' /\ N(g)' \in 1..calls'
    BY <1>9 DEF Request, User, Item, N
  <2>2. Topics \subseteq 1..calls' /\ Replies \subseteq (1..calls') \ Topics /\ DOMAIN votes \subseteq Users \X (1..calls')
    BY <1>2, <1>3 DEF BoardTypeOK
  <2> QED
    BY <1>1, <1>2, <1>3, <1>5, <2>1, <2>2 DEF BoardTypeOK
<1>12. N(h)' = calls + 1 /\ \A g \in Handlers \ {h} : ~At(g, "idle")' => N(g)' = N(g) /\ N(g) \in 1..calls
  BY <1>2, <1>7, <1>8 DEF N, At, BoardTypeOK
<1>13. FreshRows'
  <2>1. \A g, k \in Handlers : g # k /\ ~At(g, "idle")' /\ ~At(k, "idle")' => N(g)' # N(k)'
    BY <1>2, <1>3, <1>7, <1>12 DEF FreshRows, At
  <2>2. \A g \in Handlers : At(g, "reply")' =>
          /\ N(g)' \notin Items
          /\ \A v \in DOMAIN votes : v[2] # N(g)'
    <3> SUFFICES ASSUME NEW g \in Handlers, At(g, "reply")'
                 PROVE  N(g)' \notin Items /\ \A v \in DOMAIN votes : v[2] # N(g)'
      OBVIOUS
    <3>1. CASE g = h
      BY <1>2, <1>3, <1>4, <1>12, <3>1 DEF BoardTypeOK
    <3>2. CASE g # h
      BY <1>2, <1>7, <1>12, <3>2 DEF FreshRows, At
    <3> QED
      BY <3>1, <3>2
  <2>3. \A g, k \in Handlers : At(g, "reply")' /\ At(k, "reply")' => call'[k].arg # N(g)'
    <3> SUFFICES ASSUME NEW g \in Handlers, NEW k \in Handlers, At(g, "reply")', At(k, "reply")'
                 PROVE  call'[k].arg # N(g)'
      OBVIOUS
    <3>1. call'[k].arg = None \/ call'[k].arg \in 1..calls
      BY <1>2, <1>4, <1>7, <1>8 DEF CallTypes, At
    <3>2. CASE g = h
      BY <1>3, <1>12, <3>1, <3>2, DiscussionsAssumption
    <3>3. CASE g # h /\ k = h
      <4>1. N(g)' = N(g) /\ N(g) \in 1..calls /\ N(g) \notin Items
        BY <1>2, <1>7, <1>12, <3>3 DEF FreshRows, At
      <4>2. call'[k].arg = None \/ call'[k].arg \in Replies
        BY <1>7, <1>8, <3>3 DEF At
      <4> QED
        BY <4>1, <4>2, <1>3, DiscussionsAssumption DEF Items
    <3>4. CASE g # h /\ k # h
      BY <1>2, <1>7, <1>12, <3>4 DEF FreshRows, At
    <3> QED
      BY <3>2, <3>3, <3>4
  <2> QED
    BY <1>1, <1>5, <2>1, <2>2, <2>3 DEF FreshRows
<1>14. TwoLevels'
  <2>1. \A g \in Handlers : At(g, "reply")' /\ call'[g].arg \in Replies => reply[call'[g].arg].parent = None
    <3> SUFFICES ASSUME NEW g \in Handlers, At(g, "reply")', call'[g].arg \in Replies
                 PROVE  reply[call'[g].arg].parent = None
      OBVIOUS
    <3>1. CASE g = h
      <4>1. op = "reply" /\ call'[g].arg = arg
        BY <1>7, <1>8, <3>1 DEF At
      <4>2. None \notin Replies
        BY <1>2, NoneIsNoRow
      <4> QED
        BY <4>1, <4>2
    <3>2. CASE g # h
      BY <1>2, <1>7, <3>2 DEF TwoLevels, At
    <3> QED
      BY <3>1, <3>2
  <2> QED
    BY <1>1, <1>2, <1>5, <2>1 DEF TwoLevels
<1>15. BoardCounters'
  BY <1>1, <1>2, <1>5 DEF BoardCounters, RepliesOf, VotesOf, Up, Replies, Topics
<1> QED
  BY <1>10, <1>11, <1>13, <1>14, <1>15 DEF BoardInv

\* A request has ended, and the others go on.
LEMMA EndCalls ==
  ASSUME BoardTypeOK, CallTypes, NEW h \in Handlers, End(h)
  PROVE  /\ CallTypes' /\ calls' = calls /\ call'[h] = [op |-> "idle"]
         /\ \A g \in Handlers : ~At(g, "idle")' => g # h /\ ~At(g, "idle") /\ call'[g] = call[g]
         /\ \A g \in Handlers : ~At(g, "idle")' => User(g)' \in Users /\ Item(g)' \in 1..calls' /\ N(g)' \in 1..calls'
<1>1. /\ calls' = calls /\ call'[h] = [op |-> "idle"] /\ DOMAIN call' = Handlers
      /\ \A g \in Handlers \ {h} : call'[g] = call[g]
  BY DEF End, CallTypes
<1>2. \A g \in Handlers : ~At(g, "idle")' => g # h /\ ~At(g, "idle") /\ call'[g] = call[g]
  BY <1>1 DEF At
<1>3. Request' = Request
  BY <1>1 DEF Request
<1>4. CallTypes'
  BY <1>1, <1>2, <1>3 DEF CallTypes, At
<1>5. \A g \in Handlers : ~At(g, "idle")' => User(g)' \in Users /\ Item(g)' \in 1..calls' /\ N(g)' \in 1..calls'
  BY <1>1, <1>2 DEF BoardTypeOK, User, Item, N
<1> QED
  BY <1>1, <1>2, <1>4, <1>5

\* What the request that ended may have written keeps the other rows fresh.
LEMMA EndFresh ==
  ASSUME BoardTypeOK, CallTypes, FreshRows, NEW h \in Handlers, ~At(h, "idle"), End(h),
         \A i \in Items' : i \in Items \/ i = N(h),
         \A v \in DOMAIN votes' : v \in DOMAIN votes \/ v[2] \in Items
  PROVE  FreshRows'
<1>1. \A g \in Handlers : ~At(g, "idle")' => g # h /\ ~At(g, "idle") /\ call'[g] = call[g]
  BY EndCalls
<1>2. \A g, k \in Handlers : g # k /\ ~At(g, "idle")' /\ ~At(k, "idle")' => N(g)' # N(k)'
  BY <1>1 DEF FreshRows, N
<1>3. ASSUME NEW g \in Handlers, At(g, "reply")'
      PROVE  /\ N(g)' \notin Items'
             /\ \A v \in DOMAIN votes' : v[2] # N(g)'
             /\ \A k \in Handlers : At(k, "reply")' => call'[k].arg # N(g)'
  <2>1. g # h /\ N(g)' = N(g) /\ At(g, "reply")
    BY <1>1, <1>3 DEF At, N
  <2>2. N(g) \notin Items /\ N(g) # N(h) /\ \A v \in DOMAIN votes : v[2] # N(g)
    BY <2>1, <1>3 DEF FreshRows, At
  <2>3. \A k \in Handlers : At(k, "reply")' => call'[k].arg # N(g)
    BY <1>1, <2>1 DEF FreshRows, At
  <2> QED
    BY <2>1, <2>2, <2>3
<1> QED
  BY <1>2, <1>3 DEF FreshRows

\* Rows may change except in who wrote them, what they hang on and what they
\* count.
LEMMA EndQuietly ==
  ASSUME BoardInv, NEW h \in Handlers, ~At(h, "idle"), End(h),
         Topics' = Topics, Replies' = Replies, UNCHANGED <<votes, lost>>,
         \A t \in Topics : /\ discussion'[t] \in [author : Users, up : Nat, replies : Int, pinned : BOOLEAN, text : Id]
                           /\ discussion'[t].up = discussion[t].up
                           /\ discussion'[t].replies = discussion[t].replies,
         \A r \in Replies : /\ reply'[r] \in [discussion : Topics, author : Users,
                                              parent : Replies \union {None}, up : Nat, text : Id]
                            /\ reply'[r].up = reply[r].up
                            /\ reply'[r].parent = reply[r].parent
                            /\ reply'[r].discussion = reply[r].discussion
  PROVE  BoardInv'
<1>1. BoardTypeOK /\ CallTypes /\ FreshRows /\ TwoLevels /\ BoardCounters
  BY DEF BoardInv
<1>2. /\ CallTypes' /\ calls' = calls
      /\ \A g \in Handlers : ~At(g, "idle")' => g # h /\ ~At(g, "idle") /\ call'[g] = call[g]
      /\ \A g \in Handlers : ~At(g, "idle")' => User(g)' \in Users /\ Item(g)' \in 1..calls' /\ N(g)' \in 1..calls'
  BY <1>1, EndCalls
<1>3. Items' = Items
  BY DEF Items
<1>4. FreshRows'
  BY <1>1, <1>3, EndFresh
<1>5. BoardTypeOK'
  BY <1>1, <1>2 DEF BoardTypeOK
<1>6. TwoLevels'
  <2>1. \A r \in Replies : reply'[r].parent # None => reply'[reply'[r].parent].parent = None
    <3> SUFFICES ASSUME NEW r \in Replies, reply'[r].parent # None
                 PROVE  reply'[reply'[r].parent].parent = None
      OBVIOUS
    <3>1. reply[r].parent \in Replies \union {None} /\ reply'[r].parent = reply[r].parent
      BY <1>1 DEF BoardTypeOK
    <3> QED
      BY <1>1, <3>1 DEF TwoLevels
  <2>2. \A g \in Handlers : At(g, "reply")' /\ call'[g].arg \in Replies => reply'[call'[g].arg].parent = None
    BY <1>1, <1>2 DEF TwoLevels, At
  <2> QED
    BY <2>1, <2>2 DEF TwoLevels
<1>7. BoardCounters'
  <2>1. \A t \in Topics : RepliesOf(t)' = RepliesOf(t)
    BY DEF RepliesOf
  <2>2. \A i \in Items : Up(i)' = Up(i) /\ \A value : VotesOf(i, value)' = VotesOf(i, value)
    BY DEF Up, Items, VotesOf
  <2> QED
    BY <1>1, <1>3, <2>1, <2>2 DEF BoardCounters
<1> QED
  BY <1>2, <1>4, <1>5, <1>6, <1>7 DEF BoardInv

LEMMA RollbackInv ==
  ASSUME BoardInv, NEW h \in Handlers, ~At(h, "idle"), Rollback(h)
  PROVE  BoardInv'
<1>1. End(h) /\ UNCHANGED <<discussion, reply, votes, lost>>
  BY DEF Rollback
<1>2. Topics' = Topics /\ Replies' = Replies
  BY <1>1 DEF Topics, Replies
<1> QED
  BY <1>1, <1>2, EndQuietly DEF BoardInv, BoardTypeOK

LEMMA PinInv ==
  ASSUME BoardInv, NEW h \in Handlers, pinTopic(h)
  PROVE  BoardInv'
<1>1. ~At(h, "idle")
  BY DEF pinTopic, At
<1>2. CASE Rollback(h)
  BY <1>1, <1>2, RollbackInv
<1>3. CASE /\ Item(h) \in Topics
           /\ discussion' = [discussion EXCEPT ![Item(h)].pinned = At(h, "pin")]
           /\ End(h) /\ UNCHANGED <<reply, votes, lost>>
  <2>1. PICK pin \in BOOLEAN : pin = At(h, "pin")
    BY DEF At
  <2>2. PICK row : row = discussion[Item(h)]
    OBVIOUS
  <2>3. row \in [author : Users, up : Nat, replies : Int, pinned : BOOLEAN, text : Id]
    BY <1>3, <2>2 DEF BoardInv, BoardTypeOK
  <2>4. PICK new : new = [row EXCEPT !.pinned = pin]
    OBVIOUS
  <2>5. /\ new \in [author : Users, up : Nat, replies : Int, pinned : BOOLEAN, text : Id]
        /\ new.up = row.up /\ new.replies = row.replies
    BY <2>3, <2>4
  <2>6. discussion' = [discussion EXCEPT ![Item(h)] = new]
    BY <1>3, <2>1, <2>2, <2>4
  <2>7. /\ Topics' = Topics /\ Replies' = Replies
        /\ discussion'[Item(h)] = new /\ \A t \in Topics \ {Item(h)} : discussion'[t] = discussion[t]
    BY <1>3, <2>6 DEF Topics, Replies
  <2> QED
    BY <1>1, <1>3, <2>2, <2>5, <2>7, EndQuietly DEF BoardInv, BoardTypeOK
<1> QED
  BY <1>2, <1>3 DEF pinTopic

LEMMA UpdateInv ==
  ASSUME BoardInv, NEW h \in Handlers, Update(h)
  PROVE  BoardInv'
<1>1. ~At(h, "idle") /\ N(h) \in Id
  <2>1. ~At(h, "idle")
    BY DEF Update, At
  <2>2. N(h) \in 1..calls /\ calls \in 0..MaxCalls
    BY <2>1 DEF BoardInv, BoardTypeOK
  <2> QED
    BY <2>1, <2>2, DiscussionsAssumption DEF Id
<1>2. CASE Rollback(h)
  BY <1>1, <1>2, RollbackInv
<1>3. CASE /\ Item(h) \in Topics
           /\ discussion' = [discussion EXCEPT ![Item(h)].text = N(h)]
           /\ End(h) /\ UNCHANGED <<reply, votes, lost>>
  <2>1. PICK row : row = discussion[Item(h)]
    OBVIOUS
  <2>2. row \in [author : Users, up : Nat, replies : Int, pinned : BOOLEAN, text : Id]
    BY <1>3, <2>1 DEF BoardInv, BoardTypeOK
  <2>3. PICK new : new = [row EXCEPT !.text = N(h)]
    OBVIOUS
  <2>4. /\ new \in [author : Users, up : Nat, replies : Int, pinned : BOOLEAN, text : Id]
        /\ new.up = row.up /\ new.replies = row.replies
    BY <1>1, <2>2, <2>3
  <2>5. discussion' = [discussion EXCEPT ![Item(h)] = new]
    BY <1>3, <2>1, <2>3
  <2>6. /\ Topics' = Topics /\ Replies' = Replies
        /\ discussion'[Item(h)] = new /\ \A t \in Topics \ {Item(h)} : discussion'[t] = discussion[t]
    BY <1>3, <2>5 DEF Topics, Replies
  <2> QED
    BY <1>1, <1>3, <2>1, <2>4, <2>6, EndQuietly DEF BoardInv, BoardTypeOK
<1>4. CASE /\ Item(h) \in Replies
           /\ reply' = [reply EXCEPT ![Item(h)].text = N(h)]
           /\ End(h) /\ UNCHANGED <<discussion, votes, lost>>
  <2> DEFINE Row == [discussion : Topics, author : Users, parent : Replies \union {None}, up : Nat, text : Id]
  <2>1. PICK row : row = reply[Item(h)]
    OBVIOUS
  <2>2. row \in Row
    BY <1>4, <2>1 DEF BoardInv, BoardTypeOK
  <2>3. PICK new : new = [row EXCEPT !.text = N(h)]
    OBVIOUS
  <2>4. /\ new \in Row
        /\ new.up = row.up /\ new.parent = row.parent /\ new.discussion = row.discussion
    BY <1>1, <2>2, <2>3
  <2>5. reply' = [reply EXCEPT ![Item(h)] = new]
    BY <1>4, <2>1, <2>3
  <2>6. /\ Topics' = Topics /\ Replies' = Replies
        /\ reply'[Item(h)] = new /\ \A r \in Replies \ {Item(h)} : reply'[r] = reply[r]
    BY <1>4, <2>5 DEF Topics, Replies
  <2> QED
    BY <1>1, <1>4, <2>1, <2>4, <2>6, EndQuietly DEF BoardInv, BoardTypeOK
<1> QED
  BY <1>2, <1>3, <1>4 DEF Update, Items

\* Nothing hangs on a row that does not exist.
LEMMA NoRowNoVotes ==
  ASSUME BoardTypeOK, NEW i, \A v \in DOMAIN votes : v[2] # i
  PROVE  Cardinality(VotesOf(i, 1)) = 0 /\ Cardinality(VotesOf(i, -1)) = 0
<1>1. VotesOf(i, 1) = {} /\ VotesOf(i, -1) = {}
  BY DEF VotesOf
<1> QED
  BY <1>1, FS_EmptySet

LEMMA CreateTopicInv ==
  ASSUME BoardInv, NEW u \in Users, createTopic(u)
  PROVE  BoardInv'
<1> DEFINE Row == [author : Users, up : Nat, replies : Int, pinned : BOOLEAN, text : Id]
<1>1. BoardTypeOK /\ CallTypes /\ FreshRows /\ TwoLevels /\ BoardCounters
  BY DEF BoardInv
<1>0. PICK n : n = calls + 1
  OBVIOUS
<1>2. calls \in Nat /\ MaxCalls \in Nat /\ calls' = n /\ calls' \in 0..MaxCalls /\ n \in Id /\ n = calls + 1
  BY <1>0, <1>1, DiscussionsAssumption DEF createTopic, BoardTypeOK, Id
<1>3. UNCHANGED <<reply, votes, call>>
  BY DEF createTopic
<1>4. PICK row : row = [author |-> u, up |-> 0, replies |-> 0, pinned |-> FALSE, text |-> n]
  OBVIOUS
<1>5. row \in Row /\ row.up = 0 /\ row.replies = 0
  <2>1. FALSE \in BOOLEAN /\ 0 \in Nat /\ 0 \in Int
    OBVIOUS
  <2>2. row \in Row
    BY <1>2, <1>4, <2>1, Zenon
  <2> QED
    BY <1>4, <2>2
<1>6. n \notin Items /\ n \notin 1..calls
  BY <1>1, <1>2 DEF BoardTypeOK, Items
<1>7. /\ Topics' = Topics \union {n} /\ discussion'[n] = row
      /\ \A t \in Topics : discussion'[t] = discussion[t]
  <2>1. discussion' = Extend(discussion, n, row)
    BY <1>2, <1>4 DEF createTopic
  <2>2. n \notin DOMAIN discussion
    BY <1>6 DEF Topics, Items
  <2> QED
    BY <2>1, <2>2 DEF Topics, Extend
<1>8. /\ lost' = [t \in Topics \union {n} |-> IF t = n THEN 0 ELSE lost[t]]
      /\ lost' \in [Topics' -> Nat]
  BY <1>1, <1>2, <1>7 DEF createTopic, Extend, BoardTypeOK
<1>9. Replies' = Replies /\ Items' = Items \union {n}
  BY <1>3, <1>7 DEF Replies, Items
<1>10. BoardTypeOK'
  <2>1. Topics' \subseteq 1..calls' /\ Replies' \subseteq (1..calls') \ Topics'
    BY <1>1, <1>2, <1>6, <1>7, <1>9 DEF BoardTypeOK
  <2>2. \A t \in Topics' : discussion'[t] \in Row
    BY <1>1, <1>5, <1>7 DEF BoardTypeOK
  <2>3. \A r \in Replies' : reply'[r] \in
          [discussion : Topics', author : Users, parent : Replies' \union {None}, up : Nat, text : Id]
    BY <1>1, <1>3, <1>7, <1>9 DEF BoardTypeOK
  <2>4. DOMAIN votes' \subseteq Users \X (1..calls') /\ \A v \in DOMAIN votes' : votes'[v] \in {1, -1}
    BY <1>1, <1>2, <1>3 DEF BoardTypeOK
  <2>5. \A h \in Handlers : ~At(h, "idle")' => User(h)' \in Users /\ Item(h)' \in 1..calls' /\ N(h)' \in 1..calls'
    BY <1>1, <1>2, <1>3 DEF BoardTypeOK, At, User, Item, N
  <2> QED
    BY <1>2, <1>8, <2>1, <2>2, <2>3, <2>4, <2>5 DEF BoardTypeOK
<1>11. CallTypes'
  <2>1. ASSUME NEW r \in Request PROVE r \in Request'
    BY <1>2, <2>1 DEF Request
  <2>2. 1..calls \subseteq 1..calls'
    BY <1>2
  <2> QED
    BY <1>1, <1>3, <2>1, <2>2 DEF CallTypes, At
<1>12. FreshRows'
  <2>1. \A h \in Handlers : At(h, "reply") => N(h) # n
    BY <1>1, <1>6 DEF BoardTypeOK, At
  <2> QED
    BY <1>1, <1>3, <1>9, <2>1 DEF FreshRows, At, N
<1>13. TwoLevels'
  BY <1>1, <1>3, <1>9 DEF TwoLevels, At
<1>14. BoardCounters'
  <2>1. \A t \in Topics : RepliesOf(t)' = RepliesOf(t) /\ lost'[t] = lost[t] /\ discussion'[t] = discussion[t]
    BY <1>3, <1>6, <1>7, <1>8 DEF RepliesOf, Replies, Items
  <2>2. Cardinality(RepliesOf(n)') = 0 /\ lost'[n] = 0
    <3>1. RepliesOf(n)' = {}
      BY <1>1, <1>3, <1>6 DEF RepliesOf, Replies, BoardTypeOK, Items
    <3> QED
      BY <1>8, <3>1, FS_EmptySet
  <2>3. \A i \in Items : Up(i)' = Up(i)
    BY <1>3, <1>6, <1>7 DEF Up, Items
  <2>4. \A i, value : VotesOf(i, value)' = VotesOf(i, value)
    BY <1>3 DEF VotesOf
  <2>5. Up(n)' = 0
    BY <1>5, <1>7 DEF Up
  <2>6. Cardinality(VotesOf(n, 1)) = 0 /\ Cardinality(VotesOf(n, -1)) = 0
    <3>1. \A v \in DOMAIN votes : v[2] # n
      BY <1>1, <1>6 DEF BoardTypeOK
    <3> QED
      BY <1>1, <3>1, NoRowNoVotes
  <2>7. \A t \in Topics' : discussion'[t].replies = Cardinality(RepliesOf(t)') + lost'[t]
    BY <1>1, <1>5, <1>7, <2>1, <2>2 DEF BoardCounters
  <2>8. \A i \in Items' : Up(i)' = Cardinality(VotesOf(i, 1)') - Cardinality(VotesOf(i, -1)')
    BY <1>1, <1>9, <2>3, <2>4, <2>5, <2>6 DEF BoardCounters
  <2> QED
    BY <2>7, <2>8 DEF BoardCounters
<1> QED
  BY <1>10, <1>11, <1>12, <1>13, <1>14 DEF BoardInv

LEMMA CreateReplyInv ==
  ASSUME BoardInv, NEW h \in Handlers, createReply(h)
  PROVE  BoardInv'
<1>1. At(h, "reply") /\ ~At(h, "idle")
  BY DEF createReply, At
<1>2. CASE Rollback(h)
  BY <1>1, <1>2, RollbackInv
<1>3. CASE /\ Item(h) \in Topics /\ call[h].arg \in Replies \union {None}
           /\ reply' = Extend(reply, N(h), [discussion |-> Item(h), author |-> User(h),
                                            parent |-> call[h].arg, up |-> 0, text |-> N(h)])
           /\ discussion' = [discussion EXCEPT ![Item(h)].replies = @ + 1]
           /\ End(h) /\ UNCHANGED <<votes, lost>>
  <2> DEFINE Row == [author : Users, up : Nat, replies : Int, pinned : BOOLEAN, text : Id]
  <2>1. BoardTypeOK /\ CallTypes /\ FreshRows /\ TwoLevels /\ BoardCounters
    BY DEF BoardInv
  <2>2. PICK n : n = N(h)
    OBVIOUS
  <2>3. PICK t : t = Item(h)
    OBVIOUS
  <2>4. n \in 1..calls /\ n \in Id /\ User(h) \in Users /\ n \notin Items /\ t \in Topics
    BY <1>1, <1>3, <2>1, <2>2, <2>3, DiscussionsAssumption DEF BoardTypeOK, FreshRows, Id
  <2>5. PICK new : new = [discussion |-> t, author |-> User(h), parent |-> call[h].arg, up |-> 0, text |-> n]
    OBVIOUS
  <2>6. /\ new.up = 0 /\ new.parent = call[h].arg /\ new.discussion = t
        /\ new \in [discussion : Topics, author : Users, parent : Replies \union {None}, up : Nat, text : Id]
    BY <1>3, <2>4, <2>5
  <2>7. /\ Replies' = Replies \union {n} /\ reply'[n] = new
        /\ \A r \in Replies : reply'[r] = reply[r]
    <3>1. reply' = Extend(reply, n, new)
      BY <1>3, <2>2, <2>3, <2>5
    <3>2. n \notin DOMAIN reply
      BY <2>4 DEF Replies, Items
    <3> QED
      BY <3>1, <3>2 DEF Replies, Extend
  <2>8. PICK row : row = discussion[t]
    OBVIOUS
  <2>9. row \in Row
    BY <2>1, <2>4, <2>8 DEF BoardTypeOK
  <2>10. PICK topic : topic = [row EXCEPT !.replies = row.replies + 1]
    OBVIOUS
  <2>11. topic \in Row /\ topic.up = row.up /\ topic.replies = row.replies + 1
    BY <2>9, <2>10
  <2>12. discussion' = [discussion EXCEPT ![t] = topic]
    BY <1>3, <2>3, <2>8, <2>10
  <2>13. /\ Topics' = Topics /\ discussion'[t] = topic
         /\ \A k \in Topics \ {t} : discussion'[k] = discussion[k]
    BY <2>4, <2>12 DEF Topics
  <2>14. Items' = Items \union {n}
    BY <2>7, <2>13 DEF Items
  <2>15. UNCHANGED <<votes, lost>> /\ End(h)
    BY <1>3
  <2>16. /\ CallTypes' /\ calls' = calls
         /\ \A g \in Handlers : ~At(g, "idle")' => g # h /\ ~At(g, "idle") /\ call'[g] = call[g]
         /\ \A g \in Handlers : ~At(g, "idle")' => User(g)' \in Users /\ Item(g)' \in 1..calls' /\ N(g)' \in 1..calls'
    BY <2>1, <2>15, EndCalls
  <2>17. FreshRows'
    BY <1>1, <2>1, <2>2, <2>14, <2>15, EndFresh
  <2>18. BoardTypeOK'
    <3>1. Topics' \subseteq 1..calls' /\ Replies' \subseteq (1..calls') \ Topics'
      BY <2>1, <2>4, <2>7, <2>13, <2>16 DEF BoardTypeOK, Items
    <3>2. \A k \in Topics' : discussion'[k] \in Row
      BY <2>1, <2>11, <2>13 DEF BoardTypeOK
    <3>3. \A r \in Replies' : reply'[r] \in
            [discussion : Topics', author : Users, parent : Replies' \union {None}, up : Nat, text : Id]
      BY <2>1, <2>6, <2>7, <2>13 DEF BoardTypeOK
    <3> QED
      BY <2>1, <2>13, <2>15, <2>16, <3>1, <3>2, <3>3 DEF BoardTypeOK
  <2>19. TwoLevels'
    <3>1. ASSUME NEW r \in Replies', reply'[r].parent # None PROVE reply'[reply'[r].parent].parent = None
      <4>1. CASE r = n
        <5>1. call[h].arg \in Replies /\ reply'[r].parent = call[h].arg
          BY <1>3, <2>6, <2>7, <3>1, <4>1
        <5> QED
          BY <1>1, <2>1, <2>7, <5>1 DEF TwoLevels
      <4>2. CASE r # n
        <5>1. r \in Replies /\ reply'[r].parent = reply[r].parent /\ reply[r].parent \in Replies
          BY <2>1, <2>7, <3>1, <4>2 DEF BoardTypeOK
        <5> QED
          BY <2>1, <2>7, <3>1, <5>1 DEF TwoLevels
      <4> QED
        BY <4>1, <4>2
    <3>2. ASSUME NEW g \in Handlers, At(g, "reply")', call'[g].arg \in Replies'
          PROVE  reply'[call'[g].arg].parent = None
      <4>1. At(g, "reply") /\ call'[g].arg = call[g].arg
        BY <2>16, <3>2 DEF At
      <4>2. call[g].arg # n
        BY <1>1, <2>1, <2>2, <4>1 DEF FreshRows
      <4> QED
        BY <2>1, <2>7, <3>2, <4>1, <4>2 DEF TwoLevels
    <3> QED
      BY <3>1, <3>2 DEF TwoLevels
  <2>20. BoardCounters'
    <3>1. RepliesOf(t)' = RepliesOf(t) \union {n} /\ n \notin RepliesOf(t)
      BY <2>4, <2>6, <2>7 DEF RepliesOf, Items
    <3>2. \A k \in Topics \ {t} : RepliesOf(k)' = RepliesOf(k)
      BY <2>6, <2>7 DEF RepliesOf
    <3>3. IsFiniteSet(RepliesOf(t)) /\ Cardinality(RepliesOf(t)) \in Nat
      <4>1. RepliesOf(t) \subseteq Replies
        BY DEF RepliesOf
      <4> QED
        BY <2>1, <4>1, RowsAreFinite, FS_Subset, FS_CardinalityType
    <3>4. Cardinality(RepliesOf(t)') = Cardinality(RepliesOf(t)) + 1
      BY <3>1, <3>3, FS_AddElement
    <3>5. ASSUME NEW k \in Topics PROVE discussion'[k].replies = Cardinality(RepliesOf(k)') + lost'[k]
      <4>1. CASE k = t
        <5>1. row.replies = Cardinality(RepliesOf(t)) + lost[t] /\ lost[t] \in Nat
          BY <2>1, <2>4, <2>8 DEF BoardCounters, BoardTypeOK
        <5> QED
          BY <2>11, <2>13, <2>15, <3>3, <3>4, <4>1, <5>1
      <4>2. CASE k # t
        BY <2>1, <2>13, <2>15, <3>2, <4>2 DEF BoardCounters
      <4> QED
        BY <4>1, <4>2
    <3>6. \A i \in Items : Up(i)' = Up(i)
      BY <2>4, <2>7, <2>8, <2>11, <2>13 DEF Up, Items
    <3>7. \A i, value : VotesOf(i, value)' = VotesOf(i, value)
      BY <2>15 DEF VotesOf
    <3>8. Up(n)' = 0
      BY <2>4, <2>6, <2>7, <2>13 DEF Up, Items
    <3>9. Cardinality(VotesOf(n, 1)) = 0 /\ Cardinality(VotesOf(n, -1)) = 0
      BY <1>1, <2>1, <2>2, NoRowNoVotes DEF FreshRows
    <3>10. \A i \in Items' : Up(i)' = Cardinality(VotesOf(i, 1)') - Cardinality(VotesOf(i, -1)')
      BY <2>1, <2>14, <3>6, <3>7, <3>8, <3>9 DEF BoardCounters
    <3> QED
      BY <2>13, <3>5, <3>10 DEF BoardCounters
  <2> QED
    BY <2>16, <2>17, <2>18, <2>19, <2>20 DEF BoardInv
<1> QED
  BY <1>2, <1>3 DEF createReply

\* With one level of parents below the first, two rounds of the cascade
\* leave nothing that refers to a row that goes.
LEMMA CascadeCloses ==
  ASSUME BoardTypeOK, TwoLevels, NEW i \in Items
  PROVE  /\ Cascade(i) \subseteq Replies
         /\ i \in Replies => i \in Cascade(i)
         /\ \A r \in Replies \ Cascade(i) :
              r # i /\ reply[r].discussion # i /\ reply[r].parent \notin Cascade(i)
<1> DEFINE first == {r \in Replies : i \in {r, reply[r].discussion, reply[r].parent}}
<1>1. Cascade(i) = first \union {r \in Replies : reply[r].parent \in first}
  BY DEF Cascade
<1>2. ASSUME NEW r \in Replies, r \notin Cascade(i), reply[r].parent \in Cascade(i) PROVE FALSE
  <2>1. PICK p : p = reply[r].parent
    OBVIOUS
  <2>2. p \in Replies /\ p \notin first /\ p # None
    BY <1>1, <1>2, <2>1, NoneIsNoRow
  <2>3. reply[p].parent \in first
    BY <1>1, <1>2, <2>1, <2>2
  <2>4. reply[p].parent = None
    BY <1>2, <2>1, <2>2 DEF TwoLevels
  <2> QED
    BY <2>3, <2>4, NoneIsNoRow
<1> QED
  BY <1>1, <1>2

LEMMA DeleteInv ==
  ASSUME BoardInv, NEW h \in Handlers, Delete(h)
  PROVE  BoardInv'
<1>1. At(h, "delete") /\ ~At(h, "idle")
  BY DEF Delete, At
<1>2. CASE Rollback(h)
  BY <1>1, <1>2, RollbackInv
<1>3. CASE /\ Item(h) \in Items
           /\ Remove(Item(h), [t \in Topics |-> IF Item(h) \in RepliesOf(t) THEN 1 ELSE 0])
           /\ End(h)
  <2> DEFINE Row == [author : Users, up : Nat, replies : Int, pinned : BOOLEAN, text : Id]
  <2>1. BoardTypeOK /\ CallTypes /\ FreshRows /\ TwoLevels /\ BoardCounters
    BY DEF BoardInv
  <2>2. PICK i : i = Item(h)
    OBVIOUS
  <2>3. PICK C : C = Cascade(i)
    OBVIOUS
  <2>4. /\ C \subseteq Replies
        /\ i \in Replies => i \in C
        /\ \A r \in Replies \ C : r # i /\ reply[r].discussion # i /\ reply[r].parent \notin C
    BY <1>3, <2>1, <2>2, <2>3, CascadeCloses
  <2> DEFINE Counted(t) == IF i \in RepliesOf(t) THEN 1 ELSE 0
             Gone(t) == (RepliesOf(t) \intersect C) \ {i}
  <2>5. /\ reply' = [r \in Replies \ C |-> reply[r]]
        /\ lost' = [t \in Topics \ {i} |-> lost[t] + Cardinality(Gone(t))]
        /\ discussion' = [t \in Topics \ {i} |-> [discussion[t] EXCEPT !.replies = @ - Counted(t)]]
        /\ UNCHANGED votes /\ End(h)
    BY <1>3, <2>2, <2>3 DEF Remove, Restrict
  <2>6. /\ Replies' = Replies \ C /\ Topics' = Topics \ {i}
        /\ \A r \in Replies' : reply'[r] = reply[r]
    BY <2>5 DEF Replies, Topics
  <2>7. Items' \subseteq Items
    BY <2>6 DEF Items
  <2>8. /\ CallTypes' /\ calls' = calls
        /\ \A g \in Handlers : ~At(g, "idle")' => g # h /\ ~At(g, "idle") /\ call'[g] = call[g]
        /\ \A g \in Handlers : ~At(g, "idle")' => User(g)' \in Users /\ Item(g)' \in 1..calls' /\ N(g)' \in 1..calls'
    BY <2>1, <2>5, EndCalls
  <2>9. FreshRows'
    BY <1>1, <2>1, <2>5, <2>7, EndFresh
  <2>10. ASSUME NEW t \in Topics'
         PROVE  /\ discussion'[t] \in Row /\ discussion'[t].up = discussion[t].up
                /\ discussion'[t].replies = discussion[t].replies - Counted(t)
                /\ discussion[t].replies \in Int
    <3>1. discussion[t] \in Row /\ Counted(t) \in Int
      BY <2>1, <2>6, <2>10 DEF BoardTypeOK
    <3>2. discussion'[t] = [discussion[t] EXCEPT !.replies = discussion[t].replies - Counted(t)]
      BY <2>5, <2>6, <2>10
    <3>3. PICK new : new = discussion[t].replies - Counted(t)
      OBVIOUS
    <3>4. new \in Int
      BY <3>1, <3>3
    <3> HIDE DEF Counted
    <3> QED
      BY <3>1, <3>2, <3>3, <3>4
  <2>11. ASSUME NEW t \in Topics'
         PROVE  /\ Cardinality(RepliesOf(t)) = Cardinality(RepliesOf(t)') + Cardinality(Gone(t)) + Counted(t)
                /\ Cardinality(RepliesOf(t)) \in Nat /\ Cardinality(RepliesOf(t)') \in Nat
                /\ Cardinality(Gone(t)) \in Nat
    <3>1. PICK R : R = RepliesOf(t)
      OBVIOUS
    <3>2. R \subseteq Replies /\ IsFiniteSet(Replies)
      BY <2>1, <3>1, RowsAreFinite DEF RepliesOf
    <3>3. IsFiniteSet(R)
      BY <3>2, FS_Subset
    <3>4. RepliesOf(t)' = R \ C
      BY <2>6, <3>1 DEF RepliesOf
    <3>5. IsFiniteSet(R \ C) /\ Cardinality(R \ C) = Cardinality(R) - Cardinality(R \intersect C)
      BY <3>3, FS_Difference
    <3>6. IsFiniteSet(R \intersect C)
      BY <3>3, FS_Intersection
    <3>7. /\ IsFiniteSet((R \intersect C) \ {i})
          /\ Cardinality((R \intersect C) \ {i}) =
               IF i \in R \intersect C THEN Cardinality(R \intersect C) - 1 ELSE Cardinality(R \intersect C)
      BY <3>6, FS_RemoveElement
    <3>8. i \in R \intersect C <=> i \in R
      BY <2>4, <3>2
    <3>9. /\ Cardinality(R) \in Nat /\ Cardinality(R \ C) \in Nat /\ Cardinality(R \intersect C) \in Nat
          /\ Cardinality((R \intersect C) \ {i}) \in Nat
      BY <3>3, <3>5, <3>6, <3>7, FS_CardinalityType
    <3> QED
      BY <3>1, <3>4, <3>5, <3>7, <3>8, <3>9
  <2>12. BoardTypeOK'
    <3>1. Topics' \subseteq 1..calls' /\ Replies' \subseteq (1..calls') \ Topics'
      BY <2>1, <2>6, <2>8 DEF BoardTypeOK
    <3>2. \A r \in Replies' : reply'[r] \in
            [discussion : Topics', author : Users, parent : Replies' \union {None}, up : Nat, text : Id]
      <4> SUFFICES ASSUME NEW r \in Replies'
                   PROVE  reply'[r] \in
                     [discussion : Topics', author : Users, parent : Replies' \union {None}, up : Nat, text : Id]
        OBVIOUS
      <4>1. /\ reply'[r] = reply[r] /\ reply[r].discussion # i /\ reply[r].parent \notin C
            /\ reply[r] \in [discussion : Topics, author : Users, parent : Replies \union {None}, up : Nat, text : Id]
        BY <2>1, <2>4, <2>6 DEF BoardTypeOK
      <4>2. reply[r].discussion \in Topics' /\ reply[r].parent \in Replies' \union {None}
        BY <2>6, <4>1
      <4> QED
        BY <4>1, <4>2
    <3>3. lost' \in [Topics' -> Nat]
      <4>1. \A t \in Topics' : lost[t] + Cardinality(Gone(t)) \in Nat
        BY <2>1, <2>6, <2>11 DEF BoardTypeOK
      <4> HIDE DEF Gone
      <4> QED
        BY <2>5, <2>6, <4>1
    <3> HIDE DEF Gone, Counted
    <3> QED
      BY <2>1, <2>5, <2>8, <2>10, <3>1, <3>2, <3>3 DEF BoardTypeOK
  <2>13. TwoLevels'
    <3>1. \A r \in Replies' : reply'[r].parent # None => reply'[reply'[r].parent].parent = None
      BY <2>1, <2>6, <2>12 DEF TwoLevels, BoardTypeOK
    <3>2. \A g \in Handlers : At(g, "reply")' /\ call'[g].arg \in Replies' => reply'[call'[g].arg].parent = None
      BY <2>1, <2>6, <2>8 DEF TwoLevels, At
    <3> QED
      BY <3>1, <3>2 DEF TwoLevels
  <2>14. BoardCounters'
    <3>1. ASSUME NEW t \in Topics' PROVE discussion'[t].replies = Cardinality(RepliesOf(t)') + lost'[t]
      <4>1. discussion[t].replies = Cardinality(RepliesOf(t)) + lost[t] /\ lost[t] \in Nat
        BY <2>1, <2>6 DEF BoardCounters, BoardTypeOK
      <4>2. lost'[t] = lost[t] + Cardinality(Gone(t)) /\ Counted(t) \in Int
        BY <2>5, <2>6
      <4> HIDE DEF Gone, Counted
      <4> QED
        BY <2>10, <2>11, <4>1, <4>2
    <3>2. ASSUME NEW k \in Items' PROVE Up(k)' = Up(k)
      <4>1. k \in Topics' <=> k \in Topics
        BY <2>1, <2>4, <2>6, <3>2 DEF BoardTypeOK, Items
      <4>2. k \in Topics' \/ k \in Replies'
        BY <3>2 DEF Items
      <4> HIDE DEF Counted
      <4> QED
        BY <2>6, <2>10, <4>1, <4>2 DEF Up
    <3>3. \A k, value : VotesOf(k, value)' = VotesOf(k, value)
      BY <2>5 DEF VotesOf
    <3> QED
      BY <2>1, <2>7, <3>1, <3>2, <3>3 DEF BoardCounters
  <2> QED
    BY <2>8, <2>9, <2>12, <2>13, <2>14 DEF BoardInv
<1> QED
  BY <1>2, <1>3 DEF Delete

Voted(v, a) ==
  IF v \in DOMAIN votes /\ votes[v] = a
  THEN Restrict(votes, DOMAIN votes \ {v}) ELSE Extend(votes, v, a)
Change(v, a) == IF v \notin DOMAIN votes THEN 1 ELSE IF votes[v] = a THEN -1 ELSE 2

\* What one vote does to the votes on its item: it adds one, takes one back
\* or turns one round.
LEMMA VoteCounts ==
  ASSUME BoardTypeOK, NEW u \in Users, NEW i \in 1..calls, NEW a \in {1, -1}, NEW b \in {1, -1}, b # a,
         NEW v, v = <<u, i>>, votes' = Voted(v, a)
  PROVE  /\ DOMAIN votes' \subseteq DOMAIN votes \union {v}
         /\ \A w \in DOMAIN votes' : votes'[w] \in {1, -1}
         /\ \A k, value : k # i => VotesOf(k, value)' = VotesOf(k, value)
         /\ Cardinality(VotesOf(i, a)') - Cardinality(VotesOf(i, b)')
              = Cardinality(VotesOf(i, a)) - Cardinality(VotesOf(i, b)) + Change(v, a)
<1>1. /\ DOMAIN votes \subseteq Users \X (1..calls) /\ IsFiniteSet(DOMAIN votes) /\ v[2] = i
      /\ \A w \in DOMAIN votes : votes[w] \in {a, b}
  BY RowsAreFinite DEF BoardTypeOK
<1>2. \A value : IsFiniteSet(VotesOf(i, value)) /\ Cardinality(VotesOf(i, value)) \in Nat
  <2> SUFFICES ASSUME NEW value PROVE IsFiniteSet(VotesOf(i, value)) /\ Cardinality(VotesOf(i, value)) \in Nat
    OBVIOUS
  <2>1. VotesOf(i, value) \subseteq DOMAIN votes
    BY DEF VotesOf
  <2> QED
    BY <1>1, <2>1, FS_Subset, FS_CardinalityType
<1>3. PICK A : A = VotesOf(i, a)
  OBVIOUS
<1>4. PICK B : B = VotesOf(i, b)
  OBVIOUS
<1>5. IsFiniteSet(A) /\ IsFiniteSet(B) /\ Cardinality(A) \in Nat /\ Cardinality(B) \in Nat
  BY <1>2, <1>3, <1>4
<1>6. CASE v \notin DOMAIN votes
  <2>1. /\ DOMAIN votes' = DOMAIN votes \union {v} /\ votes'[v] = a
        /\ \A w \in DOMAIN votes : votes'[w] = votes[w]
    BY <1>6 DEF Extend, Voted
  <2>2. VotesOf(i, a)' = A \union {v} /\ VotesOf(i, b)' = B /\ v \notin A
    BY <1>1, <1>3, <1>4, <1>6, <2>1 DEF VotesOf
  <2>3. \A k, value : k # i => VotesOf(k, value)' = VotesOf(k, value)
    BY <1>1, <1>6, <2>1 DEF VotesOf
  <2>4. Cardinality(VotesOf(i, a)') = Cardinality(A) + 1
    BY <1>5, <2>2, FS_AddElement
  <2>5. \A w \in DOMAIN votes' : votes'[w] \in {1, -1}
    BY <1>1, <2>1
  <2> QED
    BY <1>3, <1>4, <1>5, <1>6, <2>1, <2>2, <2>3, <2>4, <2>5 DEF Change
<1>7. CASE v \in DOMAIN votes /\ votes[v] = a
  <2>1. /\ DOMAIN votes' = DOMAIN votes \ {v}
        /\ \A w \in DOMAIN votes' : votes'[w] = votes[w]
    BY <1>7 DEF Restrict, Voted
  <2>2. VotesOf(i, a)' = A \ {v} /\ VotesOf(i, b)' = B /\ v \in A
    BY <1>1, <1>3, <1>4, <1>7, <2>1 DEF VotesOf
  <2>3. \A k, value : k # i => VotesOf(k, value)' = VotesOf(k, value)
    BY <1>1, <2>1 DEF VotesOf
  <2>4. Cardinality(VotesOf(i, a)') = Cardinality(A) - 1
    BY <1>5, <2>2, FS_RemoveElement
  <2>5. \A w \in DOMAIN votes' : votes'[w] \in {1, -1}
    BY <1>1, <2>1
  <2>6. Cardinality(VotesOf(i, a)') - Cardinality(VotesOf(i, b)') = Cardinality(A) - Cardinality(B) + -1
    BY <1>5, <2>2, <2>4
  <2>7. DOMAIN votes' \subseteq DOMAIN votes \union {v}
    BY <2>1
  <2> QED
    BY <1>3, <1>4, <1>7, <2>3, <2>5, <2>6, <2>7 DEF Change
<1>8. CASE v \in DOMAIN votes /\ votes[v] # a
  <2>1. /\ DOMAIN votes' = DOMAIN votes /\ votes'[v] = a /\ votes[v] = b
        /\ \A w \in DOMAIN votes \ {v} : votes'[w] = votes[w]
    BY <1>1, <1>8 DEF Extend, Voted
  <2>2. VotesOf(i, a)' = A \union {v} /\ VotesOf(i, b)' = B \ {v} /\ v \notin A /\ v \in B
    BY <1>1, <1>3, <1>4, <1>8, <2>1 DEF VotesOf
  <2>3. \A k, value : k # i => VotesOf(k, value)' = VotesOf(k, value)
    BY <1>1, <2>1 DEF VotesOf
  <2>4. Cardinality(VotesOf(i, a)') = Cardinality(A) + 1
    BY <1>5, <2>2, FS_AddElement
  <2>5. Cardinality(VotesOf(i, b)') = Cardinality(B) - 1
    BY <1>5, <2>2, FS_RemoveElement
  <2>6. \A w \in DOMAIN votes' : votes'[w] \in {1, -1}
    BY <1>1, <2>1
  <2> QED
    BY <1>3, <1>4, <1>5, <1>8, <2>1, <2>2, <2>3, <2>4, <2>5, <2>6 DEF Change
<1> QED
  BY <1>6, <1>7, <1>8

LEMMA VoteInv ==
  ASSUME BoardInv, NEW h \in Handlers, vote(h)
  PROVE  BoardInv'
<1>1. At(h, "vote") /\ ~At(h, "idle")
  BY DEF vote, At
<1>2. CASE Rollback(h)
  BY <1>1, <1>2, RollbackInv
<1>3. CASE Counts(h) /\ ~Rollback(h)
  <2> DEFINE Row == [author : Users, up : Nat, replies : Int, pinned : BOOLEAN, text : Id]
             Reply == [discussion : Topics, author : Users, parent : Replies \union {None}, up : Nat, text : Id]
  <2>1. BoardTypeOK /\ CallTypes /\ FreshRows /\ TwoLevels /\ BoardCounters
    BY DEF BoardInv
  <2>2. PICK u : u = User(h)
    OBVIOUS
  <2>3. PICK i : i = Item(h)
    OBVIOUS
  <2>4. PICK a : a = call[h].arg
    OBVIOUS
  <2>5. u \in Users /\ i \in 1..calls /\ i \in Items /\ a \in {1, -1}
    BY <1>1, <1>3, <2>1, <2>2, <2>3, <2>4 DEF BoardTypeOK, CallTypes, Counts
  <2>6. PICK v : v = <<u, i>>
    OBVIOUS
  <2>7. PICK up : up = Up(i) + Delta(v, a)
    OBVIOUS
  <2>8. /\ votes' = Voted(v, a)
        /\ \/ /\ i \in Topics /\ discussion' = [discussion EXCEPT ![i].up = @ + Delta(v, a)] /\ UNCHANGED reply
           \/ /\ i \notin Topics /\ reply' = [reply EXCEPT ![i].up = @ + Delta(v, a)] /\ UNCHANGED discussion
        /\ End(h) /\ UNCHANGED lost /\ up >= 0
    BY <1>3, <2>2, <2>3, <2>4, <2>6, <2>7, Zenon DEF vote, Counts, Voted
  <2>9. PICK b \in {1, -1} : b # a /\ b = -a
    BY <2>5
  <2>10. /\ DOMAIN votes' \subseteq DOMAIN votes \union {v}
         /\ \A w \in DOMAIN votes' : votes'[w] \in {1, -1}
         /\ \A k, value : k # i => VotesOf(k, value)' = VotesOf(k, value)
         /\ Cardinality(VotesOf(i, a)') - Cardinality(VotesOf(i, b)')
              = Cardinality(VotesOf(i, a)) - Cardinality(VotesOf(i, b)) + Change(v, a)
    <3>1. /\ BoardTypeOK /\ u \in Users /\ i \in 1..calls /\ a \in {1, -1} /\ b \in {1, -1} /\ b # a
          /\ v = <<u, i>> /\ votes' = Voted(v, a)
      BY <2>1, <2>5, <2>6, <2>8, <2>9
    <3> QED
      BY <3>1, VoteCounts
  <2>11. /\ Up(i) \in Nat /\ Delta(v, a) \in Int
         /\ Up(i) = Cardinality(VotesOf(i, 1)) - Cardinality(VotesOf(i, -1))
    BY <2>1, <2>5 DEF BoardTypeOK, BoardCounters, Up, Items, Delta
  <2>12. up \in Nat
    BY <2>7, <2>8, <2>11
  <2>13. \A value \in {1, -1} : /\ Cardinality(VotesOf(i, value)) \in Nat
                                /\ Cardinality(VotesOf(i, value)') \in Nat
    <3>1. \A value : VotesOf(i, value) \subseteq DOMAIN votes /\ VotesOf(i, value)' \subseteq DOMAIN votes'
      BY DEF VotesOf
    <3>2. IsFiniteSet(DOMAIN votes) /\ IsFiniteSet(DOMAIN votes \union {v})
      BY <2>1, RowsAreFinite, FS_AddElement
    <3>3. IsFiniteSet(DOMAIN votes')
      BY <2>10, <3>2, FS_Subset
    <3> QED
      BY <3>1, <3>2, <3>3, FS_Subset, FS_CardinalityType
  <2>14. up = Cardinality(VotesOf(i, 1)') - Cardinality(VotesOf(i, -1)')
    <3>1. Delta(v, a) = IF v \notin DOMAIN votes THEN a ELSE IF votes[v] = a THEN -a ELSE 2 * a
      BY DEF Delta
    <3>2. CASE a = 1
      <4>1. b = -1
        BY <2>9, <3>2
      <4> QED
        BY <2>7, <2>10, <2>11, <2>13, <3>1, <3>2, <4>1 DEF Change
    <3>3. CASE a = -1
      <4>1. b = 1
        BY <2>9, <3>3
      <4> QED
        <5>1. /\ Cardinality(VotesOf(i, -1)') - Cardinality(VotesOf(i, 1)')
                   = Cardinality(VotesOf(i, -1)) - Cardinality(VotesOf(i, 1))
                     + (IF v \notin DOMAIN votes THEN 1 ELSE IF votes[v] = -1 THEN -1 ELSE 2)
              /\ Delta(v, a) = IF v \notin DOMAIN votes THEN -1 ELSE IF votes[v] = -1 THEN 1 ELSE -2
          BY <2>10, <3>1, <3>3, <4>1 DEF Change
        <5>2. /\ Cardinality(VotesOf(i, 1)) \in Nat /\ Cardinality(VotesOf(i, -1)) \in Nat
              /\ Cardinality(VotesOf(i, 1)') \in Nat /\ Cardinality(VotesOf(i, -1)') \in Nat
          BY <2>13
        <5> QED
          BY <2>7, <2>11, <5>1, <5>2
    <3> QED
      BY <2>5, <3>2, <3>3
  <2>15. /\ Topics' = Topics /\ Replies' = Replies
         /\ Up(i)' = up /\ \A k \in Items \ {i} : Up(k)' = Up(k)
         /\ \A t \in Topics : discussion'[t] \in Row /\ discussion'[t].replies = discussion[t].replies
         /\ \A r \in Replies : /\ reply'[r] \in Reply /\ reply'[r].parent = reply[r].parent
                               /\ reply'[r].discussion = reply[r].discussion
    <3>1. CASE /\ i \in Topics /\ discussion' = [discussion EXCEPT ![i].up = @ + Delta(v, a)]
               /\ UNCHANGED reply
      <4>1. PICK row : row = discussion[i]
        OBVIOUS
      <4>2. row \in Row /\ up = row.up + Delta(v, a)
        BY <2>1, <2>7, <3>1, <4>1 DEF BoardTypeOK, Up
      <4>3. PICK new : new = [row EXCEPT !.up = up]
        OBVIOUS
      <4>4. new \in Row /\ new.up = up /\ new.replies = row.replies
        BY <2>12, <4>2, <4>3
      <4>5. discussion' = [discussion EXCEPT ![i] = new]
        BY <3>1, <4>1, <4>2, <4>3
      <4>6. /\ Topics' = Topics /\ Replies' = Replies
            /\ discussion'[i] = new /\ \A t \in Topics \ {i} : discussion'[t] = discussion[t]
        BY <3>1, <4>5 DEF Topics, Replies
      <4>7. Up(i)' = up /\ \A k \in Items \ {i} : Up(k)' = Up(k)
        BY <3>1, <4>4, <4>6 DEF Up, Items
      <4>8. \A t \in Topics : discussion'[t] \in Row /\ discussion'[t].replies = discussion[t].replies
        BY <2>1, <4>1, <4>4, <4>6 DEF BoardTypeOK
      <4> QED
        BY <2>1, <3>1, <4>6, <4>7, <4>8 DEF BoardTypeOK
    <3>2. CASE /\ i \notin Topics /\ reply' = [reply EXCEPT ![i].up = @ + Delta(v, a)]
               /\ UNCHANGED discussion
      <4>1. PICK row : row = reply[i]
        OBVIOUS
      <4>2. row \in Reply /\ up = row.up + Delta(v, a) /\ i \in Replies
        BY <2>1, <2>5, <2>7, <3>2, <4>1 DEF BoardTypeOK, Up, Items
      <4>3. PICK new : new = [row EXCEPT !.up = up]
        OBVIOUS
      <4>4. new \in Reply /\ new.up = up /\ new.parent = row.parent /\ new.discussion = row.discussion
        BY <2>12, <4>2, <4>3
      <4>5. reply' = [reply EXCEPT ![i] = new]
        BY <3>2, <4>1, <4>2, <4>3
      <4>6. /\ Topics' = Topics /\ Replies' = Replies
            /\ reply'[i] = new /\ \A r \in Replies \ {i} : reply'[r] = reply[r]
        BY <3>2, <4>2, <4>5 DEF Topics, Replies
      <4>7. Up(i)' = up /\ \A k \in Items \ {i} : Up(k)' = Up(k)
        BY <3>2, <4>4, <4>6 DEF Up, Items
      <4>8. \A r \in Replies : /\ reply'[r] \in Reply /\ reply'[r].parent = reply[r].parent
                               /\ reply'[r].discussion = reply[r].discussion
        BY <2>1, <4>1, <4>4, <4>6 DEF BoardTypeOK
      <4> QED
        BY <2>1, <3>2, <4>6, <4>7, <4>8 DEF BoardTypeOK
    <3> QED
      BY <2>8, <3>1, <3>2
  <2>16. Items' = Items
    BY <2>15 DEF Items
  <2>17. /\ CallTypes' /\ calls' = calls
         /\ \A g \in Handlers : ~At(g, "idle")' => g # h /\ ~At(g, "idle") /\ call'[g] = call[g]
         /\ \A g \in Handlers : ~At(g, "idle")' => User(g)' \in Users /\ Item(g)' \in 1..calls' /\ N(g)' \in 1..calls'
    BY <2>1, <2>8, EndCalls
  <2>18. FreshRows'
    BY <1>1, <2>1, <2>5, <2>6, <2>8, <2>10, <2>16, EndFresh
  <2>19. BoardTypeOK'
    <3>1. DOMAIN votes' \subseteq Users \X (1..calls)
      BY <2>1, <2>5, <2>6, <2>10 DEF BoardTypeOK
    <3> QED
      BY <2>1, <2>8, <2>10, <2>15, <2>17, <3>1 DEF BoardTypeOK
  <2>20. TwoLevels'
    <3>1. ASSUME NEW r \in Replies, reply'[r].parent # None PROVE reply'[reply'[r].parent].parent = None
      <4>1. reply[r].parent \in Replies /\ reply'[r].parent = reply[r].parent
        BY <2>1, <2>15, <3>1 DEF BoardTypeOK
      <4> QED
        BY <2>1, <2>15, <3>1, <4>1 DEF TwoLevels
    <3>2. \A g \in Handlers : At(g, "reply")' /\ call'[g].arg \in Replies => reply'[call'[g].arg].parent = None
      BY <2>1, <2>15, <2>17 DEF TwoLevels, At
    <3> QED
      BY <2>15, <3>1, <3>2 DEF TwoLevels
  <2>21. BoardCounters'
    <3>1. \A t \in Topics : RepliesOf(t)' = RepliesOf(t)
      BY <2>15 DEF RepliesOf
    <3>2. \A k \in Items : Up(k)' = Cardinality(VotesOf(k, 1)') - Cardinality(VotesOf(k, -1)')
      BY <2>1, <2>10, <2>14, <2>15 DEF BoardCounters
    <3> QED
      BY <2>1, <2>8, <2>15, <2>16, <3>1, <3>2 DEF BoardCounters
  <2> QED
    BY <2>17, <2>18, <2>19, <2>20, <2>21 DEF BoardInv
<1> QED
  BY <1>2, <1>3, Zenon DEF vote

\* Every step of the board.
LEMMA WriteInv ==
  ASSUME BoardInv, NEW h \in Handlers, Write(h)
  PROVE  BoardInv'
<1>1. ASSUME NEW u \in Users, NEW t \in Id, NEW parent \in Id \union {None}, ReplyRequest(h, u, t, parent)
      PROVE  BoardInv'
  <2>1. t \in Items /\ (parent = None \/ (parent \in Replies /\ reply[parent].parent = None))
        /\ Begin(h, "reply", u, t, parent)
    BY <1>1 DEF ReplyRequest, Items
  <2> QED
    BY <1>1, <2>1, BeginInv
<1>2. ASSUME NEW u \in Users, NEW i \in Id, NEW value \in {1, -1}, VoteRequest(h, u, i, value)
      PROVE  BoardInv'
  BY <1>2, BeginInv DEF VoteRequest
<1>3. ASSUME NEW u \in Users, NEW i \in Id, EditRequest(h, u, i) \/ DeleteRequest(h, u, i)
      PROVE  BoardInv'
  BY <1>3, BeginInv DEF EditRequest, DeleteRequest
<1>4. ASSUME NEW u \in Users, NEW t \in Id, NEW isPinned \in BOOLEAN, PinRequest(h, u, t, isPinned)
      PROVE  BoardInv'
  <2>1. t \in Items /\ (Begin(h, "pin", u, t, None) \/ Begin(h, "unpin", u, t, None))
    BY <1>4 DEF PinRequest, Items
  <2> QED
    BY <1>4, <2>1, BeginInv
<1> QED
  BY <1>1, <1>2, <1>3, <1>4, CreateReplyInv, UpdateInv, PinInv, DeleteInv DEF Write

-----------------------------------------------------------------------------
\* The rewards.

JobSet ==
  [at : Replicas, n : Int, user : Users, pc : {"count", "award", "tell"},
   codes : Seq(Badges \union {"NEW_FOLLOWER"})]
NoteSet ==
  [from : Replicas \X Int, user : Users, kind : Badges \union {"NEW_FOLLOWER"},
   read : BOOLEAN, old : BOOLEAN]

Earned(u, code) ==
  \A k \in DOMAIN SUBMISSION_BADGES :
    SUBMISSION_BADGES[k].code = code => peak[u] >= SUBMISSION_BADGES[k].threshold

\* A follow tells, and an evaluation goes through badges the user has earned.
JobInv(j) ==
  /\ j \in JobSet
  /\ j.pc = "count" <=> j.codes = << >>
  /\ j.pc = "award" => j.codes \in Seq(Badges)
  /\ j.pc = "tell" => j.codes \in Seq(Badges) \/ j.codes = <<"NEW_FOLLOWER">>
  /\ \A k \in 1..Len(j.codes) : Earned(j.user, j.codes[k])

RewardTypes ==
  /\ follows \subseteq Users \X Users
  /\ followers \in [Users -> Nat] /\ following \in [Users -> Nat] /\ scored \in [Users -> Nat]
  /\ peak \in [Users -> Nat] /\ \A u \in Users : scored[u] <= peak[u]
  /\ badges \subseteq Users \X Badges
  /\ events \in 0..MaxEvents
  /\ \A j \in jobs : JobInv(j)
  /\ notes \subseteq NoteSet
  /\ seen \in [silent : SUBSET (Users \X (Badges \union {"NEW_FOLLOWER"})),
               cleaned : SUBSET (Users \X (Badges \union {"NEW_FOLLOWER"}))]

\* One trace of the announcement of a badge: the note, the job that will
\* write it, or what became of one of them.
Traced(u, code) ==
  LET goal == <<u, code>>
  IN  \/ /\ goal \notin badges
         /\ Notes(u, code) = {} /\ Telling(u, code) = {} /\ goal \notin seen.silent /\ goal \notin seen.cleaned
      \/ /\ goal \in badges
         /\ \E n \in notes : Notes(u, code) = {n}
         /\ Telling(u, code) = {} /\ goal \notin seen.silent /\ goal \notin seen.cleaned
      \/ /\ goal \in badges
         /\ \E j \in jobs : Telling(u, code) = {j}
         /\ Notes(u, code) = {} /\ goal \notin seen.silent /\ goal \notin seen.cleaned
      \/ /\ goal \in badges
         /\ Notes(u, code) = {} /\ Telling(u, code) = {} /\ goal \in seen.silent /\ goal \notin seen.cleaned
      \/ /\ goal \in badges
         /\ Notes(u, code) = {} /\ Telling(u, code) = {} /\ goal \notin seen.silent /\ goal \in seen.cleaned

AwardInv ==
  \A u \in Users, code \in Badges :
    Traced(u, code) /\ (<<u, code>> \in badges => Earned(u, code))

RewardInv == RewardTypes /\ FollowCounters /\ AwardInv

CommunityInv == BoardInv /\ RewardInv

LEMMA RewardInitInv == RewardInit => RewardInv
<1> SUFFICES ASSUME RewardInit PROVE RewardInv
  OBVIOUS
<1>1. /\ follows = {} /\ badges = {} /\ notes = {} /\ jobs = {} /\ events = 0
      /\ followers = [u \in Users |-> 0] /\ following = [u \in Users |-> 0] /\ scored = [u \in Users |-> 0]
      /\ peak = [u \in Users |-> 0]
      /\ seen = [silent |-> {}, cleaned |-> {}]
  BY DEF RewardInit
<1>2. RewardTypes
  BY <1>1, RewardsAssumption DEF RewardTypes
<1>3. FollowCounters
  <2>1. \A u \in Users : {f \in follows : f[2] = u} = {} /\ {f \in follows : f[1] = u} = {}
    BY <1>1
  <2> QED
    BY <1>1, <2>1, FS_EmptySet DEF FollowCounters
<1>4. AwardInv
  BY <1>1 DEF AwardInv, Traced, Notes, Telling
<1> QED
  BY <1>2, <1>3, <1>4 DEF RewardInv

LEMMA RewardTypesSuffice == RewardTypes => RewardTypeOK
<1> SUFFICES ASSUME RewardTypes PROVE RewardTypeOK
  OBVIOUS
<1>1. ASSUME NEW n \in notes PROVE n.user \in Users /\ n.kind \in Badges \union {"NEW_FOLLOWER"}
  BY <1>1 DEF RewardTypes, NoteSet
<1>2. ASSUME NEW j \in jobs PROVE JobType(j)
  <2>1. JobInv(j)
    BY <1>2 DEF RewardTypes
  <2>2. /\ j.at \in Replicas /\ j.user \in Users /\ j.n \in Int /\ j.pc \in {"count", "award", "tell"}
        /\ j.codes \in Seq(Badges \union {"NEW_FOLLOWER"})
    BY <2>1 DEF JobInv, JobSet
  <2> QED
    BY <2>1, <2>2 DEF JobInv, JobType
<1> QED
  BY <1>1, <1>2 DEF RewardTypes, RewardTypeOK

-----------------------------------------------------------------------------
\* The table.

LEMMA BadgeTable ==
  /\ Len(SUBMISSION_BADGES) \in Nat /\ DOMAIN SUBMISSION_BADGES = 1..Len(SUBMISSION_BADGES)
  /\ \A k \in DOMAIN SUBMISSION_BADGES :
       SUBMISSION_BADGES[k].code \in Submission /\ SUBMISSION_BADGES[k].threshold \in Nat
<1>1. SUBMISSION_BADGES \in Seq([code : STRING, threshold : Nat])
  BY RewardsAssumption
<1>2. /\ Len(SUBMISSION_BADGES) \in Nat /\ DOMAIN SUBMISSION_BADGES = 1..Len(SUBMISSION_BADGES)
      /\ SUBMISSION_BADGES \in [1..Len(SUBMISSION_BADGES) -> [code : STRING, threshold : Nat]]
  BY <1>1, LenProperties, Zenon
<1>3. \A k \in DOMAIN SUBMISSION_BADGES : SUBMISSION_BADGES[k] \in [code : STRING, threshold : Nat]
  BY <1>2
<1>4. \A k \in DOMAIN SUBMISSION_BADGES : SUBMISSION_BADGES[k].code \in Submission
  BY DEF Submission
<1> QED
  BY <1>2, <1>3, <1>4

\* The badges an evaluation goes through are those whose threshold the count
\* has reached.
LEMMA ReachedIsDue ==
  ASSUME NEW count \in Nat
  PROVE  /\ Reached(count) \in Seq(Badges)
         /\ \A k \in 1..Len(Reached(count)) : \A b \in DOMAIN SUBMISSION_BADGES :
              SUBMISSION_BADGES[b].code = Reached(count)[k] => count >= SUBMISSION_BADGES[b].threshold
<1>1. PICK len \in Nat : len = Len(SUBMISSION_BADGES) /\ DOMAIN SUBMISSION_BADGES = 1..len
  BY BadgeTable
<1>2. \A k \in 1..len : SUBMISSION_BADGES[k].code \in Submission /\ SUBMISSION_BADGES[k].threshold \in Nat
  BY <1>1, BadgeTable
<1>3. Due(count) \subseteq 1..len /\ IsFiniteSet(1..len) /\ Cardinality(1..len) = len
  <2>1. Due(count) \subseteq 1..len
    BY <1>1 DEF Due
  <2>2. len \in Int /\ 1 \in Int
    OBVIOUS
  <2>3. IsFiniteSet(1..len) /\ Cardinality(1..len) = IF 1 > len THEN 0 ELSE len - 1 + 1
    BY <2>2, FS_Interval, Zenon
  <2> QED
    BY <2>1, <2>3
<1>4. PICK m : m = Cardinality(Due(count))
  OBVIOUS
<1>5. m \in Nat /\ m <= len
  BY <1>3, <1>4, FS_Subset, FS_CardinalityType
<1>6. ASSUME NEW k \in 1..m PROVE k \in Due(count)
  <2> SUFFICES ASSUME k \notin Due(count) PROVE FALSE
    OBVIOUS
  <2>1. k \in 1..len
    BY <1>5
  <2>2. ASSUME NEW j \in Due(count) PROVE j \in 1..(k - 1)
    <3>1. j \in 1..len /\ count >= SUBMISSION_BADGES[j].threshold /\ j # k
      BY <1>1 DEF Due
    <3>2. CASE k < j
      <4>1. SUBMISSION_BADGES[k].threshold <= SUBMISSION_BADGES[j].threshold
        BY <1>1, <2>1, <3>1, <3>2, TableAssumption
      <4>2. count >= SUBMISSION_BADGES[k].threshold
        BY <1>2, <2>1, <3>1, <4>1
      <4> QED
        BY <1>1, <2>1, <4>2 DEF Due
    <3> QED
      BY <2>1, <3>1, <3>2
  <2>3. k - 1 \in Nat /\ IsFiniteSet(1..(k - 1)) /\ Cardinality(1..(k - 1)) = k - 1
    BY <2>1, FS_Interval
  <2>4. m <= k - 1
    BY <1>4, <2>2, <2>3, FS_Subset
  <2> QED
    BY <1>5, <2>1, <2>4
<1>7. /\ Reached(count) = [k \in 1..m |-> SUBMISSION_BADGES[k].code]
      /\ \A k \in 1..m : SUBMISSION_BADGES[k].code \in Badges
  BY <1>2, <1>4, <1>5 DEF Reached, Badges
<1>8. Reached(count) \in Seq(Badges) /\ Len(Reached(count)) = m
  BY <1>5, <1>7
<1>9. ASSUME NEW k \in 1..m, NEW b \in 1..len, SUBMISSION_BADGES[b].code = Reached(count)[k]
      PROVE  count >= SUBMISSION_BADGES[b].threshold
  <2>1. k \in 1..len /\ SUBMISSION_BADGES[b].code = SUBMISSION_BADGES[k].code
    BY <1>5, <1>7, <1>9
  <2>2. b = k
    BY <1>1, <2>1, TableAssumption
  <2> QED
    BY <1>6, <2>2 DEF Due
<1> QED
  BY <1>1, <1>8, <1>9

\* What is left of a job after its first badge.
LEMMA TailJob ==
  ASSUME NEW j, JobInv(j), j.pc # "count", NEW x \in Tail1(j)
  PROVE  JobInv(x) /\ x.pc = "award"
<1>1. Len(j.codes) # 1 /\ x = [j EXCEPT !.pc = "award", !.codes = Tail(j.codes)]
  BY DEF Tail1
<1>2. j \in JobSet /\ j.codes # << >> /\ j.codes \in Seq(Badges)
  <2>1. j \in JobSet /\ j.pc \in {"award", "tell"} /\ j.codes # << >>
    BY DEF JobInv, JobSet
  <2>2. Len(<<"NEW_FOLLOWER">>) = 1
    OBVIOUS
  <2>3. j.codes # <<"NEW_FOLLOWER">>
    BY <1>1, <2>2
  <2> QED
    BY <2>1, <2>3 DEF JobInv
<1>3. PICK all : all = j.codes /\ all \in Seq(Badges) /\ all # << >> /\ Len(all) # 1
  BY <1>1, <1>2
<1>4. PICK codes : codes = Tail(all)
  OBVIOUS
<1>5. Len(all) \in Nat /\ Len(all) > 1
  <2>1. \A seq \in Seq(Badges) : seq # << >> => Len(seq) \in Nat \ {0}
    BY EmptySeq, Zenon
  <2>2. Len(all) \in Nat \ {0}
    BY <1>3, <2>1
  <2>3. Len(all) # 1
    BY <1>3, Zenon
  <2>4. \A n \in Nat \ {0} : n # 1 => n \in Nat /\ n > 1
    OBVIOUS
  <2> QED
    BY <2>2, <2>3, <2>4, Zenon
<1>6. codes \in Seq(Badges) /\ Len(codes) = Len(all) - 1
  BY <1>3, <1>4, HeadTailProperties
<1>7. \A k \in 1..Len(codes) : k + 1 \in 1..Len(all) /\ codes[k] = all[k + 1]
  BY <1>3, <1>4, <1>5, <1>6
<1>8. codes # << >>
  BY <1>5, <1>6
<1>9. codes \in Seq(Badges \union {"NEW_FOLLOWER"})
  BY <1>6
<1>10. x = [j EXCEPT !.pc = "award", !.codes = codes]
  BY <1>1, <1>3, <1>4
<1>11. x \in JobSet
  BY <1>2, <1>9, <1>10, Zenon DEF JobSet
<1>12. x.pc = "award" /\ x.codes = codes /\ x.user = j.user
  BY <1>2, <1>10 DEF JobSet
<1>13. \A k \in 1..Len(codes) : Earned(x.user, codes[k])
  BY <1>3, <1>7, <1>12 DEF JobInv
<1> QED
  BY <1>6, <1>8, <1>11, <1>12, <1>13 DEF JobInv

\* A job goes on to another step.
LEMMA MovedJob ==
  ASSUME NEW j, j \in JobSet, NEW pc \in {"count", "award", "tell"}, NEW x, x = [j EXCEPT !.pc = pc]
  PROVE  x \in JobSet /\ x.pc = pc /\ x.codes = j.codes /\ x.user = j.user /\ Goal(x) = Goal(j)
BY DEF JobSet, Goal

-----------------------------------------------------------------------------
\* Parts of the invariant.

\* Only the highest count of scored submissions bears on what a job may hold.
LEMMA JobsKeep ==
  ASSUME NEW j, JobInv(j), peak \in [Users -> Nat], peak' \in [Users -> Nat],
         \A u \in Users : peak'[u] >= peak[u]
  PROVE  JobInv(j)'
<1>1. j.user \in Users
  BY DEF JobInv, JobSet
<1>2. \A k \in DOMAIN SUBMISSION_BADGES : SUBMISSION_BADGES[k].threshold \in Nat
  BY BadgeTable
<1>3. \A k \in 1..Len(j.codes) : Earned(j.user, j.codes[k])'
  BY <1>1, <1>2 DEF JobInv, Earned
<1> QED
  BY <1>3 DEF JobInv

LEMMA QuietAward ==
  ASSUME RewardTypes, AwardInv, UNCHANGED <<badges, notes, seen>>, peak' \in [Users -> Nat],
         \A u \in Users : peak'[u] >= peak[u],
         \A u \in Users, code \in Badges : Telling(u, code)' = Telling(u, code)
  PROVE  AwardInv'
<1> SUFFICES ASSUME NEW u \in Users, NEW code \in Badges
             PROVE  Traced(u, code)' /\ (<<u, code>> \in badges' => Earned(u, code)')
  BY DEF AwardInv
<1>1. Traced(u, code) /\ (<<u, code>> \in badges => Earned(u, code))
  BY DEF AwardInv
<1>2. Notes(u, code)' = Notes(u, code) /\ Telling(u, code)' = Telling(u, code)
  BY DEF Notes
<1>3. \A j : Telling(u, code)' = {j} => j \in jobs'
  BY DEF Telling
<1>4. Traced(u, code)'
  BY <1>1, <1>2, <1>3 DEF Traced
<1>5. \A k \in DOMAIN SUBMISSION_BADGES : SUBMISSION_BADGES[k].threshold \in Nat
  BY BadgeTable
<1>6. Earned(u, code) => Earned(u, code)'
  BY <1>5 DEF Earned, RewardTypes
<1> QED
  BY <1>1, <1>4, <1>6

\* A follow tells the followed user, a vote has the author's badge looked at.
LEMMA NewJob ==
  ASSUME NEW p \in Replicas, NEW n \in Int, NEW u \in Users, NEW pc, NEW code,
         \/ pc = "award" /\ code = "HELPFUL"
         \/ pc = "tell" /\ code = "NEW_FOLLOWER",
         NEW x, x = Job(p, n, u, pc, <<code>>)
  PROVE  JobInv(x) /\ x.pc = pc /\ Goal(x) = <<u, code>>
<1>1. /\ x.at = p /\ x.n = n /\ x.user = u /\ x.pc = pc /\ x.codes = <<code>>
      /\ x = [at |-> p, n |-> n, user |-> u, pc |-> pc, codes |-> <<code>>]
  BY DEF Job
<1>2. PICK codes : codes = <<code>>
  OBVIOUS
<1>3. Len(codes) = 1 /\ codes[1] = code /\ Head(codes) = code /\ codes # << >>
  BY <1>2
<1>4. codes \in Seq(Badges \union {"NEW_FOLLOWER"}) /\ (code = "HELPFUL" => codes \in Seq(Badges))
  BY <1>2 DEF Badges
<1>5. x \in JobSet
  BY <1>1, <1>2, <1>4 DEF JobSet
<1>6. code \notin Submission
  BY TableAssumption
<1>7. Earned(u, code)
  BY <1>6 DEF Earned, Submission
<1>8. \A k \in 1..Len(codes) : Earned(x.user, codes[k])
  BY <1>1, <1>3, <1>7
<1> QED
  BY <1>1, <1>2, <1>3, <1>4, <1>5, <1>8 DEF JobInv, Goal

LEMMA SameJob ==
  ASSUME NEW j, UNCHANGED peak
  PROVE  JobInv(j)' <=> JobInv(j)
BY DEF JobInv, Earned

-----------------------------------------------------------------------------
\* Followers.

LEMMA FollowsAreFinite ==
  ASSUME RewardTypes, NEW u \in Users
  PROVE  IsFiniteSet({f \in follows : f[2] = u}) /\ IsFiniteSet({f \in follows : f[1] = u})
<1>1. IsFiniteSet(Users \X Users)
  BY FS_Product, RewardsAssumption
<1>2. IsFiniteSet(follows)
  BY <1>1, FS_Subset DEF RewardTypes
<1> QED
  BY <1>2, FS_Subset

LEMMA FollowInv ==
  ASSUME RewardInv, NEW u \in Users, NEW v \in Users, NEW p \in Replicas, follow(u, v, p)
  PROVE  RewardInv'
<1>1. RewardTypes /\ FollowCounters /\ AwardInv
  BY DEF RewardInv
<1>2. PICK n : n = events + 1
  OBVIOUS
<1>3. PICK x : x = Job(p, n, v, "tell", <<"NEW_FOLLOWER">>)
  OBVIOUS
<1>4. /\ events < MaxEvents /\ events' = events + 1 /\ <<u, v>> \notin follows
      /\ follows' = follows \union {<<u, v>>}
      /\ following' = [following EXCEPT ![u] = @ + 1] /\ followers' = [followers EXCEPT ![v] = @ + 1]
      /\ jobs' = jobs \union {x} /\ UNCHANGED <<scored, peak, badges, notes, seen>>
  BY <1>2, <1>3 DEF follow
<1>5. n \in Int
  BY <1>1, <1>2 DEF RewardTypes
<1>6. JobInv(x) /\ x.pc = "tell" /\ Goal(x) = <<v, "NEW_FOLLOWER">>
  BY <1>3, <1>5, NewJob
<1>7. "NEW_FOLLOWER" \notin Badges
  BY TableAssumption DEF Badges
<1>8. /\ followers' \in [Users -> Nat] /\ following' \in [Users -> Nat]
      /\ \A w \in Users : /\ followers'[w] = IF w = v THEN followers[w] + 1 ELSE followers[w]
                          /\ following'[w] = IF w = u THEN following[w] + 1 ELSE following[w]
  BY <1>1, <1>4 DEF RewardTypes
<1>9. RewardTypes'
  <2>1. \A j \in jobs' : JobInv(j)'
    BY <1>1, <1>4, <1>6, SameJob DEF RewardTypes
  <2>2. follows' \subseteq Users \X Users
    BY <1>1, <1>4 DEF RewardTypes
  <2>3. events' \in 0..MaxEvents
    BY <1>1, <1>4, RewardsAssumption DEF RewardTypes
  <2> QED
    BY <1>1, <1>4, <1>8, <2>1, <2>2, <2>3 DEF RewardTypes
<1>10. FollowCounters'
  <2> SUFFICES ASSUME NEW w \in Users
               PROVE  /\ followers'[w] = Cardinality({f \in follows' : f[2] = w})
                      /\ following'[w] = Cardinality({f \in follows' : f[1] = w})
    BY DEF FollowCounters
  <2>1. /\ followers[w] = Cardinality({f \in follows : f[2] = w})
        /\ following[w] = Cardinality({f \in follows : f[1] = w})
    BY <1>1 DEF FollowCounters
  <2>2. IsFiniteSet({f \in follows : f[2] = w}) /\ IsFiniteSet({f \in follows : f[1] = w})
    BY <1>1, FollowsAreFinite
  <2>3. followers'[w] = Cardinality({f \in follows' : f[2] = w})
    <3>1. CASE w = v
      <4>1. {f \in follows' : f[2] = w} = {f \in follows : f[2] = w} \union {<<u, v>>}
        BY <1>4, <3>1
      <4>2. <<u, v>> \notin {f \in follows : f[2] = w}
        BY <1>4
      <4>3. Cardinality({f \in follows' : f[2] = w}) = Cardinality({f \in follows : f[2] = w}) + 1
        BY <2>2, <4>1, <4>2, FS_AddElement
      <4> QED
        BY <1>8, <2>1, <3>1, <4>3
    <3>2. CASE w # v
      <4>1. {f \in follows' : f[2] = w} = {f \in follows : f[2] = w}
        BY <1>4, <3>2
      <4> QED
        BY <1>8, <2>1, <3>2, <4>1
    <3> QED
      BY <3>1, <3>2
  <2>4. following'[w] = Cardinality({f \in follows' : f[1] = w})
    <3>1. CASE w = u
      <4>1. {f \in follows' : f[1] = w} = {f \in follows : f[1] = w} \union {<<u, v>>}
        BY <1>4, <3>1
      <4>2. <<u, v>> \notin {f \in follows : f[1] = w}
        BY <1>4
      <4>3. Cardinality({f \in follows' : f[1] = w}) = Cardinality({f \in follows : f[1] = w}) + 1
        BY <2>2, <4>1, <4>2, FS_AddElement
      <4> QED
        BY <1>8, <2>1, <3>1, <4>3
    <3>2. CASE w # u
      <4>1. {f \in follows' : f[1] = w} = {f \in follows : f[1] = w}
        BY <1>4, <3>2
      <4> QED
        BY <1>8, <2>1, <3>2, <4>1
    <3> QED
      BY <3>1, <3>2
  <2> QED
    BY <2>3, <2>4
<1>11. \A w \in Users, code \in Badges : Telling(w, code)' = Telling(w, code)
  BY <1>4, <1>6, <1>7 DEF Telling
<1>12. AwardInv'
  BY <1>1, <1>4, <1>11, QuietAward DEF RewardTypes
<1> QED
  BY <1>9, <1>10, <1>12 DEF RewardInv

LEMMA UnfollowInv ==
  ASSUME RewardInv, NEW u \in Users, NEW v \in Users, unfollow(u, v)
  PROVE  RewardInv'
<1>1. RewardTypes /\ FollowCounters /\ AwardInv
  BY DEF RewardInv
<1>2. /\ events < MaxEvents /\ events' = events + 1 /\ <<u, v>> \in follows
      /\ follows' = follows \ {<<u, v>>}
      /\ following' = [following EXCEPT ![u] = @ - 1] /\ followers' = [followers EXCEPT ![v] = @ - 1]
      /\ UNCHANGED <<scored, peak, badges, notes, jobs, seen>>
  BY DEF unfollow
<1>3. /\ DOMAIN followers' = Users /\ DOMAIN following' = Users
      /\ \A w \in Users : /\ followers'[w] = IF w = v THEN followers[w] - 1 ELSE followers[w]
                          /\ following'[w] = IF w = u THEN following[w] - 1 ELSE following[w]
      /\ followers' = [w \in Users |-> followers'[w]] /\ following' = [w \in Users |-> following'[w]]
  BY <1>1, <1>2 DEF RewardTypes
<1>4. ASSUME NEW w \in Users
      PROVE  /\ followers'[w] = Cardinality({f \in follows' : f[2] = w}) /\ followers'[w] \in Nat
             /\ following'[w] = Cardinality({f \in follows' : f[1] = w}) /\ following'[w] \in Nat
  <2>1. /\ followers[w] = Cardinality({f \in follows : f[2] = w}) /\ followers[w] \in Nat
        /\ following[w] = Cardinality({f \in follows : f[1] = w}) /\ following[w] \in Nat
    BY <1>1 DEF FollowCounters, RewardTypes
  <2>2. IsFiniteSet({f \in follows : f[2] = w}) /\ IsFiniteSet({f \in follows : f[1] = w})
    BY <1>1, FollowsAreFinite
  <2>3. followers'[w] = Cardinality({f \in follows' : f[2] = w}) /\ followers'[w] \in Nat
    <3>1. CASE w = v
      <4>1. {f \in follows' : f[2] = w} = {f \in follows : f[2] = w} \ {<<u, v>>}
        BY <1>2, <3>1
      <4>2. <<u, v>> \in {f \in follows : f[2] = w}
        BY <1>2, <3>1
      <4>3. /\ IsFiniteSet({f \in follows' : f[2] = w})
            /\ Cardinality({f \in follows' : f[2] = w}) = Cardinality({f \in follows : f[2] = w}) - 1
        BY <2>2, <4>1, <4>2, FS_RemoveElement
      <4>4. Cardinality({f \in follows' : f[2] = w}) \in Nat
        BY <4>3, FS_CardinalityType
      <4> QED
        BY <1>3, <2>1, <3>1, <4>3, <4>4
    <3>2. CASE w # v
      <4>1. {f \in follows' : f[2] = w} = {f \in follows : f[2] = w}
        BY <1>2, <3>2
      <4> QED
        BY <1>3, <2>1, <3>2, <4>1
    <3> QED
      BY <3>1, <3>2
  <2>4. following'[w] = Cardinality({f \in follows' : f[1] = w}) /\ following'[w] \in Nat
    <3>1. CASE w = u
      <4>1. {f \in follows' : f[1] = w} = {f \in follows : f[1] = w} \ {<<u, v>>}
        BY <1>2, <3>1
      <4>2. <<u, v>> \in {f \in follows : f[1] = w}
        BY <1>2, <3>1
      <4>3. /\ IsFiniteSet({f \in follows' : f[1] = w})
            /\ Cardinality({f \in follows' : f[1] = w}) = Cardinality({f \in follows : f[1] = w}) - 1
        BY <2>2, <4>1, <4>2, FS_RemoveElement
      <4>4. Cardinality({f \in follows' : f[1] = w}) \in Nat
        BY <4>3, FS_CardinalityType
      <4> QED
        BY <1>3, <2>1, <3>1, <4>3, <4>4
    <3>2. CASE w # u
      <4>1. {f \in follows' : f[1] = w} = {f \in follows : f[1] = w}
        BY <1>2, <3>2
      <4> QED
        BY <1>3, <2>1, <3>2, <4>1
    <3> QED
      BY <3>1, <3>2
  <2> QED
    BY <2>3, <2>4
<1>5. FollowCounters'
  BY <1>4 DEF FollowCounters
<1>6. RewardTypes'
  <2>1. followers' \in [Users -> Nat] /\ following' \in [Users -> Nat]
    BY <1>3, <1>4
  <2>2. \A j \in jobs' : JobInv(j)'
    BY <1>1, <1>2, SameJob DEF RewardTypes
  <2>3. events' \in 0..MaxEvents
    BY <1>1, <1>2, RewardsAssumption DEF RewardTypes
  <2> QED
    BY <1>1, <1>2, <2>1, <2>2, <2>3 DEF RewardTypes
<1>7. \A w \in Users, code \in Badges : Telling(w, code)' = Telling(w, code)
  BY <1>2 DEF Telling
<1>8. AwardInv'
  BY <1>1, <1>2, <1>7, QuietAward DEF RewardTypes
<1> QED
  BY <1>5, <1>6, <1>8 DEF RewardInv

-----------------------------------------------------------------------------
\* Evaluations.

\* What a step of job j leaves: its own row is replaced.
LEMMA ReplacedJobs ==
  ASSUME RewardTypes, NEW j \in jobs, NEW next, \A x \in next : JobInv(x), Replace(j, next), UNCHANGED peak
  PROVE  \A x \in jobs' : JobInv(x)'
BY SameJob DEF Replace, RewardTypes

LEMMA ScoringInv ==
  ASSUME RewardInv, NEW u \in Users, NEW heard \in SUBSET Replicas, ScoringComplete(u, heard)
  PROVE  RewardInv'
<1>1. RewardTypes /\ FollowCounters /\ AwardInv
  BY DEF RewardInv
<1>2. PICK n : n = events + 1
  OBVIOUS
<1>3. PICK more : more = {Job(p, n, u, "count", << >>) : p \in heard}
  OBVIOUS
<1>4. /\ events < MaxEvents /\ events' = events + 1
      /\ scored' = [scored EXCEPT ![u] = @ + 1] /\ jobs' = jobs \union more
      /\ peak' = IF scored[u] = peak[u] THEN [peak EXCEPT ![u] = @ + 1] ELSE peak
      /\ UNCHANGED <<follows, followers, following, badges, notes, seen>>
  BY <1>2, <1>3 DEF ScoringComplete
<1>5. n \in Int
  BY <1>1, <1>2 DEF RewardTypes
<1>6. /\ scored' \in [Users -> Nat] /\ peak' \in [Users -> Nat]
      /\ \A w \in Users : peak'[w] >= peak[w] /\ scored'[w] <= peak'[w]
  BY <1>1, <1>4 DEF RewardTypes
<1>7. ASSUME NEW x \in more PROVE JobInv(x) /\ x.pc = "count"
  <2>1. PICK p \in Replicas : x = [at |-> p, n |-> n, user |-> u, pc |-> "count", codes |-> << >>]
    BY <1>3 DEF Job
  <2>2. PICK none : none = << >>
    OBVIOUS
  <2>3. none \in Seq(Badges \union {"NEW_FOLLOWER"}) /\ 1..Len(none) = {}
    BY <2>2
  <2>4. x \in JobSet
    BY <1>5, <2>1, <2>2, <2>3 DEF JobSet
  <2> QED
    BY <2>1, <2>2, <2>3, <2>4 DEF JobInv
<1>8. \A j \in jobs' : JobInv(j)'
  <2>1. ASSUME NEW j \in jobs' PROVE JobInv(j)
    BY <1>1, <1>4, <1>7 DEF RewardTypes
  <2> QED
    BY <1>1, <1>6, <2>1, JobsKeep DEF RewardTypes
<1>9. RewardTypes'
  <2>1. events' \in 0..MaxEvents
    BY <1>1, <1>4, RewardsAssumption DEF RewardTypes
  <2> QED
    BY <1>1, <1>4, <1>6, <1>8, <2>1 DEF RewardTypes
<1>10. \A w \in Users, code \in Badges : Telling(w, code)' = Telling(w, code)
  BY <1>4, <1>7 DEF Telling
<1>11. AwardInv'
  BY <1>1, <1>4, <1>6, <1>10, QuietAward
<1>12. FollowCounters'
  BY <1>1, <1>4 DEF FollowCounters
<1> QED
  BY <1>9, <1>11, <1>12 DEF RewardInv

\* A count that falls leaves the badges and the jobs where they are.
LEMMA UnscoredInv ==
  ASSUME RewardInv, NEW u \in Users, Unscored(u)
  PROVE  RewardInv'
<1>1. RewardTypes /\ FollowCounters /\ AwardInv
  BY DEF RewardInv
<1>2. PICK n \in 0..scored[u] - 1 : scored' = [scored EXCEPT ![u] = n]
  BY DEF Unscored
<1>3. /\ events < MaxEvents /\ events' = events + 1
      /\ UNCHANGED <<follows, followers, following, peak, badges, notes, jobs, seen>>
  BY DEF Unscored
<1>4. scored' \in [Users -> Nat] /\ \A w \in Users : scored'[w] <= peak'[w]
  BY <1>1, <1>2, <1>3 DEF RewardTypes
<1>5. RewardTypes'
  <2>1. events' \in 0..MaxEvents
    BY <1>1, <1>3, RewardsAssumption DEF RewardTypes
  <2> QED
    BY <1>1, <1>3, <1>4, <2>1, SameJob DEF RewardTypes
<1>6. \A w \in Users, code \in Badges : Telling(w, code)' = Telling(w, code)
  BY <1>3 DEF Telling
<1>7. AwardInv'
  BY <1>1, <1>3, <1>6, QuietAward DEF RewardTypes
<1>8. FollowCounters'
  BY <1>1, <1>3 DEF FollowCounters
<1> QED
  BY <1>5, <1>7, <1>8 DEF RewardInv

LEMMA EvaluateInv ==
  ASSUME RewardInv, NEW j \in jobs, Evaluate(j)
  PROVE  RewardInv'
<1>1. RewardTypes /\ FollowCounters /\ AwardInv
  BY DEF RewardInv
<1>2. PICK due : due = Reached(scored[j.user])
  OBVIOUS
<1>3. PICK next : next = IF due = << >> THEN {} ELSE {[j EXCEPT !.pc = "award", !.codes = due]}
  OBVIOUS
<1>4. /\ j.pc = "count" /\ Replace(j, next)
      /\ UNCHANGED <<follows, followers, following, scored, peak, badges, notes, events, seen>>
  BY <1>2, <1>3 DEF Evaluate
<1>5. /\ JobInv(j) /\ j \in JobSet /\ j.user \in Users
      /\ scored[j.user] \in Nat /\ peak[j.user] \in Nat /\ scored[j.user] <= peak[j.user]
  BY <1>1 DEF RewardTypes, JobInv, JobSet
<1>6. /\ due \in Seq(Badges)
      /\ \A k \in 1..Len(due) : \A b \in DOMAIN SUBMISSION_BADGES :
           SUBMISSION_BADGES[b].code = due[k] => scored[j.user] >= SUBMISSION_BADGES[b].threshold
  BY <1>2, <1>5, ReachedIsDue
<1>7. ASSUME NEW x \in next PROVE JobInv(x) /\ x.pc = "award"
  <2>1. due # << >> /\ x = [j EXCEPT !.pc = "award", !.codes = due]
    BY <1>3
  <2>2. due \in Seq(Badges \union {"NEW_FOLLOWER"})
    BY <1>6
  <2>3. x \in JobSet
    BY <1>5, <2>1, <2>2, Zenon DEF JobSet
  <2>4. x.pc = "award" /\ x.codes = due /\ x.user = j.user
    BY <1>5, <2>1 DEF JobSet
  <2>5. \A k \in 1..Len(due) : Earned(x.user, due[k])
    <3>1. \A b \in DOMAIN SUBMISSION_BADGES : SUBMISSION_BADGES[b].threshold \in Nat
      BY BadgeTable
    <3> QED
      BY <1>5, <1>6, <2>4, <3>1 DEF Earned
  <2> QED
    BY <1>6, <2>1, <2>3, <2>4, <2>5 DEF JobInv
<1>8. RewardTypes'
  <2>1. \A x \in jobs' : JobInv(x)'
    BY <1>1, <1>4, <1>7, ReplacedJobs
  <2> QED
    BY <1>1, <1>4, <2>1 DEF RewardTypes
<1>9. \A u \in Users, code \in Badges : Telling(u, code)' = Telling(u, code)
  BY <1>4, <1>7 DEF Telling, Replace
<1>10. AwardInv'
  BY <1>1, <1>4, <1>9, QuietAward DEF RewardTypes
<1>11. FollowCounters'
  BY <1>1, <1>4 DEF FollowCounters
<1> QED
  BY <1>8, <1>10, <1>11 DEF RewardInv

\* The badge at the head of a job that is about to award or to tell.
LEMMA GoalIsEarned ==
  ASSUME NEW j, JobInv(j), j.pc # "count"
  PROVE  /\ j \in JobSet /\ j.user \in Users /\ Goal(j) = <<j.user, Head(j.codes)>>
         /\ Head(j.codes) \in Badges \union {"NEW_FOLLOWER"}
         /\ j.pc = "award" => Head(j.codes) \in Badges
         /\ Earned(j.user, Head(j.codes))
<1>1. PICK all : all = j.codes
  OBVIOUS
<1>2. j \in JobSet /\ j.user \in Users /\ all \in Seq(Badges \union {"NEW_FOLLOWER"}) /\ all # << >>
  BY <1>1 DEF JobInv, JobSet
<1>3. Head(all) \in Badges \union {"NEW_FOLLOWER"}
  BY <1>2, HeadTailProperties
<1>4. j.pc = "award" => Head(all) \in Badges
  BY <1>1, <1>2, HeadTailProperties DEF JobInv
<1>5. \A seq \in Seq(Badges \union {"NEW_FOLLOWER"}) : seq # << >> => Len(seq) \in Nat \ {0}
  BY EmptySeq, Zenon
<1>6. Len(all) \in Nat \ {0}
  BY <1>2, <1>5
<1>7. Head(all) = all[1] /\ 1 \in 1..Len(all)
  BY <1>2, <1>6
<1>8. Earned(j.user, Head(all))
  BY <1>1, <1>7 DEF JobInv
<1> QED
  BY <1>1, <1>2, <1>3, <1>4, <1>8 DEF Goal

LEMMA AwardStep ==
  ASSUME RewardInv, NEW j \in jobs, award(j)
  PROVE  RewardInv'
<1>1. RewardTypes /\ FollowCounters /\ AwardInv
  BY DEF RewardInv
<1>2. /\ j.pc = "award" /\ UNCHANGED <<follows, followers, following, scored, peak, notes, events, seen>>
  BY DEF award
<1>3. JobInv(j) /\ j \in JobSet
  BY <1>1 DEF RewardTypes, JobInv
<1>4. /\ j.user \in Users /\ Goal(j) = <<j.user, Head(j.codes)>> /\ Head(j.codes) \in Badges
      /\ Earned(j.user, Head(j.codes))
  BY <1>2, <1>3, GoalIsEarned
<1>5. FollowCounters'
  BY <1>1, <1>2 DEF FollowCounters
<1>6. CASE Goal(j) \in badges
  <2>1. Replace(j, Tail1(j)) /\ badges' = badges
    BY <1>6 DEF award
  <2>2. \A x \in Tail1(j) : JobInv(x) /\ x.pc = "award"
    BY <1>2, <1>3, TailJob
  <2>3. \A x \in jobs' : JobInv(x)'
    BY <1>1, <1>2, <2>1, <2>2, ReplacedJobs
  <2>4. RewardTypes'
    BY <1>1, <1>2, <2>1, <2>3 DEF RewardTypes
  <2>5. \A u \in Users, code \in Badges : Telling(u, code)' = Telling(u, code)
    BY <1>2, <2>1, <2>2 DEF Telling, Replace
  <2>6. AwardInv'
    BY <1>1, <1>2, <2>1, <2>5, QuietAward DEF RewardTypes
  <2> QED
    BY <1>5, <2>4, <2>6 DEF RewardInv
<1>7. CASE Goal(j) \notin badges
  <2>1. PICK x : x = [j EXCEPT !.pc = "tell"]
    OBVIOUS
  <2>2. badges' = badges \union {Goal(j)} /\ jobs' = (jobs \ {j}) \union {x}
    BY <1>7, <2>1 DEF award, Replace
  <2>3. x \in JobSet /\ x.pc = "tell" /\ x.codes = j.codes /\ x.user = j.user /\ Goal(x) = Goal(j)
    BY <1>3, <2>1, MovedJob
  <2>4. JobInv(x)
    BY <1>2, <1>3, <2>3 DEF JobInv
  <2>5. RewardTypes'
    <3>1. \A y \in jobs' : JobInv(y)'
      BY <1>1, <1>2, <2>2, <2>4, SameJob DEF RewardTypes
    <3>2. badges' \subseteq Users \X Badges
      BY <1>1, <1>4, <2>2 DEF RewardTypes
    <3> QED
      BY <1>1, <1>2, <3>1, <3>2 DEF RewardTypes
  <2>6. AwardInv'
    <3> SUFFICES ASSUME NEW u \in Users, NEW code \in Badges
                 PROVE  Traced(u, code)' /\ (<<u, code>> \in badges' => Earned(u, code)')
      BY DEF AwardInv
    <3>1. Traced(u, code) /\ (<<u, code>> \in badges => Earned(u, code))
      BY <1>1 DEF AwardInv
    <3>2. Notes(u, code)' = Notes(u, code)
      BY <1>2 DEF Notes
    <3>3. Earned(u, code)' <=> Earned(u, code)
      BY <1>2 DEF Earned
    <3>4. CASE <<u, code>> = Goal(j)
      <4>1. Telling(u, code)' = {x}
        <5>1. Telling(u, code) = {}
          BY <1>7, <3>1, <3>4 DEF Traced
        <5> QED
          BY <2>2, <2>3, <3>4, <5>1 DEF Telling
      <4>2. Traced(u, code)'
        BY <1>2, <1>7, <2>2, <3>1, <3>2, <3>4, <4>1 DEF Traced
      <4>3. u = j.user /\ code = Head(j.codes)
        BY <1>4, <3>4
      <4> QED
        BY <1>4, <3>3, <4>2, <4>3
    <3>5. CASE <<u, code>> # Goal(j)
      <4>1. Telling(u, code)' = Telling(u, code)
        BY <1>2, <2>2, <2>3, <3>5 DEF Telling
      <4>2. \A y : Telling(u, code)' = {y} => y \in jobs'
        BY DEF Telling
      <4>3. <<u, code>> \in badges' <=> <<u, code>> \in badges
        BY <2>2, <3>5
      <4>4. Traced(u, code)'
        BY <1>2, <3>1, <3>2, <4>1, <4>2, <4>3 DEF Traced
      <4> QED
        BY <3>1, <3>3, <4>3, <4>4
    <3> QED
      BY <3>4, <3>5
  <2> QED
    BY <1>5, <2>5, <2>6 DEF RewardInv
<1> QED
  BY <1>6, <1>7

-----------------------------------------------------------------------------
\* Announcements.

LEMMA AnnouncedNote ==
  ASSUME NEW j, JobInv(j), j.pc = "tell", NEW n, n = Announced(j)
  PROVE  n \in NoteSet /\ n.user = j.user /\ n.kind = Head(j.codes)
<1>1. /\ j \in JobSet /\ j.user \in Users /\ Head(j.codes) \in Badges \union {"NEW_FOLLOWER"}
  BY GoalIsEarned
<1>2. j.at \in Replicas /\ j.n \in Int
  BY <1>1 DEF JobSet
<1>3. PICK kind \in Badges \union {"NEW_FOLLOWER"} : kind = Head(j.codes)
  BY <1>1
<1>4. PICK no \in BOOLEAN : no = FALSE
  OBVIOUS
<1>5. n = [from |-> <<j.at, j.n>>, user |-> j.user, kind |-> kind, read |-> no, old |-> no]
  BY <1>3, <1>4 DEF Announced
<1> QED
  BY <1>1, <1>2, <1>3, <1>5 DEF NoteSet

LEMMA CreateStep ==
  ASSUME RewardInv, NEW j \in jobs, create(j)
  PROVE  RewardInv'
<1>1. RewardTypes /\ FollowCounters /\ AwardInv
  BY DEF RewardInv
<1>2. PICK n : n = Announced(j)
  OBVIOUS
<1>3. /\ j.pc = "tell" /\ notes' = notes \union {n} /\ Replace(j, Tail1(j))
      /\ UNCHANGED <<follows, followers, following, scored, peak, badges, events, seen>>
  BY <1>2 DEF create
<1>4. JobInv(j)
  BY <1>1 DEF RewardTypes
<1>5. n \in NoteSet /\ n.user = j.user /\ n.kind = Head(j.codes) /\ Goal(j) = <<n.user, n.kind>>
  BY <1>2, <1>3, <1>4, AnnouncedNote, GoalIsEarned
<1>6. \A x \in Tail1(j) : JobInv(x) /\ x.pc = "award"
  BY <1>3, <1>4, TailJob
<1>7. RewardTypes'
  <2>1. \A x \in jobs' : JobInv(x)'
    BY <1>1, <1>3, <1>6, ReplacedJobs
  <2>2. notes' \subseteq NoteSet
    BY <1>1, <1>3, <1>5 DEF RewardTypes
  <2> QED
    BY <1>1, <1>3, <2>1, <2>2 DEF RewardTypes
<1>8. FollowCounters'
  BY <1>1, <1>3 DEF FollowCounters
<1>9. AwardInv'
  <2> SUFFICES ASSUME NEW u \in Users, NEW code \in Badges
               PROVE  Traced(u, code)' /\ (<<u, code>> \in badges' => Earned(u, code)')
    BY DEF AwardInv
  <2>1. Traced(u, code) /\ (<<u, code>> \in badges => Earned(u, code))
    BY <1>1 DEF AwardInv
  <2>2. Earned(u, code)' <=> Earned(u, code)
    BY <1>3 DEF Earned
  <2>3. CASE <<u, code>> = Goal(j)
    <3>1. j \in Telling(u, code)
      BY <1>3, <2>3 DEF Telling
    <3>2. /\ <<u, code>> \in badges /\ Telling(u, code) = {j} /\ Notes(u, code) = {}
          /\ <<u, code>> \notin seen.silent /\ <<u, code>> \notin seen.cleaned
      BY <2>1, <3>1 DEF Traced
    <3>3. Telling(u, code)' = {}
      BY <1>3, <1>6, <3>2 DEF Telling, Replace
    <3>4. Notes(u, code)' = {n} /\ n \in notes'
      BY <1>3, <1>5, <2>3, <3>2 DEF Notes
    <3>5. Traced(u, code)'
      BY <1>3, <3>2, <3>3, <3>4 DEF Traced
    <3> QED
      BY <1>3, <2>1, <2>2, <3>5
  <2>4. CASE <<u, code>> # Goal(j)
    <3>1. Telling(u, code)' = Telling(u, code)
      BY <1>3, <1>6, <2>4 DEF Telling, Replace
    <3>2. Notes(u, code)' = Notes(u, code)
      BY <1>3, <1>5, <2>4 DEF Notes
    <3>3. /\ \A y : Telling(u, code)' = {y} => y \in jobs'
          /\ \A y : Notes(u, code)' = {y} => y \in notes'
      BY DEF Telling, Notes
    <3>4. Traced(u, code)'
      BY <1>3, <2>1, <3>1, <3>2, <3>3 DEF Traced
    <3> QED
      BY <1>3, <2>1, <2>2, <3>4
  <2> QED
    BY <2>3, <2>4
<1> QED
  BY <1>7, <1>8, <1>9 DEF RewardInv

\* Jobs end before their time: what they were about to tell stays untold.
LEMMA GiveUp ==
  ASSUME RewardInv, NEW some \in SUBSET jobs, NEW next, \A x \in next : JobInv(x) /\ x.pc = "award",
         jobs' = (jobs \ some) \union next, Silenced(some),
         UNCHANGED <<follows, followers, following, scored, peak, badges, notes, events>>
  PROVE  RewardInv'
<1>1. RewardTypes /\ FollowCounters /\ AwardInv
  BY DEF RewardInv
<1>2. PICK goals : goals = {Goal(j) : j \in {j \in some : j.pc = "tell"}}
  OBVIOUS
<1>3. seen' = [seen EXCEPT !.silent = seen.silent \union goals]
  BY <1>2 DEF Silenced
<1>4. seen'.silent = seen.silent \union goals /\ seen'.cleaned = seen.cleaned
  BY <1>1, <1>3 DEF RewardTypes
<1>5. goals \subseteq Users \X (Badges \union {"NEW_FOLLOWER"})
  <2>1. ASSUME NEW j \in some, j.pc = "tell" PROVE Goal(j) \in Users \X (Badges \union {"NEW_FOLLOWER"})
    <3>1. JobInv(j)
      BY <1>1 DEF RewardTypes
    <3> QED
      BY <2>1, <3>1, GoalIsEarned
  <2> QED
    BY <1>2, <2>1
<1>6. RewardTypes'
  <2>1. \A x \in jobs' : JobInv(x)'
    BY <1>1, SameJob DEF RewardTypes
  <2>2. PICK all : all = seen.silent \union goals
    OBVIOUS
  <2>3. all \in SUBSET (Users \X (Badges \union {"NEW_FOLLOWER"})) /\ seen' = [seen EXCEPT !.silent = all]
    BY <1>1, <1>3, <1>5, <2>2 DEF RewardTypes
  <2>4. seen' \in [silent : SUBSET (Users \X (Badges \union {"NEW_FOLLOWER"})),
                   cleaned : SUBSET (Users \X (Badges \union {"NEW_FOLLOWER"}))]
    BY <1>1, <2>3, Zenon DEF RewardTypes
  <2> QED
    BY <1>1, <2>1, <2>4 DEF RewardTypes
<1>7. FollowCounters'
  BY <1>1 DEF FollowCounters
<1>8. AwardInv'
  <2> SUFFICES ASSUME NEW u \in Users, NEW code \in Badges
               PROVE  Traced(u, code)' /\ (<<u, code>> \in badges' => Earned(u, code)')
    BY DEF AwardInv
  <2>1. Traced(u, code) /\ (<<u, code>> \in badges => Earned(u, code))
    BY <1>1 DEF AwardInv
  <2>2. Earned(u, code)' <=> Earned(u, code)
    BY DEF Earned
  <2>3. Notes(u, code)' = Notes(u, code)
    BY DEF Notes
  <2>4. CASE <<u, code>> \in goals
    <3>1. PICK j \in some : j.pc = "tell" /\ Goal(j) = <<u, code>>
      BY <1>2, <2>4
    <3>2. j \in Telling(u, code)
      BY <3>1 DEF Telling
    <3>3. /\ <<u, code>> \in badges /\ Telling(u, code) = {j} /\ Notes(u, code) = {}
          /\ <<u, code>> \notin seen.cleaned
      BY <2>1, <3>2 DEF Traced
    <3>4. Telling(u, code)' = {}
      BY <3>1, <3>3 DEF Telling
    <3>5. Traced(u, code)'
      BY <1>4, <2>3, <2>4, <3>3, <3>4 DEF Traced
    <3> QED
      BY <2>1, <2>2, <3>5
  <2>5. CASE <<u, code>> \notin goals
    <3>1. Telling(u, code)' = Telling(u, code)
      BY <1>2, <2>5 DEF Telling
    <3>2. \A y : Telling(u, code)' = {y} => y \in jobs'
      BY DEF Telling
    <3>3. Traced(u, code)'
      BY <1>4, <2>1, <2>3, <2>5, <3>1, <3>2 DEF Traced
    <3> QED
      BY <2>1, <2>2, <3>3
  <2> QED
    BY <2>4, <2>5
<1> QED
  BY <1>6, <1>7, <1>8 DEF RewardInv

LEMMA QueryFailsInv ==
  ASSUME RewardInv, NEW j \in jobs, QueryFails(j)
  PROVE  RewardInv'
<1>1. JobInv(j)
  BY DEF RewardInv, RewardTypes
<1>2. PICK next : /\ Replace(j, next)
                  /\ next = {} \/ (next = Tail1(j) /\ j.pc # "count")
  BY DEF QueryFails
<1>3. \A x \in next : JobInv(x) /\ x.pc = "award"
  BY <1>1, <1>2, TailJob
<1>4. PICK some \in SUBSET jobs : some = {j}
  OBVIOUS
<1>5. /\ jobs' = (jobs \ some) \union next /\ Silenced(some)
      /\ UNCHANGED <<follows, followers, following, scored, peak, badges, notes, events>>
  BY <1>2, <1>4 DEF QueryFails, Replace
<1> QED
  BY <1>3, <1>5, GiveUp

LEMMA CrashInv ==
  ASSUME RewardInv, NEW p \in Replicas, Crash(p)
  PROVE  RewardInv'
<1>1. PICK some \in SUBSET jobs : some = {j \in jobs : j.at = p}
  OBVIOUS
<1>2. PICK next : next = {}
  OBVIOUS
<1>3. /\ jobs' = (jobs \ some) \union next /\ Silenced(some)
      /\ UNCHANGED <<follows, followers, following, scored, peak, badges, notes, events>>
  BY <1>1, <1>2 DEF Crash
<1> QED
  BY <1>2, <1>3, GiveUp

-----------------------------------------------------------------------------
\* Notifications.

\* Notifications are read, and grow old, without being told apart by it.
LEMMA NotesMove ==
  ASSUME RewardInv, NEW f, notes' = {f[n] : n \in notes},
         \A n \in notes : f[n] \in NoteSet /\ f[n].user = n.user /\ f[n].kind = n.kind,
         NotesOnly, UNCHANGED seen
  PROVE  RewardInv'
<1>1. RewardTypes /\ FollowCounters /\ AwardInv
  BY DEF RewardInv
<1>2. UNCHANGED <<follows, followers, following, scored, peak, badges, jobs, events, seen>>
  BY DEF NotesOnly
<1>3. RewardTypes'
  <2>1. \A x \in jobs' : JobInv(x)'
    BY <1>1, <1>2, SameJob DEF RewardTypes
  <2>2. notes' \subseteq NoteSet
    OBVIOUS
  <2> QED
    BY <1>1, <1>2, <2>1, <2>2 DEF RewardTypes
<1>4. FollowCounters'
  BY <1>1, <1>2 DEF FollowCounters
<1>5. AwardInv'
  <2> SUFFICES ASSUME NEW u \in Users, NEW code \in Badges
               PROVE  Traced(u, code)' /\ (<<u, code>> \in badges' => Earned(u, code)')
    BY DEF AwardInv
  <2>1. Traced(u, code) /\ (<<u, code>> \in badges => Earned(u, code))
    BY <1>1 DEF AwardInv
  <2>2. Earned(u, code)' <=> Earned(u, code)
    BY <1>2 DEF Earned
  <2>3. Telling(u, code)' = Telling(u, code)
    BY <1>2 DEF Telling
  <2>4. Notes(u, code)' = {f[n] : n \in Notes(u, code)}
    BY DEF Notes
  <2>5. Notes(u, code) = {} => Notes(u, code)' = {}
    BY <2>4
  <2>6. \A n \in notes : Notes(u, code) = {n} => Notes(u, code)' = {f[n]} /\ f[n] \in notes'
    BY <2>4
  <2>7. Traced(u, code)'
    BY <1>2, <2>1, <2>3, <2>5, <2>6 DEF Traced
  <2> QED
    BY <1>2, <2>1, <2>2, <2>7
<1> QED
  BY <1>3, <1>4, <1>5 DEF RewardInv

LEMMA MarkedNote ==
  ASSUME NEW n \in NoteSet
  PROVE  /\ [n EXCEPT !.read = TRUE] \in NoteSet /\ [n EXCEPT !.old = TRUE] \in NoteSet
         /\ [n EXCEPT !.read = TRUE].user = n.user /\ [n EXCEPT !.read = TRUE].kind = n.kind
         /\ [n EXCEPT !.old = TRUE].user = n.user /\ [n EXCEPT !.old = TRUE].kind = n.kind
<1>1. PICK yes \in BOOLEAN : yes = TRUE
  OBVIOUS
<1>2. [n EXCEPT !.read = yes] \in NoteSet /\ [n EXCEPT !.old = yes] \in NoteSet
  BY Zenon DEF NoteSet
<1>3. /\ [n EXCEPT !.read = yes].user = n.user /\ [n EXCEPT !.read = yes].kind = n.kind
      /\ [n EXCEPT !.old = yes].user = n.user /\ [n EXCEPT !.old = yes].kind = n.kind
  BY DEF NoteSet
<1> QED
  BY <1>1, <1>2, <1>3, Zenon

LEMMA NotesInv ==
  ASSUME RewardInv,
         \/ \E n \in notes : markAsRead(n)
         \/ \E u \in Users : markAllAsRead(u)
         \/ Age
  PROVE  RewardInv'
<1>1. notes \subseteq NoteSet
  BY DEF RewardInv, RewardTypes
<1>2. ASSUME NEW n \in notes, markAsRead(n) PROVE RewardInv'
  <2>1. PICK f : f = [m \in notes |-> IF m = n THEN [m EXCEPT !.read = TRUE] ELSE m]
    OBVIOUS
  <2>2. \A m \in notes : f[m] = IF m = n THEN [m EXCEPT !.read = TRUE] ELSE m
    BY <2>1
  <2>3. notes' = (notes \ {n}) \union {f[n]} /\ NotesOnly /\ UNCHANGED seen
    <3>1. f[n] = [n EXCEPT !.read = TRUE]
      BY <2>2
    <3>2. notes' = (notes \ {n}) \union {[n EXCEPT !.read = TRUE]} /\ NotesOnly /\ UNCHANGED seen
      BY <1>2, Zenon DEF markAsRead
    <3> QED
      BY <3>1, <3>2, Zenon
  <2>4. notes' = {f[m] : m \in notes}
    <3>1. \A m \in notes \ {n} : f[m] = m
      BY <2>2
    <3>2. PICK next : next = notes'
      OBVIOUS
    <3>3. next = (notes \ {n}) \union {f[n]}
      BY <2>3, <3>2
    <3>4. next = {f[m] : m \in notes}
      BY <3>1, <3>3
    <3> QED
      BY <3>2, <3>4
  <2>5. \A m \in notes : f[m] \in NoteSet /\ f[m].user = m.user /\ f[m].kind = m.kind
    BY <1>1, <2>2, MarkedNote
  <2> QED
    BY <2>3, <2>4, <2>5, NotesMove
<1>3. ASSUME NEW u \in Users, markAllAsRead(u) PROVE RewardInv'
  <2>1. PICK f : f = [n \in notes |-> IF n.user = u THEN [n EXCEPT !.read = TRUE] ELSE n]
    OBVIOUS
  <2>2. \A n \in notes : f[n] = IF n.user = u THEN [n EXCEPT !.read = TRUE] ELSE n
    BY <2>1
  <2>3. notes' = {f[n] : n \in notes} /\ NotesOnly /\ UNCHANGED seen
    <3>1. notes' = {IF n.user = u THEN [n EXCEPT !.read = TRUE] ELSE n : n \in notes} /\ NotesOnly /\ UNCHANGED seen
      BY <1>3, Zenon DEF markAllAsRead
    <3>2. PICK g : g = [n \in notes |-> IF n.user = u THEN [n EXCEPT !.read = TRUE] ELSE n]
      OBVIOUS
    <3>3. f = g /\ notes' = {g[n] : n \in notes}
      BY <2>1, <3>1, <3>2, Zenon
    <3> QED
      BY <3>1, <3>3, Zenon
  <2>4. \A n \in notes : f[n] \in NoteSet /\ f[n].user = n.user /\ f[n].kind = n.kind
    BY <1>1, <2>2, MarkedNote
  <2> QED
    BY <2>3, <2>4, NotesMove
<1>4. ASSUME Age PROVE RewardInv'
  <2>1. PICK f : f = [n \in notes |-> [n EXCEPT !.old = TRUE]]
    OBVIOUS
  <2>2. \A n \in notes : f[n] = [n EXCEPT !.old = TRUE]
    BY <2>1
  <2>3. notes' = {f[n] : n \in notes} /\ NotesOnly /\ UNCHANGED seen
    <3>1. notes' = {[n EXCEPT !.old = TRUE] : n \in notes} /\ NotesOnly /\ UNCHANGED seen
      BY <1>4, Zenon DEF Age
    <3>2. PICK g : g = [n \in notes |-> [n EXCEPT !.old = TRUE]]
      OBVIOUS
    <3>3. f = g /\ notes' = {g[n] : n \in notes}
      BY <2>1, <3>1, <3>2, Zenon
    <3> QED
      BY <3>1, <3>3, Zenon
  <2>4. \A n \in notes : f[n] \in NoteSet /\ f[n].user = n.user /\ f[n].kind = n.kind
    BY <1>1, <2>2, MarkedNote
  <2> QED
    BY <2>3, <2>4, NotesMove
<1> QED
  BY <1>2, <1>3, <1>4

LEMMA CleanupInv ==
  ASSUME RewardInv, cleanupOld
  PROVE  RewardInv'
<1>1. RewardTypes /\ FollowCounters /\ AwardInv
  BY DEF RewardInv
<1>2. PICK gone \in SUBSET notes : gone = {n \in notes : n.old /\ n.read}
  OBVIOUS
<1>3. PICK goals : goals = {<<n.user, n.kind>> : n \in gone}
  OBVIOUS
<1>4. PICK all : all = seen.cleaned \union goals
  OBVIOUS
<1>5. /\ notes' = notes \ gone /\ seen' = [seen EXCEPT !.cleaned = all]
      /\ UNCHANGED <<follows, followers, following, scored, peak, badges, jobs, events>>
  BY <1>2, <1>3, <1>4 DEF cleanupOld, NotesOnly
<1>6. seen'.silent = seen.silent /\ seen'.cleaned = all
  BY <1>1, <1>5 DEF RewardTypes
<1>7. RewardTypes'
  <2>1. \A x \in jobs' : JobInv(x)'
    BY <1>1, <1>5, SameJob DEF RewardTypes
  <2>2. goals \subseteq Users \X (Badges \union {"NEW_FOLLOWER"})
    BY <1>1, <1>3 DEF RewardTypes, NoteSet
  <2>3. all \in SUBSET (Users \X (Badges \union {"NEW_FOLLOWER"}))
    BY <1>1, <1>4, <2>2 DEF RewardTypes
  <2>4. seen' \in [silent : SUBSET (Users \X (Badges \union {"NEW_FOLLOWER"})),
                   cleaned : SUBSET (Users \X (Badges \union {"NEW_FOLLOWER"}))]
    BY <1>1, <1>5, <2>3, Zenon DEF RewardTypes
  <2> QED
    BY <1>1, <1>5, <2>1, <2>4 DEF RewardTypes
<1>8. FollowCounters'
  BY <1>1, <1>5 DEF FollowCounters
<1>9. AwardInv'
  <2> SUFFICES ASSUME NEW u \in Users, NEW code \in Badges
               PROVE  Traced(u, code)' /\ (<<u, code>> \in badges' => Earned(u, code)')
    BY DEF AwardInv
  <2>1. Traced(u, code) /\ (<<u, code>> \in badges => Earned(u, code))
    BY <1>1 DEF AwardInv
  <2>2. Earned(u, code)' <=> Earned(u, code)
    BY <1>5 DEF Earned
  <2>3. Telling(u, code)' = Telling(u, code)
    BY <1>5 DEF Telling
  <2>4. CASE <<u, code>> \in goals
    <3>1. PICK n \in gone : n.user = u /\ n.kind = code
      BY <1>3, <2>4
    <3>2. n \in Notes(u, code)
      BY <3>1 DEF Notes
    <3>3. /\ <<u, code>> \in badges /\ Notes(u, code) = {n} /\ Telling(u, code) = {}
          /\ <<u, code>> \notin seen.silent
      BY <2>1, <3>2 DEF Traced
    <3>4. Notes(u, code)' = {}
      BY <1>5, <3>1, <3>3 DEF Notes
    <3>5. Traced(u, code)'
      BY <1>4, <1>5, <1>6, <2>3, <2>4, <3>3, <3>4 DEF Traced
    <3> QED
      BY <1>5, <2>1, <2>2, <3>5
  <2>5. CASE <<u, code>> \notin goals
    <3>1. Notes(u, code)' = Notes(u, code)
      BY <1>3, <1>5, <2>5 DEF Notes
    <3>2. \A y : Notes(u, code)' = {y} => y \in notes'
      BY DEF Notes
    <3>3. Traced(u, code)'
      BY <1>4, <1>5, <1>6, <2>1, <2>3, <2>5, <3>1, <3>2 DEF Traced
    <3> QED
      BY <1>5, <2>1, <2>2, <3>3
  <2> QED
    BY <2>4, <2>5
<1> QED
  BY <1>7, <1>8, <1>9 DEF RewardInv

\* Every step of the rewards.
LEMMA RewardStepInv ==
  ASSUME RewardInv, Reward
  PROVE  RewardInv'
BY FollowInv, UnfollowInv, ScoringInv, UnscoredInv, EvaluateInv, AwardStep, CreateStep, QueryFailsInv, CrashInv,
   NotesInv, CleanupInv DEF Reward

-----------------------------------------------------------------------------
\* Together.

LEMMA UnchangedBoard ==
  ASSUME BoardInv, UNCHANGED boardVars
  PROVE  BoardInv'
<1>1. UNCHANGED <<discussion, reply, votes, lost, call, calls>>
  BY DEF boardVars
<1>2. CallTypes'
  BY <1>1 DEF BoardInv, CallTypes, Request, At
<1>3. FreshRows' /\ TwoLevels'
  BY <1>1 DEF BoardInv, FreshRows, TwoLevels, Topics, Replies, Items, At, N
<1>4. BoardCounters'
  BY <1>1 DEF BoardInv, BoardCounters, VotesOf, Topics, Replies, Items, RepliesOf, Up
<1>5. /\ Topics' = Topics /\ Replies' = Replies /\ Items' = Items
      /\ \A h \in Handlers : /\ At(h, "idle")' = At(h, "idle")
                             /\ User(h)' = User(h) /\ Item(h)' = Item(h) /\ N(h)' = N(h)
  BY <1>1 DEF Topics, Replies, Items, At, User, Item, N
<1>6. BoardTypeOK'
  BY <1>1, <1>5 DEF BoardInv, BoardTypeOK
<1> QED
  BY <1>2, <1>3, <1>4, <1>6 DEF BoardInv

LEMMA UnchangedRewards ==
  ASSUME RewardInv, UNCHANGED rewardVars
  PROVE  RewardInv'
<1>1. UNCHANGED <<follows, followers, following, scored, peak, badges, notes, jobs, events, seen>>
  BY DEF rewardVars
<1>2. RewardTypes'
  BY <1>1, SameJob DEF RewardInv, RewardTypes
<1>3. FollowCounters'
  BY <1>1 DEF RewardInv, FollowCounters
<1>4. \A u \in Users, code \in Badges : Telling(u, code)' = Telling(u, code)
  BY <1>1 DEF Telling
<1>5. AwardInv'
  BY <1>1, <1>4, QuietAward DEF RewardInv, RewardTypes
<1> QED
  BY <1>2, <1>3, <1>5 DEF RewardInv

\* A vote counts, and may have the author's badge looked at.
LEMMA VoteStep ==
  ASSUME CommunityInv, NEW h \in Handlers, NEW p \in Replicas, Vote(h, p)
  PROVE  CommunityInv'
<1>1. BoardInv /\ RewardInv
  BY DEF CommunityInv
<1>2. BoardInv'
  BY <1>1, VoteInv DEF Vote
<1>3. CASE UNCHANGED rewardVars
  BY <1>1, <1>2, <1>3, UnchangedRewards DEF CommunityInv
<1>4. CASE Counts(h) /\ ~UNCHANGED rewardVars
  <2>1. PICK i : i = Item(h)
    OBVIOUS
  <2>2. PICK u : u = Author(i)
    OBVIOUS
  <2>3. PICK n : n = -N(h)
    OBVIOUS
  <2>4. PICK x : x = Job(p, n, u, "award", <<"HELPFUL">>)
    OBVIOUS
  <2>5. /\ jobs' = jobs \union {x}
        /\ UNCHANGED <<follows, followers, following, scored, peak, badges, notes, events, seen>>
    BY <1>4, <2>1, <2>2, <2>3, <2>4 DEF Vote
  <2>6. u \in Users /\ n \in Int
    <3>1. BoardTypeOK /\ CallTypes
      BY <1>1 DEF BoardInv
    <3>2. ~At(h, "idle") /\ i \in Items
      BY <1>4, <2>1 DEF Vote, vote, Counts, At
    <3>3. N(h) \in Int
      BY <3>1, <3>2 DEF BoardTypeOK
    <3>4. Author(i) \in Users
      BY <3>1, <3>2 DEF BoardTypeOK, Author, Items
    <3> QED
      BY <2>2, <2>3, <3>3, <3>4
  <2>7. JobInv(x) /\ x.pc = "award"
    BY <2>4, <2>6, NewJob
  <2>8. RewardTypes /\ FollowCounters /\ AwardInv
    BY <1>1 DEF RewardInv
  <2>9. RewardTypes'
    <3>1. \A j \in jobs' : JobInv(j)'
      BY <2>5, <2>7, <2>8, SameJob DEF RewardTypes
    <3> QED
      BY <2>5, <2>8, <3>1 DEF RewardTypes
  <2>10. \A w \in Users, code \in Badges : Telling(w, code)' = Telling(w, code)
    BY <2>5, <2>7 DEF Telling
  <2>11. AwardInv'
    BY <2>5, <2>8, <2>10, QuietAward DEF RewardTypes
  <2>12. FollowCounters'
    BY <2>5, <2>8 DEF FollowCounters
  <2> QED
    BY <1>2, <2>9, <2>11, <2>12 DEF CommunityInv, RewardInv
<1> QED
  BY <1>3, <1>4 DEF Vote

LEMMA CommunityInductive ==
  ASSUME CommunityInv, [Next]_vars
  PROVE  CommunityInv'
<1>1. BoardInv /\ RewardInv
  BY DEF CommunityInv
<1>2. ASSUME NEW u \in Users, createTopic(u), UNCHANGED rewardVars PROVE CommunityInv'
  BY <1>1, <1>2, CreateTopicInv, UnchangedRewards DEF CommunityInv
<1>3. ASSUME NEW h \in Handlers, Write(h), UNCHANGED rewardVars PROVE CommunityInv'
  BY <1>1, <1>3, WriteInv, UnchangedRewards DEF CommunityInv
<1>4. ASSUME Reward, UNCHANGED boardVars PROVE CommunityInv'
  BY <1>1, <1>4, RewardStepInv, UnchangedBoard DEF CommunityInv
<1>5. ASSUME UNCHANGED vars PROVE CommunityInv'
  BY <1>1, <1>5, UnchangedBoard, UnchangedRewards DEF CommunityInv, vars
<1> QED
  BY <1>2, <1>3, <1>4, <1>5, VoteStep DEF Next

LEMMA CommunityInvariant == Spec => []CommunityInv
<1>1. Init => CommunityInv
  BY BoardInitInv, RewardInitInv DEF Init, CommunityInv
<1>2. CommunityInv /\ [Next]_vars => CommunityInv'
  BY CommunityInductive
<1> QED
  BY <1>1, <1>2, PTL DEF Spec

-----------------------------------------------------------------------------
\* Every row and every job of the board and of the rewards has its type: a
\* topic, a reply and a vote have the request that created them, and a job
\* that awards has badges left to award (DiscussionService, BadgeService).
THEOREM CommunityTypes == Spec => []TypeOK
<1>1. CommunityInv => TypeOK
  BY RewardTypesSuffice DEF CommunityInv, BoardInv, RewardInv, TypeOK
<1> QED
  BY <1>1, CommunityInvariant, PTL

\* Whatever requests overlap and whatever is deleted under them, the stored
\* counters agree with the rows they count: votes, replies, followers.
THEOREM CountersAgree == Spec => []CountersMatch
<1>1. CommunityInv => CountersMatch
  BY DEF CommunityInv, BoardInv, RewardInv, CountersMatch
<1> QED
  BY <1>1, CommunityInvariant, PTL

\* What the traces of one announcement add up to.
LEMMA OneTrace ==
  ASSUME RewardInv
  PROVE  AwardedOnce
<1> SUFFICES ASSUME NEW u \in Users, NEW code \in Badges
             PROVE  /\ Cardinality(Notes(u, code)) + Cardinality(Telling(u, code))
                       + Cardinality({s \in DOMAIN seen : <<u, code>> \in seen[s]})
                         = IF <<u, code>> \in badges THEN 1 ELSE 0
                    /\ <<u, code>> \in badges =>
                         \A k \in DOMAIN SUBMISSION_BADGES :
                           SUBMISSION_BADGES[k].code = code => peak[u] >= SUBMISSION_BADGES[k].threshold
  BY DEF AwardedOnce
<1>1. Traced(u, code) /\ (<<u, code>> \in badges => Earned(u, code))
  BY DEF RewardInv, AwardInv
<1>2. PICK past : past = {s \in DOMAIN seen : <<u, code>> \in seen[s]}
  OBVIOUS
<1>3. DOMAIN seen = {"silent", "cleaned"} /\ seen["silent"] = seen.silent /\ seen["cleaned"] = seen.cleaned
  BY DEF RewardInv, RewardTypes
<1>4. past = (IF <<u, code>> \in seen.silent THEN {"silent"} ELSE {})
             \union (IF <<u, code>> \in seen.cleaned THEN {"cleaned"} ELSE {})
  BY <1>2, <1>3
<1>5. Cardinality({}) = 0 /\ \A x : Cardinality({x}) = 1
  BY FS_EmptySet, FS_Singleton
<1>6. PICK told, telling : told = Notes(u, code) /\ telling = Telling(u, code)
  OBVIOUS
<1>7. \/ <<u, code>> \notin badges /\ told = {} /\ telling = {} /\ past = {}
      \/ <<u, code>> \in badges /\ (\E n : told = {n}) /\ telling = {} /\ past = {}
      \/ <<u, code>> \in badges /\ told = {} /\ (\E j : telling = {j}) /\ past = {}
      \/ <<u, code>> \in badges /\ told = {} /\ telling = {} /\ (\E s : past = {s})
  BY <1>1, <1>4, <1>6 DEF Traced
<1>8. Cardinality(told) + Cardinality(telling) + Cardinality(past) = IF <<u, code>> \in badges THEN 1 ELSE 0
  <2>1. \A set : set = {} => Cardinality(set) = 0
    BY <1>5, Zenon
  <2>2. \A set : (\E x : set = {x}) => Cardinality(set) = 1
    BY <1>5, Zenon
  <2>3. \/ <<u, code>> \notin badges /\ Cardinality(told) = 0 /\ Cardinality(telling) = 0 /\ Cardinality(past) = 0
        \/ <<u, code>> \in badges /\ Cardinality(told) = 1 /\ Cardinality(telling) = 0 /\ Cardinality(past) = 0
        \/ <<u, code>> \in badges /\ Cardinality(told) = 0 /\ Cardinality(telling) = 1 /\ Cardinality(past) = 0
        \/ <<u, code>> \in badges /\ Cardinality(told) = 0 /\ Cardinality(telling) = 0 /\ Cardinality(past) = 1
    BY <1>7, <2>1, <2>2, Zenon
  <2> QED
    BY <2>3
<1> QED
  BY <1>1, <1>2, <1>6, <1>8 DEF Earned

\* However many replicas evaluate the same event, and wherever they fail, a
\* badge is inserted once, for a user who has earned it, and its announcement
\* leaves exactly one trace (BadgeService.award, initSocket).
THEOREM BadgesAwardedOnce == Spec => []AwardedOnce
<1>1. CommunityInv => AwardedOnce
  BY OneTrace DEF CommunityInv
<1> QED
  BY <1>1, CommunityInvariant, PTL

=============================================================================
