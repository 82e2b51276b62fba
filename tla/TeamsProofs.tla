------------------------------- MODULE TeamsProofs -------------------------------
(***************************************************************************)
(* What TLAPS proves of Teams, for every number of users, teams and        *)
(* requests and for every maxTeamSize.                                     *)
(***************************************************************************)
EXTENDS Teams, FiniteSetTheorems, TLAPS

\* A pending request of one kind is a record of that kind.
LEMMA PendingRequest ==
  ASSUME TypeOK, NEW c \in Calls
  PROVE  /\ call[c].op = "create" => call[c] \in CreateCall
         /\ call[c].op = "unenroll" => call[c] \in UnenrollCall
         /\ call[c].op = "invite" => call[c] \in InviteCall
         /\ call[c].op = "respond" => call[c] \in RespondCall
BY DEF TypeOK, Idle, CreateCall, UnenrollCall, InviteCall, RespondCall

LEMMA MembersFinite == \A t : IsFiniteSet(Members(t)) /\ Cardinality(Members(t)) \in Nat
<1> SUFFICES ASSUME NEW t
             PROVE  IsFiniteSet(Members(t)) /\ Cardinality(Members(t)) \in Nat
  OBVIOUS
<1>1. Members(t) \subseteq Users
  BY DEF Members
<1> QED
  BY <1>1, TeamsAssumption, FS_Subset, FS_CardinalityType

-----------------------------------------------------------------------------
\* Types.

LEMMA InitType == Init => TypeOK
BY DEF Init, TypeOK

LEMMA RequestType ==
  ASSUME TypeOK, NEW c \in Calls, NEW request, Pending(c, request),
         request \in CreateCall \union UnenrollCall \union InviteCall \union RespondCall
  PROVE  TypeOK'
BY DEF TypeOK, Pending

LEMMA TransactionType ==
  ASSUME TypeOK, NEW c \in Calls, Transaction(c)
  PROVE  TypeOK'
<1> USE DEF TypeOK
<1>1. call' \in [Calls -> {Idle} \union CreateCall \union UnenrollCall \union InviteCall
                                \union RespondCall]
  BY DEF Transaction
<1>2. mergeOpen' \in BOOLEAN
  BY DEF Transaction
<1> HIDE DEF TypeOK
<1>3. ASSUME NEW t \in Teams, CommitCreate(c, t) PROVE TypeOK'
  <2>1. call[c].user \in Users
    BY <1>3, PendingRequest DEF CommitCreate, CreateCall
  <2> QED
    BY <1>1, <1>2, <1>3, <2>1 DEF CommitCreate, TypeOK
<1>4. CASE CommitInvite(c)
  <2>1. call[c].user \in Users /\ call[c].team \in Teams
    BY <1>4, PendingRequest DEF CommitInvite, InviteCall
  <2> QED
    BY <1>1, <1>2, <1>4, <2>1 DEF CommitInvite, TypeOK, TeamInvitationStatus
<1>5. CASE CommitAccept(c)
  <2>1. call[c].user \in Users /\ call[c].team \in Teams
    BY <1>5, PendingRequest DEF CommitAccept, RespondCall
  <2> QED
    BY <1>1, <1>2, <1>5, <2>1 DEF CommitAccept, TypeOK, TeamInvitationStatus
<1>6. CASE CommitReject(c)
  <2>1. call[c].user \in Users /\ call[c].team \in Teams
    BY <1>6, PendingRequest DEF CommitReject, RespondCall
  <2> QED
    BY <1>1, <1>2, <1>6, <2>1 DEF CommitReject, TypeOK, TeamInvitationStatus
<1>7. CASE LeaveNoTeam(c)
  BY <1>1, <1>2, <1>7 DEF LeaveNoTeam, TypeOK
<1>8. CASE LeaveLast(c)
  <2>1. call[c].team \in Teams
    BY <1>8, PendingRequest DEF LeaveLast, Leaves, UnenrollCall
  <2> QED
    BY <1>1, <1>2, <1>8, <2>1 DEF LeaveLast, TypeOK
<1>9. CASE LeaveOthers(c)
  <2>1. call[c].team \in Teams
    BY <1>9, PendingRequest DEF LeaveOthers, Leaves, UnenrollCall
  <2>2. leader' \in [Teams -> Users \union {NoUser}]
    BY <1>9, <2>1 DEF LeaveOthers, TypeOK, Members
  <2> QED
    BY <1>1, <1>2, <1>9, <2>2 DEF LeaveOthers, TypeOK
<1>10. CASE Rollback(c)
  BY <1>1, <1>2, <1>10 DEF Rollback, TypeOK
<1> QED
  BY <1>3, <1>4, <1>5, <1>6, <1>7, <1>8, <1>9, <1>10 DEF Transaction

LEMMA NextType == TypeOK /\ [Next]_vars => TypeOK'
<1> SUFFICES ASSUME TypeOK, [Next]_vars PROVE TypeOK'
  OBVIOUS
<1>1. ASSUME NEW u \in Users, Enroll(u) PROVE TypeOK'
  BY <1>1 DEF Enroll, TypeOK
<1>2. ASSUME NEW c \in Calls, NEW u \in Users, Unenroll(c, u) PROVE TypeOK'
  <2> DEFINE request == [op |-> "unenroll", user |-> u, team |-> team[u],
                         leader |-> IF team[u] = NoTeam THEN NoUser ELSE leader[team[u]]]
  <2>1. request \in UnenrollCall
    BY <1>2 DEF Unenroll, UnenrollCall, TypeOK
  <2>2. Pending(c, request)
    BY <1>2 DEF Unenroll
  <2> QED
    BY <2>1, <2>2, RequestType
<1>3. ASSUME NEW c \in Calls, NEW u \in Users, Create(c, u) PROVE TypeOK'
  BY <1>3, RequestType DEF Create, CreateCall
<1>4. ASSUME NEW c \in Calls, NEW t \in Teams, NEW u \in Users, Invite(c, t, u) PROVE TypeOK'
  BY <1>4, RequestType DEF Invite, InviteCall
<1>5. ASSUME NEW c \in Calls, NEW t \in Teams, NEW u \in Users, NEW accept \in BOOLEAN,
             Respond(c, t, u, accept)
      PROVE  TypeOK'
  BY <1>5, RequestType DEF Respond, RespondCall
<1>6. ASSUME NEW c \in Calls, Transaction(c) PROVE TypeOK'
  BY <1>6, TransactionType
<1>7. CASE MergeDeadline
  BY <1>7 DEF MergeDeadline, TypeOK
<1>8. CASE UNCHANGED vars
  BY <1>8 DEF vars, TypeOK
<1> QED
  BY <1>1, <1>2, <1>3, <1>4, <1>5, <1>6, <1>7, <1>8 DEF Next, Handler

\* The type invariant of enrollments, teams, invitations and handlers.
THEOREM TeamsTypeCorrect == Spec => []TypeOK
<1> QED
  BY InitType, NextType, PTL DEF Spec

-----------------------------------------------------------------------------
\* Who is in a team.

Answered(t, u) == invitation[t][u] \in {"ACCEPTED", "REJECTED"}

\* The strengthening: ids of teams are fresh; an invitation has its team; and
\* who has read that they lead a team can hand it to nobody but people who
\* answered an invitation to it.
HandsOn(c) ==
  call[c].op = "unenroll" /\ call[c].team \in Teams =>
    /\ call[c].team \in created
    /\ call[c].leader = call[c].user =>
         \A w \in Users : team[w] = call[c].team /\ w # call[c].user => Answered(call[c].team, w)

BelongInv ==
  /\ \A u \in Users : team[u] \in Teams => leader[team[u]] # NoUser
  /\ \A u \in Users : team[u] \in Teams => leader[team[u]] = u \/ Answered(team[u], u)
  /\ \A t \in Teams : leader[t] # NoUser => t \in created
  /\ \A t \in Teams, u \in Users : invitation[t][u] # "NONE" => leader[t] # NoUser
  /\ \A c \in Calls : HandsOn(c)

\* A handler that only reads: what it has read, if it is unenroll, is so now.
LEMMA RequestBelong ==
  ASSUME TypeOK, BelongInv, NEW c \in Calls, NEW request, Pending(c, request),
         request.op = "unenroll" /\ request.team \in Teams =>
           /\ request.team \in created
           /\ request.leader = request.user =>
                \A w \in Users : team[w] = request.team /\ w # request.user =>
                                   Answered(request.team, w)
  PROVE  BelongInv'
<1> USE DEF TypeOK, Pending, Answered
<1>1. ASSUME NEW d \in Calls PROVE HandsOn(d)'
  <2>1. CASE d = c
    BY <2>1 DEF HandsOn
  <2>2. CASE d # c
    BY <2>2 DEF HandsOn, BelongInv
  <2> QED
    BY <2>1, <2>2
<1> QED
  BY <1>1 DEF BelongInv

\* A transaction of one request leaves the others pending as they were.
LEMMA OthersPending ==
  ASSUME TypeOK, NEW c \in Calls, Transaction(c), NEW d \in Calls, call'[d].op = "unenroll"
  PROVE  d # c /\ call'[d] = call[d]
BY DEF Transaction, TypeOK, Idle

\* What a transaction does to the members of a team that has been there: who is
\* in it afterwards was in it before and still has their answer, or has one now.
KeepsAnswers ==
  /\ created \subseteq created'
  /\ \A t \in created, w \in Users : team'[w] = t =>
       \/ Answered(t, w)'
       \/ team[w] = t /\ ~Answered(t, w)

LEMMA PendingBelong ==
  ASSUME TypeOK, BelongInv, NEW c \in Calls, Transaction(c), KeepsAnswers, NEW d \in Calls
  PROVE  HandsOn(d)'
<1> SUFFICES ASSUME call'[d].op = "unenroll", call'[d].team \in Teams PROVE HandsOn(d)'
  BY DEF HandsOn
<1>1. call'[d] = call[d]
  BY OthersPending
<1>2. HandsOn(d)
  BY DEF BelongInv
<1>3. call[d].team \in created /\ call[d].team \in created'
  BY <1>1, <1>2 DEF HandsOn, KeepsAnswers
<1>4. ASSUME call[d].leader = call[d].user, NEW w \in Users, w # call[d].user,
             team'[w] = call[d].team
      PROVE  invitation'[call[d].team][w] \in {"ACCEPTED", "REJECTED"}
  BY <1>1, <1>2, <1>3, <1>4 DEF HandsOn, KeepsAnswers, Answered
<1> QED
  BY <1>1, <1>3, <1>4 DEF HandsOn, Answered

LEMMA TransactionBelong ==
  ASSUME TypeOK, BelongInv, NEW c \in Calls, Transaction(c)
  PROVE  BelongInv'
<1> DEFINE Belongs == \A u \in Users : team[u] \in Teams =>
                        leader[team[u]] # NoUser /\ (leader[team[u]] = u \/ Answered(team[u], u))
           Fresh == \A t \in Teams : leader[t] # NoUser => t \in created
           Invited == \A t \in Teams, u \in Users : invitation[t][u] # "NONE" => leader[t] # NoUser
<1>1. SUFFICES Belongs' /\ Fresh' /\ Invited' /\ KeepsAnswers
  BY PendingBelong DEF BelongInv
<1> USE DEF TypeOK, BelongInv, KeepsAnswers, Answered
<1>2. ASSUME NEW t \in Teams, CommitCreate(c, t)
      PROVE  Belongs' /\ Fresh' /\ Invited' /\ KeepsAnswers
  <2>1. call[c].user \in Users
    BY <1>2, PendingRequest DEF CommitCreate, CreateCall
  <2> QED
    BY <1>2, <2>1, TeamsAssumption DEF CommitCreate
<1>3. CASE CommitInvite(c)
  <2>1. call[c].user \in Users /\ call[c].team \in Teams
    BY <1>3, PendingRequest DEF CommitInvite, InviteCall
  <2> QED
    BY <1>3, <2>1 DEF CommitInvite
<1>4. CASE CommitAccept(c)
  <2>1. call[c].user \in Users /\ call[c].team \in Teams
    BY <1>4, PendingRequest DEF CommitAccept, RespondCall
  <2> QED
    BY <1>4, <2>1 DEF CommitAccept
<1>5. CASE CommitReject(c)
  <2>1. call[c].user \in Users /\ call[c].team \in Teams
    BY <1>5, PendingRequest DEF CommitReject, RespondCall
  <2> QED
    BY <1>5, <2>1 DEF CommitReject
<1>6. CASE LeaveNoTeam(c)
  BY <1>6, TeamsAssumption DEF LeaveNoTeam
<1>7. CASE LeaveLast(c)
  <2>1. call[c].team \in Teams
    BY <1>7, PendingRequest DEF LeaveLast, Leaves, UnenrollCall
  <2> QED
    BY <1>7, <2>1, TeamsAssumption DEF LeaveLast
<1>8. CASE LeaveOthers(c)
  <2>1. call[c].team \in Teams /\ call[c].op = "unenroll" /\ HandsOn(c)
    BY <1>8, PendingRequest DEF LeaveOthers, Leaves, UnenrollCall
  <2>2. \A u \in Users : team'[u] \in Teams => team[u] = team'[u] /\ u # call[c].user
    BY <1>8, TeamsAssumption DEF LeaveOthers
  <2>3. KeepsAnswers
    BY <1>8, <2>2 DEF LeaveOthers
  <2>4. CASE leader' = leader
    BY <1>8, <2>2, <2>3, <2>4 DEF LeaveOthers
  <2>5. ASSUME call[c].leader = call[c].user, NEW next \in Members(call[c].team) \ {call[c].user},
               leader' = [leader EXCEPT ![call[c].team] = next]
        PROVE  Belongs' /\ Fresh' /\ Invited' /\ KeepsAnswers
    <3>1. next \in Users /\ next # NoUser
      BY <2>5, TeamsAssumption DEF Members
    <3>2. call[c].team \in created
      BY <2>1 DEF HandsOn
    <3>3. \A w \in Users : team[w] = call[c].team /\ w # call[c].user => Answered(call[c].team, w)
      BY <2>1, <2>5 DEF HandsOn
    <3>4. Belongs'
      BY <1>8, <2>1, <2>2, <2>5, <3>1, <3>3 DEF LeaveOthers
    <3>5. Fresh' /\ Invited'
      BY <1>8, <2>1, <2>5, <3>1, <3>2 DEF LeaveOthers
    <3> QED
      BY <2>3, <3>4, <3>5
  <2> QED
    BY <1>8, <2>4, <2>5 DEF LeaveOthers
<1>9. CASE Rollback(c)
  BY <1>9 DEF Rollback
<1> QED
  BY <1>2, <1>3, <1>4, <1>5, <1>6, <1>7, <1>8, <1>9 DEF Transaction

LEMMA BelongNext == TypeOK /\ BelongInv /\ [Next]_vars => BelongInv'
<1> SUFFICES ASSUME TypeOK, BelongInv, [Next]_vars PROVE BelongInv'
  OBVIOUS
<1>1. ASSUME NEW u \in Users, Enroll(u) PROVE BelongInv'
  BY <1>1, TeamsAssumption DEF Enroll, TypeOK, BelongInv, HandsOn, Answered
<1>2. ASSUME NEW c \in Calls, NEW u \in Users, Unenroll(c, u) PROVE BelongInv'
  <2> DEFINE request == [op |-> "unenroll", user |-> u, team |-> team[u],
                         leader |-> IF team[u] = NoTeam THEN NoUser ELSE leader[team[u]]]
  <2>1. Pending(c, request)
    BY <1>2 DEF Unenroll
  <2>2. team[u] \in Teams =>
          /\ team[u] \in created
          /\ request.leader = u =>
               \A w \in Users : team[w] = team[u] /\ w # u => Answered(team[u], w)
    BY TeamsAssumption DEF BelongInv, TypeOK
  <2> QED
    BY <2>1, <2>2, RequestBelong
<1>3. ASSUME NEW c \in Calls, NEW u \in Users, Create(c, u) PROVE BelongInv'
  BY <1>3, RequestBelong DEF Create
<1>4. ASSUME NEW c \in Calls, NEW t \in Teams, NEW u \in Users, Invite(c, t, u) PROVE BelongInv'
  BY <1>4, RequestBelong DEF Invite
<1>5. ASSUME NEW c \in Calls, NEW t \in Teams, NEW u \in Users, NEW accept \in BOOLEAN,
             Respond(c, t, u, accept)
      PROVE  BelongInv'
  BY <1>5, RequestBelong DEF Respond
<1>6. ASSUME NEW c \in Calls, Transaction(c) PROVE BelongInv'
  BY <1>6, TransactionBelong
<1>7. CASE MergeDeadline \/ UNCHANGED vars
  BY <1>7 DEF MergeDeadline, vars, BelongInv, HandsOn, Answered
<1> QED
  BY <1>1, <1>2, <1>3, <1>4, <1>5, <1>6, <1>7 DEF Next, Handler

\* Whatever users left, came back, created or handed on in between: who is in a
\* team leads it or has answered an invitation to it, and the team exists.
THEOREM MembersAreInvited == Spec => []MembersBelong
<1>1. Init => BelongInv
  BY TeamsAssumption DEF Init, BelongInv, HandsOn, Idle
<1>2. BelongInv => MembersBelong
  BY DEF BelongInv, MembersBelong, Answered
<1> QED
  BY <1>1, <1>2, BelongNext, TeamsTypeCorrect, PTL DEF Spec

-----------------------------------------------------------------------------
\* The size of a team.

\* A step that lets nobody into t cannot make it larger.
LEMMA FewerMembers ==
  ASSUME NEW t, Cardinality(Members(t)) <= MaxTeamSize, Members(t)' \subseteq Members(t)
  PROVE  Cardinality(Members(t)') <= MaxTeamSize
<1>1. Cardinality(Members(t)') <= Cardinality(Members(t)) /\ Cardinality(Members(t)') \in Nat
  BY MembersFinite, FS_Subset, FS_CardinalityType
<1> QED
  BY <1>1, MembersFinite, TeamsAssumption

LEMMA SizeNext == TypeOK /\ BelongInv /\ TeamSizeBound /\ [Next]_vars => TeamSizeBound'
<1> SUFFICES ASSUME TypeOK, BelongInv, TeamSizeBound, [Next]_vars, NEW t \in Teams
             PROVE  Cardinality(Members(t)') <= MaxTeamSize
  BY DEF TeamSizeBound
<1>0. Cardinality(Members(t)) <= MaxTeamSize
  BY DEF TeamSizeBound
<1>1. CASE Members(t)' \subseteq Members(t)
  BY <1>0, <1>1, FewerMembers
<1>2. ASSUME NEW c \in Calls, CommitCreate(c, t) PROVE Cardinality(Members(t)') <= MaxTeamSize
  <2>1. Members(t)' \subseteq {call[c].user}
    BY <1>2 DEF CommitCreate, Members, BelongInv, TypeOK
  <2>2. /\ Cardinality({call[c].user}) = 1
        /\ IsFiniteSet({call[c].user})
    BY FS_Singleton
  <2>3. Cardinality(Members(t)') <= 1 /\ Cardinality(Members(t)') \in Nat
    BY <2>1, <2>2, FS_Subset, FS_CardinalityType
  <2> QED
    BY <2>3, TeamsAssumption
<1>3. ASSUME NEW c \in Calls, CommitAccept(c), call[c].team = t
      PROVE  Cardinality(Members(t)') <= MaxTeamSize
  <2>1. call[c].user \in Users
    BY <1>3, PendingRequest DEF CommitAccept, RespondCall
  <2>2. call[c].user \notin Members(t)
    BY <1>3, TeamsAssumption DEF CommitAccept, Members
  <2>3. Members(t)' = Members(t) \union {call[c].user}
    BY <1>3, <2>1 DEF CommitAccept, Members, TypeOK
  <2>4. Cardinality(Members(t)') = Cardinality(Members(t)) + 1
    BY <2>2, <2>3, MembersFinite, FS_AddElement
  <2>5. Cardinality(Members(t)) < MaxTeamSize
    BY <1>3 DEF CommitAccept
  <2> QED
    BY <2>4, <2>5, MembersFinite, TeamsAssumption
<1>4. \/ Members(t)' \subseteq Members(t)
      \/ \E c \in Calls : CommitCreate(c, t) \/ (CommitAccept(c) /\ call[c].team = t)
  <2> USE DEF Members, TypeOK
  <2>1. ASSUME NEW u \in Users, Enroll(u) PROVE Members(t)' \subseteq Members(t)
    BY <2>1, TeamsAssumption DEF Enroll
  <2>2. ASSUME NEW c \in Calls, Transaction(c), ~CommitCreate(c, t),
               ~(CommitAccept(c) /\ call[c].team = t)
        PROVE  Members(t)' \subseteq Members(t)
    <3>1. ASSUME NEW s \in Teams, CommitCreate(c, s) PROVE Members(t)' \subseteq Members(t)
      BY <2>2, <3>1 DEF CommitCreate
    <3>2. CASE CommitAccept(c)
      BY <2>2, <3>2 DEF CommitAccept
    <3>3. CASE LeaveNoTeam(c) \/ LeaveLast(c) \/ LeaveOthers(c)
      BY <3>3, TeamsAssumption DEF LeaveNoTeam, LeaveLast, LeaveOthers
    <3>4. CASE CommitInvite(c) \/ CommitReject(c) \/ Rollback(c)
      BY <3>4 DEF CommitInvite, CommitReject, Rollback
    <3> QED
      BY <2>2, <3>1, <3>2, <3>3, <3>4 DEF Transaction
  <2>3. CASE team' = team
    BY <2>3
  <2> QED
    BY <2>1, <2>2, <2>3 DEF Next, Handler, Unenroll, Create, Invite, Respond, Pending,
                            MergeDeadline, vars
<1> QED
  BY <1>1, <1>2, <1>3, <1>4

\* However many invitations are accepted at once, no team outgrows the limit.
THEOREM TeamsKeepTheLimit == Spec => []TeamSizeBound
<1>1. Init => BelongInv
  BY TeamsAssumption DEF Init, BelongInv, HandsOn, Idle
<1>2. Init => TeamSizeBound
  <2> SUFFICES ASSUME Init, NEW t \in Teams PROVE Cardinality(Members(t)) <= MaxTeamSize
    BY DEF TeamSizeBound
  <2>1. Members(t) = {}
    BY TeamsAssumption DEF Init, Members
  <2> QED
    BY <2>1, FS_EmptySet, TeamsAssumption
<1> QED
  BY <1>1, <1>2, BelongNext, SizeNext, TeamsTypeCorrect, PTL DEF Spec

-----------------------------------------------------------------------------
\* The last one out.

CloseStep(t) ==
  Members(t) # {} /\ Members(t)' = {} /\ leader'[t] # NoUser =>
    \E c \in Calls :
      /\ ReadElsewhere(c, t)
      /\ Members(t) = {call[c].user}
      /\ call'[c] = Idle

\* A step that lets only one user out of a team leaves it empty only when that
\* user was its only member.
LEMMA OnlyMember ==
  ASSUME NEW t, NEW u, Members(t) # {}, Members(t)' = {},
         \A v \in Users : v # u /\ team[v] = t => team'[v] = t
  PROVE  Members(t) = {u}
BY DEF Members

\* Where its handler had read the team, an unenroll that does not delete it
\* leaves another member.
LEMMA OthersStay ==
  ASSUME TypeOK, NEW c \in Calls, LeaveOthers(c), NEW t, call[c].team = t
  PROVE  Members(t) # {call[c].user}
<1> SUFFICES ASSUME Members(t) = {call[c].user} PROVE FALSE
  OBVIOUS
<1>1. Cardinality(Members(t)) = 1
  BY FS_Singleton
<1> QED
  BY <1>1 DEF LeaveOthers

LEMMA CloseNext ==
  ASSUME TypeOK, [Next]_vars, NEW t \in Teams
  PROVE  CloseStep(t)
<1> SUFFICES ASSUME Members(t) # {}, Members(t)' = {}, leader'[t] # NoUser
             PROVE  \E c \in Calls : /\ ReadElsewhere(c, t)
                                    /\ Members(t) = {call[c].user}
                                    /\ call'[c] = Idle
  BY DEF CloseStep
<1>1. team' # team
  BY DEF Members
<1>2. PICK x \in Users : team[x] = t /\ team'[x] # t
  BY DEF Members
<1>3. PICK c \in Calls : Transaction(c)
  <2>1. ASSUME NEW u \in Users, Enroll(u) PROVE FALSE
    BY <1>2, <2>1, TeamsAssumption DEF Enroll, TypeOK
  <2> QED
    BY <1>1, <2>1 DEF Next, Handler, Unenroll, Create, Invite, Respond, Pending, MergeDeadline, vars
<1>4. call'[c] = Idle
  BY <1>3 DEF Transaction, TypeOK
<1>5. ASSUME NEW s \in Teams, CommitCreate(c, s)
      PROVE  ReadElsewhere(c, t) /\ Members(t) = {call[c].user}
  <2>1. \A v \in Users : v # call[c].user /\ team[v] = t => team'[v] = t
    BY <1>5 DEF CommitCreate, TypeOK
  <2> QED
    BY <1>5, <2>1, OnlyMember DEF CommitCreate, ReadElsewhere
<1>6. CASE LeaveNoTeam(c)
  <2>1. \A v \in Users : v # call[c].user /\ team[v] = t => team'[v] = t
    BY <1>6 DEF LeaveNoTeam, TypeOK
  <2> QED
    BY <1>4, <1>6, <2>1, OnlyMember, TeamsAssumption DEF LeaveNoTeam, Leaves, ReadElsewhere
<1>7. CASE LeaveLast(c)
  <2>1. call[c].team # t
    BY <1>7 DEF LeaveLast, TypeOK
  <2>2. \A v \in Users : v # call[c].user /\ team[v] = t => team'[v] = t
    BY <1>7, <2>1 DEF LeaveLast, TypeOK
  <2> QED
    BY <1>4, <1>7, <2>1, <2>2, OnlyMember DEF LeaveLast, Leaves, ReadElsewhere
<1>8. CASE LeaveOthers(c)
  <2>1. \A v \in Users : v # call[c].user /\ team[v] = t => team'[v] = t
    BY <1>8 DEF LeaveOthers, TypeOK
  <2>2. Members(t) = {call[c].user}
    BY <2>1, OnlyMember
  <2>3. call[c].team # t
    BY <1>8, <2>2, OthersStay
  <2> QED
    BY <1>4, <1>8, <2>2, <2>3 DEF LeaveOthers, Leaves, ReadElsewhere
<1>9. ASSUME CommitAccept(c) PROVE FALSE
  <2>1. x # call[c].user
    BY <1>2, <1>9, TeamsAssumption DEF CommitAccept
  <2> QED
    BY <1>2, <1>9, <2>1 DEF CommitAccept, TypeOK
<1> QED
  BY <1>1, <1>3, <1>4, <1>5, <1>6, <1>7, <1>8, <1>9
  DEF Transaction, CommitInvite, CommitReject, Rollback

\* A team that is emptied is deleted in the same step, so two unenrolls never
\* both take themselves for not the last: a team is left behind empty only by a
\* handler that had read its last member in no team or in another one.
THEOREM LastOutCloses == Spec => LastOutClosesTeam
<1>1. TypeOK /\ [Next]_vars => [\A t \in Teams : CloseStep(t)]_vars
  BY CloseNext
<1>2. Spec => [][\A t \in Teams : CloseStep(t)]_vars
  BY <1>1, TeamsTypeCorrect, PTL DEF Spec
<1> QED
  BY <1>2 DEF LastOutClosesTeam, CloseStep
=============================================================================
