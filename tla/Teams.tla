--------------------------------- MODULE Teams ---------------------------------
(***************************************************************************)
(* Enrollments, teams and invitations of one competition that is ACTIVE:   *)
(* EnrollmentService.enroll and unenroll, TeamService.create, invite and   *)
(* respondToInvitation.                                                    *)
(*                                                                         *)
(* A handler reads and checks, and then runs a transaction that writes:    *)
(* two steps.  unenroll and the acceptance of an invitation are            *)
(* Serializable; create runs at the default isolation but reads nothing in *)
(* its transaction; so each transaction is one step, taken as a whole or   *)
(* not at all.  What it was told before may have changed by then.          *)
(*                                                                         *)
(* Team ids are never used again.  A name that is taken (P2002) is one of  *)
(* the reasons for which a transaction fails.                              *)
(***************************************************************************)
EXTENDS Integers, FiniteSets

CONSTANTS
  Users,
  Teams,
  Calls,        \* requests being handled at one time
  MaxTeamSize,  \* Competition.maxTeamSize
  NotEnrolled,  \* no Enrollment row
  NoTeam,       \* Enrollment.teamId is null
  NoUser        \* no Team row

ASSUME TeamsAssumption ==
  /\ IsFiniteSet(Users)
  /\ MaxTeamSize \in Nat \ {0}
  /\ NotEnrolled \notin Teams /\ NoTeam \notin Teams /\ NotEnrolled # NoTeam
  /\ NoUser \notin Users

VARIABLES
  team,        \* Enrollment.teamId of each user
  leader,      \* Team.leaderId of each team
  created,     \* history: ids given to teams so far
  invitation,  \* TeamInvitation.status for each team and receiver
  mergeOpen,   \* the mergeDeadline has not passed
  call         \* what each handler has read and is about to write

vars == <<team, leader, created, invitation, mergeOpen, call>>

TeamInvitationStatus == {"PENDING", "ACCEPTED", "REJECTED"}

Idle == [op |-> "none"]
CreateCall == [op : {"create"}, user : Users]
UnenrollCall == [op : {"unenroll"}, user : Users, team : Teams \union {NoTeam},
                 leader : Users \union {NoUser}]
InviteCall == [op : {"invite"}, team : Teams, user : Users]
RespondCall == [op : {"respond"}, team : Teams, user : Users, accept : BOOLEAN]

TypeOK ==
  /\ team \in [Users -> Teams \union {NotEnrolled, NoTeam}]
  /\ leader \in [Teams -> Users \union {NoUser}]
  /\ created \in SUBSET Teams
  /\ invitation \in [Teams -> [Users -> TeamInvitationStatus \union {"NONE"}]]
  /\ mergeOpen \in BOOLEAN
  /\ call \in [Calls -> {Idle} \union CreateCall \union UnenrollCall \union InviteCall
                              \union RespondCall]

Init ==
  /\ team = [u \in Users |-> NotEnrolled]
  /\ leader = [t \in Teams |-> NoUser]
  /\ created = {}
  /\ invitation = [t \in Teams |-> [u \in Users |-> "NONE"]]
  /\ mergeOpen = TRUE
  /\ call = [c \in Calls |-> Idle]

Members(t) == {u \in Users : team[u] = t}

-----------------------------------------------------------------------------
\* What a handler does before its transaction.

Pending(c, request) ==
  /\ call[c] = Idle
  /\ call' = [call EXCEPT ![c] = request]
  /\ UNCHANGED <<team, leader, created, invitation, mergeOpen>>

\* enroll: one INSERT, refused by the unique index when the row exists.
Enroll(u) ==
  /\ team[u] = NotEnrolled
  /\ team' = [team EXCEPT ![u] = NoTeam]
  /\ UNCHANGED <<leader, created, invitation, mergeOpen, call>>

\* unenroll: the enrollment with its team.
Unenroll(c, u) ==
  /\ team[u] # NotEnrolled
  /\ Pending(c, [op |-> "unenroll", user |-> u,
                 team |-> team[u],
                 leader |-> IF team[u] = NoTeam THEN NoUser ELSE leader[team[u]]])

\* create
Create(c, u) ==
  /\ MaxTeamSize > 1
  /\ team[u] = NoTeam
  /\ Pending(c, [op |-> "create", user |-> u])

\* invite, by the leader of the team, of a user who has none.
Invite(c, t, u) ==
  /\ leader[t] # NoUser
  /\ Cardinality(Members(t)) < MaxTeamSize
  /\ mergeOpen
  /\ team[u] = NoTeam
  /\ Pending(c, [op |-> "invite", team |-> t, user |-> u])

\* respondToInvitation
Respond(c, t, u, accept) ==
  /\ invitation[t][u] = "PENDING"
  /\ accept => mergeOpen
  /\ Pending(c, [op |-> "respond", team |-> t, user |-> u, accept |-> accept])

-----------------------------------------------------------------------------
\* The transactions.

CommitCreate(c, t) ==
  /\ call[c].op = "create"
  /\ t \notin created
  /\ team[call[c].user] # NotEnrolled
  /\ team' = [team EXCEPT ![call[c].user] = t]
  /\ leader' = [leader EXCEPT ![t] = call[c].user]
  /\ created' = created \union {t}
  /\ UNCHANGED invitation

CommitInvite(c) ==
  /\ call[c].op = "invite"
  /\ leader[call[c].team] # NoUser
  /\ invitation[call[c].team][call[c].user] = "NONE"
  /\ invitation' = [invitation EXCEPT ![call[c].team][call[c].user] = "PENDING"]
  /\ UNCHANGED <<team, leader, created>>

\* Faulty variant: the size that invite has checked is not counted again.
AcceptUncounted(c) ==
  /\ call[c].op = "respond" /\ call[c].accept
  /\ invitation[call[c].team][call[c].user] # "NONE"
  /\ team[call[c].user] = NoTeam
  /\ invitation' = [invitation EXCEPT ![call[c].team][call[c].user] = "ACCEPTED"]
  /\ team' = [team EXCEPT ![call[c].user] = call[c].team]
  /\ UNCHANGED <<leader, created>>

\* Faulty variant: only the enrollment is written.
AcceptUnrecorded(c) ==
  /\ call[c].op = "respond" /\ call[c].accept
  /\ invitation[call[c].team][call[c].user] # "NONE"
  /\ Cardinality(Members(call[c].team)) < MaxTeamSize
  /\ team[call[c].user] = NoTeam
  /\ team' = [team EXCEPT ![call[c].user] = call[c].team]
  /\ UNCHANGED <<leader, created, invitation>>

CommitAccept(c) ==
  /\ call[c].op = "respond" /\ call[c].accept
  /\ invitation[call[c].team][call[c].user] # "NONE"
  /\ Cardinality(Members(call[c].team)) < MaxTeamSize
  /\ team[call[c].user] = NoTeam
  /\ invitation' = [invitation EXCEPT ![call[c].team][call[c].user] = "ACCEPTED"]
  /\ team' = [team EXCEPT ![call[c].user] = call[c].team]
  /\ UNCHANGED <<leader, created>>

\* Faulty variant: a status that the enum does not have.
RejectAsDeclined(c) ==
  /\ call[c].op = "respond" /\ ~call[c].accept
  /\ invitation[call[c].team][call[c].user] # "NONE"
  /\ invitation' = [invitation EXCEPT ![call[c].team][call[c].user] = "DECLINED"]
  /\ UNCHANGED <<team, leader, created>>

CommitReject(c) ==
  /\ call[c].op = "respond" /\ ~call[c].accept
  /\ invitation[call[c].team][call[c].user] # "NONE"
  /\ invitation' = [invitation EXCEPT ![call[c].team][call[c].user] = "REJECTED"]
  /\ UNCHANGED <<team, leader, created>>

\* The last part of unenroll's transaction: the row of the enrollment goes.
Leaves(c) ==
  /\ call[c].op = "unenroll"
  /\ team[call[c].user] # NotEnrolled

LeaveNoTeam(c) ==
  /\ Leaves(c)
  /\ call[c].team = NoTeam
  /\ team' = [team EXCEPT ![call[c].user] = NotEnrolled]
  /\ UNCHANGED <<leader, created, invitation>>

\* Faulty variant: the row of the team is forgotten.
LeaveLastKeepsTeam(c) ==
  /\ Leaves(c)
  /\ call[c].team # NoTeam
  /\ Cardinality(Members(call[c].team)) <= 1
  /\ team' = [team EXCEPT ![call[c].user] = NotEnrolled]
  /\ UNCHANGED <<leader, created, invitation>>

\* The last one out: the team is deleted, with its invitations; teamId of an
\* enrollment that is still in it becomes null.
LeaveLast(c) ==
  /\ Leaves(c)
  /\ call[c].team # NoTeam
  /\ Cardinality(Members(call[c].team)) <= 1
  /\ leader[call[c].team] # NoUser
  /\ leader' = [leader EXCEPT ![call[c].team] = NoUser]
  /\ invitation' = [invitation EXCEPT ![call[c].team] = [u \in Users |-> "NONE"]]
  /\ team' = [u \in Users |-> IF u = call[c].user THEN NotEnrolled
                              ELSE IF team[u] = call[c].team THEN NoTeam ELSE team[u]]
  /\ UNCHANGED created

\* Others stay; a leader (when the handler read the team) names one of them.
LeaveOthers(c) ==
  /\ Leaves(c)
  /\ call[c].team # NoTeam
  /\ Cardinality(Members(call[c].team)) > 1
  /\ IF call[c].leader = call[c].user
     THEN \E next \in Members(call[c].team) \ {call[c].user} :
            leader' = [leader EXCEPT ![call[c].team] = next]
     ELSE UNCHANGED leader
  /\ team' = [team EXCEPT ![call[c].user] = NotEnrolled]
  /\ UNCHANGED <<created, invitation>>

\* A check in the transaction fails, a row is gone, a unique index or the
\* serializability check refuses, or the database throws.
Rollback(c) ==
  /\ call[c] # Idle
  /\ UNCHANGED <<team, leader, created, invitation>>

Transaction(c) ==
  /\ \/ \E t \in Teams : CommitCreate(c, t)
     \/ CommitInvite(c)
     \/ CommitAccept(c)
     \/ CommitReject(c)
     \/ LeaveNoTeam(c)
     \/ LeaveLast(c)
     \/ LeaveOthers(c)
     \/ Rollback(c)
  /\ call' = [call EXCEPT ![c] = Idle]
  /\ UNCHANGED mergeOpen

MergeDeadline ==
  /\ mergeOpen
  /\ mergeOpen' = FALSE
  /\ UNCHANGED <<team, leader, created, invitation, call>>

-----------------------------------------------------------------------------

Handler(c) ==
  \/ \E u \in Users : Unenroll(c, u) \/ Create(c, u)
  \/ \E t \in Teams, u \in Users : Invite(c, t, u)
  \/ \E t \in Teams, u \in Users, accept \in BOOLEAN : Respond(c, t, u, accept)
  \/ Transaction(c)

Next ==
  \/ \E u \in Users : Enroll(u)
  \/ \E c \in Calls : Handler(c)
  \/ MergeDeadline

Spec == Init /\ [][Next]_vars

-----------------------------------------------------------------------------
\* Properties.

\* However many invitations are accepted at once, no team outgrows the limit of
\* the competition.
TeamSizeBound == \A t \in Teams : Cardinality(Members(t)) <= MaxTeamSize

\* Whatever users left, came back, created or handed on in between: who is in a
\* team leads it or has answered an invitation to it, and the team exists.
MembersBelong ==
  \A u \in Users : team[u] \in Teams =>
    /\ leader[team[u]] # NoUser
    /\ leader[team[u]] = u \/ invitation[team[u]][u] \in {"ACCEPTED", "REJECTED"}

\* The handler acts on a read of its user that put that user in no team, or in
\* another one than t.
ReadElsewhere(c, t) ==
  \/ call[c].op = "create"
  \/ call[c].op = "unenroll" /\ call[c].team # t

\* "two concurrent unenrolls of the last 2 team members can't both decide 'not
\* last'": a team that a step empties is deleted by that step, unless the step
\* takes its only member away for a handler that never read that user in it.
\* Then the row stays behind without members, which the code does not prevent.
LastOutClosesTeam ==
  [][\A t \in Teams :
       Members(t) # {} /\ Members(t)' = {} /\ leader'[t] # NoUser =>
         \E c \in Calls :
           /\ ReadElsewhere(c, t)
           /\ Members(t) = {call[c].user}
           /\ call'[c] = Idle]_vars
=============================================================================
