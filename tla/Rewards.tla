------------------------------- MODULE Rewards -------------------------------
(***************************************************************************)
(* Badges, followers and the notifications that announce them.             *)
(*                                                                         *)
(* Every API replica hears of a scored submission over Redis pub/sub and   *)
(* evaluates the user's badges, so several replicas run the same           *)
(* evaluation at the same time.  A job is one evaluation, or the part of a *)
(* follow that comes after its transaction; nothing about it is stored, so *)
(* a replica that stops loses its jobs, and a job whose query fails ends.  *)
(***************************************************************************)
EXTENDS Integers, FiniteSets, Sequences

CONSTANTS
  Users,
  Replicas,           \* API processes
  SUBMISSION_BADGES,  \* <<[code, threshold], ...>>, thresholds ascending
  HelpfulAt,          \* votes an item needs for its author's HELPFUL badge
  MaxEvents           \* bound: scorings, follows, unfollows, falls of a count

Submission == {SUBMISSION_BADGES[k].code : k \in DOMAIN SUBMISSION_BADGES}
Badges == Submission \union {"HELPFUL"}

ASSUME RewardsAssumption ==
  /\ MaxEvents \in Nat /\ HelpfulAt \in Nat /\ IsFiniteSet(Users) /\ IsFiniteSet(Replicas)
  /\ SUBMISSION_BADGES \in Seq([code : STRING, threshold : Nat])

\* The thresholds of the table ascend, and a code names one thing.
ASSUME TableAssumption ==
  /\ \A j, k \in DOMAIN SUBMISSION_BADGES : j < k =>
       /\ SUBMISSION_BADGES[j].threshold <= SUBMISSION_BADGES[k].threshold
       /\ SUBMISSION_BADGES[j].code # SUBMISSION_BADGES[k].code
  /\ Submission \intersect {"HELPFUL", "NEW_FOLLOWER"} = {}

VARIABLES
  follows,    \* <<follower, followed>>
  followers,  \* users.followerCount
  following,  \* users.followingCount
  scored,     \* per user, submissions that are SCORED
  badges,     \* user_badges: <<user, code>>, UNIQUE
  notes,      \* notifications
  jobs,       \* evaluations under way
  events,     \* scorings, follows, unfollows, falls of a count so far
  peak,       \* history: per user, the most submissions that were SCORED at once
  seen        \* history: announcements that failed, and that were cleaned up

rewardVars == <<follows, followers, following, scored, badges, notes, jobs, events, peak, seen>>

RewardInit ==
  /\ follows = {}
  /\ followers = [u \in Users |-> 0] /\ following = [u \in Users |-> 0]
  /\ scored = [u \in Users |-> 0] /\ peak = [u \in Users |-> 0]
  /\ badges = {} /\ notes = {} /\ jobs = {} /\ events = 0
  /\ seen = [silent |-> {}, cleaned |-> {}]

\* Event n has replica p look at badges of user u.
Job(p, n, u, pc, codes) == [at |-> p, n |-> n, user |-> u, pc |-> pc, codes |-> codes]
Tail1(j) == IF Len(j.codes) = 1 THEN {} ELSE {[j EXCEPT !.pc = "award", !.codes = Tail(@)]}
Goal(j) == <<j.user, Head(j.codes)>>
Replace(j, next) == jobs' = (jobs \ {j}) \union next

-----------------------------------------------------------------------------
\* Followers.

\* One Serializable transaction; then the followed user is told.
follow(u, v, p) ==
  /\ u # v /\ events < MaxEvents /\ events' = events + 1
  /\ <<u, v>> \notin follows
  /\ follows' = follows \union {<<u, v>>}
  /\ following' = [following EXCEPT ![u] = @ + 1]
  /\ followers' = [followers EXCEPT ![v] = @ + 1]
  /\ jobs' = jobs \union {Job(p, events + 1, v, "tell", <<"NEW_FOLLOWER">>)}
  /\ UNCHANGED <<scored, peak, badges, notes, seen>>

unfollow(u, v) ==
  /\ events < MaxEvents /\ events' = events + 1
  /\ <<u, v>> \in follows
  /\ follows' = follows \ {<<u, v>>}
  /\ following' = [following EXCEPT ![u] = @ - 1]
  /\ followers' = [followers EXCEPT ![v] = @ - 1]
  /\ UNCHANGED <<scored, peak, badges, notes, jobs, seen>>

-----------------------------------------------------------------------------
\* Badges.

\* A worker has scored a submission and publishes it; heard are the replicas
\* connected to the channel at that moment.
ScoringComplete(u, heard) ==
  /\ events < MaxEvents /\ events' = events + 1
  /\ scored' = [scored EXCEPT ![u] = @ + 1]
  /\ peak' = IF scored[u] = peak[u] THEN [peak EXCEPT ![u] = @ + 1] ELSE peak
  /\ jobs' = jobs \union {Job(p, events + 1, u, "count", << >>) : p \in heard}
  /\ UNCHANGED <<follows, followers, following, badges, notes, seen>>

\* Rows stop being SCORED: one is overwritten FAILED when what follows its
\* update throws, a retry sets one back to SCORING, or a competition is deleted
\* with all of them.  Nobody evaluates badges then, and none is taken back.
Unscored(u) ==
  /\ events < MaxEvents /\ events' = events + 1
  /\ \E n \in 0..scored[u] - 1 : scored' = [scored EXCEPT ![u] = n]
  /\ UNCHANGED <<follows, followers, following, peak, badges, notes, jobs, seen>>

\* submission_scored: every badge whose threshold the count has reached, which
\* are the first of the table.
Due(count) == {k \in DOMAIN SUBMISSION_BADGES : count >= SUBMISSION_BADGES[k].threshold}
Reached(count) == [k \in 1..Cardinality(Due(count)) |-> SUBMISSION_BADGES[k].code]

Evaluate(j) ==
  /\ j.pc = "count"
  /\ LET due == Reached(scored[j.user])
     IN  Replace(j, IF due = << >> THEN {} ELSE {[j EXCEPT !.pc = "award", !.codes = due]})
  /\ UNCHANGED <<follows, followers, following, scored, peak, badges, notes, events, seen>>

\* Faulty variant: find and create without the UNIQUE constraint.
AwardAgain(j) ==
  /\ j.pc = "award"
  /\ badges' = badges \union {Goal(j)} /\ Replace(j, {[j EXCEPT !.pc = "tell"]})
  /\ UNCHANGED <<follows, followers, following, scored, peak, notes, events, seen>>

\* The insert succeeds once; a user who has the badge is left alone.
award(j) ==
  /\ j.pc = "award"
  /\ IF Goal(j) \in badges THEN Replace(j, Tail1(j)) /\ UNCHANGED badges
     ELSE badges' = badges \union {Goal(j)} /\ Replace(j, {[j EXCEPT !.pc = "tell"]})
  /\ UNCHANGED <<follows, followers, following, scored, peak, notes, events, seen>>

-----------------------------------------------------------------------------
\* Notifications.

Announced(j) == [from |-> <<j.at, j.n>>, user |-> j.user, kind |-> Head(j.codes), read |-> FALSE, old |-> FALSE]

\* NotificationService.create
create(j) ==
  /\ j.pc = "tell"
  /\ notes' = notes \union {Announced(j)} /\ Replace(j, Tail1(j))
  /\ UNCHANGED <<follows, followers, following, scored, peak, badges, events, seen>>

Silenced(some) ==
  seen' = [seen EXCEPT !.silent = @ \union {Goal(j) : j \in {j \in some : j.pc = "tell"}}]

\* A query fails: an insert is given up and the next badge is tried, while a
\* failed count, or a badge that cannot be read, ends the evaluation.
QueryFails(j) ==
  /\ \/ j.pc \in {"count", "award"} /\ Replace(j, {})
     \/ j.pc \in {"award", "tell"} /\ Replace(j, Tail1(j))
  /\ Silenced({j})
  /\ UNCHANGED <<follows, followers, following, scored, peak, badges, notes, events>>

Crash(p) ==
  LET gone == {j \in jobs : j.at = p}
  IN  /\ gone # {} /\ jobs' = jobs \ gone /\ Silenced(gone)
      /\ UNCHANGED <<follows, followers, following, scored, peak, badges, notes, events>>

NotesOnly == UNCHANGED <<follows, followers, following, scored, peak, badges, jobs, events>>

markAsRead(n) ==
  /\ ~n.read /\ notes' = (notes \ {n}) \union {[n EXCEPT !.read = TRUE]}
  /\ UNCHANGED seen /\ NotesOnly

markAllAsRead(u) ==
  /\ \E n \in notes : n.user = u /\ ~n.read
  /\ notes' = {IF n.user = u THEN [n EXCEPT !.read = TRUE] ELSE n : n \in notes}
  /\ UNCHANGED seen /\ NotesOnly

\* Ninety days pass.
Age ==
  /\ \E n \in notes : ~n.old
  /\ notes' = {[n EXCEPT !.old = TRUE] : n \in notes}
  /\ UNCHANGED seen /\ NotesOnly

cleanupOld ==
  LET gone == {n \in notes : n.old /\ n.read}
  IN  /\ gone # {} /\ notes' = notes \ gone
      /\ seen' = [seen EXCEPT !.cleaned = @ \union {<<n.user, n.kind>> : n \in gone}]
      /\ NotesOnly

Reward ==
  \/ \E u, v \in Users, p \in Replicas : follow(u, v, p)
  \/ \E u, v \in Users : unfollow(u, v)
  \/ \E u \in Users, heard \in SUBSET Replicas : ScoringComplete(u, heard)
  \/ \E u \in Users : Unscored(u)
  \/ \E j \in jobs : Evaluate(j) \/ award(j) \/ create(j) \/ QueryFails(j)
  \/ \E p \in Replicas : Crash(p)
  \/ \E n \in notes : markAsRead(n)
  \/ \E u \in Users : markAllAsRead(u)
  \/ Age \/ cleanupOld

-----------------------------------------------------------------------------
JobType(j) ==
  /\ j.at \in Replicas /\ j.user \in Users /\ j.n \in Int
  /\ j.pc = "count" => j.codes = << >>
  /\ j.pc = "award" => j.codes \in Seq(Badges) \ {<< >>}
  /\ j.pc = "tell" => j.codes \in Seq(Badges \union {"NEW_FOLLOWER"}) \ {<< >>}
  /\ j.pc \in {"count", "award", "tell"}

RewardTypeOK ==
  /\ follows \subseteq Users \X Users
  /\ followers \in [Users -> Nat] /\ following \in [Users -> Nat] /\ scored \in [Users -> Nat]
  /\ peak \in [Users -> Nat] /\ \A u \in Users : scored[u] <= peak[u]
  /\ badges \subseteq Users \X Badges
  /\ \A n \in notes : n.user \in Users /\ n.kind \in Badges \union {"NEW_FOLLOWER"}
  /\ \A j \in jobs : JobType(j)
  /\ events \in 0..MaxEvents

FollowCounters ==
  \A u \in Users : /\ followers[u] = Cardinality({f \in follows : f[2] = u})
                   /\ following[u] = Cardinality({f \in follows : f[1] = u})

Notes(u, code) == {n \in notes : n.user = u /\ n.kind = code}
Telling(u, code) == {j \in jobs : j.pc = "tell" /\ Goal(j) = <<u, code>>}

\* However many replicas evaluate the same event, a badge is announced once:
\* to a user who has it there is one notification, one job about to write it,
\* or the trace of one that failed or was cleaned up, and to a user who does
\* not have it none.  The count of SCORED rows may fall between the query and
\* the award, or later, and the badge stays: what a badge for submissions says
\* is that its threshold was once reached (BadgeService.award and evaluate,
\* initSocket).
AwardedOnce ==
  \A u \in Users, code \in Badges :
    LET traces == Cardinality(Notes(u, code)) + Cardinality(Telling(u, code))
                  + Cardinality({s \in DOMAIN seen : <<u, code>> \in seen[s]})
    IN  /\ traces = IF <<u, code>> \in badges THEN 1 ELSE 0
        /\ <<u, code>> \in badges =>
             \A k \in DOMAIN SUBMISSION_BADGES :
               SUBMISSION_BADGES[k].code = code => peak[u] >= SUBMISSION_BADGES[k].threshold
=============================================================================
