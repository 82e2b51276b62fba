-------------------------- MODULE FinalSelectionProofs --------------------------
(***************************************************************************)
(* What TLAPS proves of CompetitionLifecycle, for every number of handlers *)
(* and processes, all settings and end dates, any clock and any number of  *)
(* faults; and of FinalSelection, for every number of users, submissions   *)
(* and clicks besides and for all scores.                                  *)
(***************************************************************************)
EXTENDS FinalSelection, FiniteSetTheorems, TLAPS

-----------------------------------------------------------------------------
\* The lifecycle.

\* A pending write of one kind is a record of that kind.
LEMMA PendingWrite ==
  ASSUME LifecycleTypeOK, NEW c \in Calls
  PROVE  /\ call[c].op = "status" => call[c] \in StatusWrite
         /\ call[c].op = "settings" => call[c] \in SettingsWrite
BY DEF LifecycleTypeOK, Idle, StatusWrite, SettingsWrite, DeleteWrite

-----------------------------------------------------------------------------
\* Types.

LEMMA LifecycleInitType == LifecycleInit => LifecycleTypeOK
<1> SUFFICES ASSUME LifecycleInit PROVE LifecycleTypeOK
  OBVIOUS
<1>1. call \in [Calls -> {Idle} \union StatusWrite \union SettingsWrite \union DeleteWrite]
  BY DEF LifecycleInit
<1>2. now \in 0..MaxTime /\ faults \in 0..MaxFaults
  BY LifecycleAssumption DEF LifecycleInit
<1> QED
  BY <1>1, <1>2 DEF LifecycleInit, LifecycleTypeOK, CompetitionStatus

LEMMA HandlerType ==
  ASSUME LifecycleTypeOK, NEW c \in Calls, Handler(c)
  PROVE  LifecycleTypeOK'
<1> USE DEF LifecycleTypeOK
<1>1. ASSUME NEW role \in Role, NEW to \in CompetitionStatus, UpdateStatus(c, role, to)
      PROVE  LifecycleTypeOK'
  BY <1>1 DEF UpdateStatus, Decide, StatusWrite
<1>2. ASSUME NEW to \in CompetitionStatus, ReviewCompetition(c, to)
      PROVE  LifecycleTypeOK'
  BY <1>2 DEF ReviewCompetition, Decide, StatusWrite, Role
<1>3. ASSUME NEW to \in Settings, Update(c, to)
      PROVE  LifecycleTypeOK'
  BY <1>3 DEF Update, Decide, SettingsWrite
<1>4. CASE Delete(c)
  BY <1>4 DEF Delete, Decide, DeleteWrite
<1>5. CASE Write(c)
  <2>1. call' \in [Calls -> {Idle} \union StatusWrite \union SettingsWrite \union DeleteWrite]
    BY <1>5 DEF Write
  <2>2. compStatus' \in CompetitionStatus \union {"DELETED"}
    BY <1>5, PendingWrite DEF Write, WriteStatus, WriteSettings, DeleteRow, WriteFails, StatusWrite
  <2>3. settings' \in Settings
    BY <1>5, PendingWrite
    DEF Write, WriteStatus, WriteSettings, DeleteRow, WriteFails, SettingsWrite
  <2>4. approved' \in BOOLEAN
    BY <1>5 DEF Write, WriteStatus, WriteSettings, DeleteRow, WriteFails
  <2> QED
    BY <1>5, <2>1, <2>2, <2>3, <2>4 DEF Write
<1> QED
  BY <1>1, <1>2, <1>3, <1>4, <1>5 DEF Handler

LEMMA CronType ==
  ASSUME LifecycleTypeOK, NEW p \in Crons, CronStep(p) \/ CronError(p) \/ CronCrash(p)
  PROVE  LifecycleTypeOK'
<1> USE LifecycleAssumption DEF LifecycleTypeOK, CronMove
<1>1. CASE AcquireLock(p)
  BY <1>1 DEF AcquireLock
<1>2. CASE FindExpired(p)
  BY <1>2 DEF FindExpired
<1>3. CASE Complete(p)
  BY <1>3 DEF Complete, CompetitionStatus
<1>4. CASE AutoSelect(p)
  BY <1>4 DEF AutoSelect
<1>5. CASE ReleaseLock(p)
  BY <1>5 DEF ReleaseLock
<1>6. CASE CronError(p)
  BY <1>6 DEF CronError, Fault
<1>7. CASE CronCrash(p)
  BY <1>7 DEF CronCrash, Fault
<1> QED
  BY <1>1, <1>2, <1>3, <1>4, <1>5, <1>6, <1>7 DEF CronStep

LEMMA LifecycleNextType ==
  LifecycleTypeOK /\ [LifecycleNext]_lifecycleVars => LifecycleTypeOK'
<1> SUFFICES ASSUME LifecycleTypeOK, [LifecycleNext]_lifecycleVars PROVE LifecycleTypeOK'
  OBVIOUS
<1>1. CASE \E c \in Calls : Handler(c)
  BY <1>1, HandlerType
<1>2. CASE \E p \in Crons : CronStep(p) \/ CronError(p) \/ CronCrash(p)
  BY <1>2, CronType
<1>3. CASE LockExpires
  BY <1>3 DEF LockExpires, LifecycleTypeOK
<1>4. CASE Tick
  BY <1>4, LifecycleAssumption DEF Tick, LifecycleTypeOK
<1>5. CASE UNCHANGED lifecycleVars
  BY <1>5 DEF lifecycleVars, LifecycleTypeOK
<1> QED
  BY <1>1, <1>2, <1>3, <1>4, <1>5 DEF LifecycleNext

\* The type invariant of the competition's row, its handlers and the cron job.
THEOREM LifecycleTypeCorrect == LifecycleSpec => []LifecycleTypeOK
<1>1. LifecycleInit => LifecycleTypeOK
  BY LifecycleInitType
<1>2. LifecycleTypeOK /\ [LifecycleNext]_lifecycleVars => LifecycleTypeOK'
  BY LifecycleNextType
<1> QED
  BY <1>1, <1>2, PTL DEF LifecycleSpec

-----------------------------------------------------------------------------
\* Review.

\* What a pending write may carry: only an admin's write makes the competition
\* ACTIVE, and whoever saw it ACTIVE or later saw it approved.
PendingReviewed ==
  \A c \in Calls : call[c].op = "status" =>
    /\ call[c].to = "ACTIVE" => call[c].role = "admin"
    /\ call[c].to \in {"COMPLETED", "ARCHIVED"} => approved

\* The same for the cron job, which is about to complete what it found ACTIVE.
CronReviewed == \A p \in Crons : cron[p] = "complete" => approved

ReviewInv == ReviewedFirst /\ PendingReviewed /\ CronReviewed

\* A handler that only decides writes nothing, and decides within the review.
LEMMA DecideReview ==
  ASSUME LifecycleTypeOK, ReviewInv, NEW c \in Calls, NEW write, Decide(c, write),
         write.op = "status" => /\ write.to = "ACTIVE" => write.role = "admin"
                                /\ write.to \in {"COMPLETED", "ARCHIVED"} => approved
  PROVE  ReviewInv'
<1> USE DEF LifecycleTypeOK, ReviewInv, Decide
<1>1. ReviewedFirst' /\ CronReviewed'
  BY DEF ReviewedFirst, CronReviewed
<1>2. PendingReviewed'
  <2> SUFFICES ASSUME NEW d \in Calls, call'[d].op = "status"
               PROVE  /\ call'[d].to = "ACTIVE" => call'[d].role = "admin"
                      /\ call'[d].to \in {"COMPLETED", "ARCHIVED"} => approved'
    BY DEF PendingReviewed
  <2>1. CASE d = c
    BY <2>1
  <2>2. CASE d # c
    BY <2>2 DEF PendingReviewed
  <2> QED
    BY <2>1, <2>2
<1> QED
  BY <1>1, <1>2

LEMMA HandlerReview ==
  ASSUME LifecycleTypeOK, ReviewInv, NEW c \in Calls, Handler(c)
  PROVE  ReviewInv'
<1> USE DEF ReviewInv
<1>1. ASSUME NEW role \in Role, NEW to \in CompetitionStatus, UpdateStatus(c, role, to)
      PROVE  ReviewInv'
  <2>1. /\ to = "ACTIVE" => role = "admin"
        /\ to \in {"COMPLETED", "ARCHIVED"} => approved
    BY <1>1 DEF UpdateStatus, validTransitions, ReviewedFirst, LifecycleTypeOK,
                CompetitionStatus, Exists
  <2> QED
    BY <1>1, <2>1, DecideReview DEF UpdateStatus
<1>2. ASSUME NEW to \in CompetitionStatus, ReviewCompetition(c, to)
      PROVE  ReviewInv'
  BY <1>2, DecideReview DEF ReviewCompetition
<1>3. ASSUME NEW to \in Settings, Update(c, to)
      PROVE  ReviewInv'
  BY <1>3, DecideReview DEF Update
<1>4. CASE Delete(c)
  BY <1>4, DecideReview DEF Delete
<1>5. CASE Write(c)
  <2>1. approved => approved'
    BY <1>5 DEF Write, WriteStatus, WriteSettings, DeleteRow, WriteFails
  <2>2. ReviewedFirst'
    <3>1. CASE WriteStatus(c)
      BY <1>5, <3>1, PendingWrite
      DEF WriteStatus, ReviewedFirst, PendingReviewed, StatusWrite
    <3>2. CASE WriteSettings(c) \/ WriteFails(c)
      BY <3>2 DEF WriteSettings, WriteFails, ReviewedFirst
    <3>3. CASE DeleteRow(c)
      BY <3>3 DEF DeleteRow, ReviewedFirst
    <3> QED
      BY <1>5, <3>1, <3>2, <3>3 DEF Write
  <2>3. PendingReviewed'
    <3> SUFFICES ASSUME NEW d \in Calls, call'[d].op = "status"
                 PROVE  /\ call'[d].to = "ACTIVE" => call'[d].role = "admin"
                        /\ call'[d].to \in {"COMPLETED", "ARCHIVED"} => approved'
      BY DEF PendingReviewed
    <3>1. d # c /\ call'[d] = call[d]
      BY <1>5 DEF Write, Idle, LifecycleTypeOK
    <3> QED
      BY <2>1, <3>1 DEF PendingReviewed
  <2>4. CronReviewed'
    BY <1>5, <2>1 DEF Write, CronReviewed
  <2> QED
    BY <2>2, <2>3, <2>4
<1> QED
  BY <1>1, <1>2, <1>3, <1>4, <1>5 DEF Handler

LEMMA CronReview ==
  ASSUME LifecycleTypeOK, ReviewInv, NEW p \in Crons, CronStep(p) \/ CronError(p) \/ CronCrash(p)
  PROVE  ReviewInv'
<1> USE DEF LifecycleTypeOK, ReviewInv, CronMove
<1>1. approved' = approved /\ call' = call
  BY DEF CronStep, AcquireLock, FindExpired, Complete, AutoSelect, ReleaseLock, CronError, CronCrash
<1>2. PendingReviewed'
  BY <1>1 DEF PendingReviewed
<1>3. CASE Complete(p)
  <2>1. approved
    BY <1>3 DEF Complete, CronReviewed
  <2> QED
    BY <1>1, <1>2, <2>1 DEF ReviewedFirst, CronReviewed
<1>4. CASE FindExpired(p)
  BY <1>2, <1>4 DEF FindExpired, ReviewedFirst, CronReviewed
<1>5. CASE ~Complete(p) /\ ~FindExpired(p)
  BY <1>2, <1>5 DEF CronStep, AcquireLock, AutoSelect, ReleaseLock, CronError, CronCrash,
                    ReviewedFirst, CronReviewed
<1> QED
  BY <1>3, <1>4, <1>5

\* However old the reads behind the writes of handlers and cron jobs are, a
\* competition is ACTIVE, COMPLETED or ARCHIVED only after an admin's approval.
THEOREM NothingPassesReview == LifecycleSpec => []ReviewedFirst
<1>1. LifecycleInit => ReviewInv
  BY DEF LifecycleInit, ReviewInv, ReviewedFirst, PendingReviewed, CronReviewed, Idle
<1>2. LifecycleTypeOK /\ ReviewInv /\ [LifecycleNext]_lifecycleVars => ReviewInv'
  <2> SUFFICES ASSUME LifecycleTypeOK, ReviewInv, [LifecycleNext]_lifecycleVars
               PROVE  ReviewInv'
    OBVIOUS
  <2>1. CASE \E c \in Calls : Handler(c)
    BY <2>1, HandlerReview
  <2>2. CASE \E p \in Crons : CronStep(p) \/ CronError(p) \/ CronCrash(p)
    BY <2>2, CronReview
  <2>3. CASE LockExpires \/ Tick \/ UNCHANGED lifecycleVars
    BY <2>3 DEF LockExpires, Tick, lifecycleVars, ReviewInv, ReviewedFirst, PendingReviewed,
                CronReviewed
  <2> QED
    BY <2>1, <2>2, <2>3 DEF LifecycleNext
<1>3. ReviewInv => ReviewedFirst
  BY DEF ReviewInv
<1> QED
  BY <1>1, <1>2, <1>3, LifecycleTypeCorrect, PTL DEF LifecycleSpec

-----------------------------------------------------------------------------
\* The lock.

\* The strengthening: who works holds the lock, as long as no TTL ended too soon.
LockInv == ~lapsed => \A p \in Crons : Working(p) => lock = p

\* Until the TTL of lock:auto-complete ends under a working process, at most one
\* process runs the job, in spite of errors and crashes.
THEOREM LockExcludes == LifecycleSpec => []ExclusiveUnlessLapsed
<1>1. LifecycleInit => LockInv
  BY DEF LifecycleInit, LockInv, Working
<1>2. LifecycleTypeOK /\ LockInv /\ [LifecycleNext]_lifecycleVars => LockInv'
  <2> SUFFICES ASSUME LifecycleTypeOK, LockInv, [LifecycleNext]_lifecycleVars
               PROVE  LockInv'
    OBVIOUS
  <2> USE LifecycleAssumption DEF LifecycleTypeOK, LockInv, Working, CronMove
  <2>1. CASE \E c \in Calls : Handler(c)
    BY <2>1 DEF Handler, UpdateStatus, ReviewCompetition, Update, Delete, Decide, Write
  <2>2. ASSUME NEW p \in Crons, AcquireLock(p) PROVE LockInv'
    BY <2>2 DEF AcquireLock
  <2>3. ASSUME NEW p \in Crons,
               FindExpired(p) \/ Complete(p) \/ AutoSelect(p) \/ CronError(p)
        PROVE  LockInv'
    <3>1. /\ lock' = lock /\ lapsed' = lapsed
          /\ cron[p] # "idle"
          /\ \A q \in Crons : q # p => cron'[q] = cron[q]
      BY <2>3 DEF FindExpired, Complete, AutoSelect, CronError
    <3> QED
      BY <3>1
  <2>4. ASSUME NEW p \in Crons, ReleaseLock(p) PROVE LockInv'
    BY <2>4 DEF ReleaseLock
  <2>5. ASSUME NEW p \in Crons, CronCrash(p) PROVE LockInv'
    BY <2>5 DEF CronCrash
  <2>6. CASE LockExpires
    BY <2>6 DEF LockExpires
  <2>7. CASE Tick \/ UNCHANGED lifecycleVars
    BY <2>7 DEF Tick, lifecycleVars
  <2> QED
    BY <2>1, <2>2, <2>3, <2>4, <2>5, <2>6, <2>7 DEF LifecycleNext, CronStep
<1>3. LockInv => ExclusiveUnlessLapsed
  BY DEF LockInv, ExclusiveUnlessLapsed
<1> QED
  BY <1>1, <1>2, <1>3, LifecycleTypeCorrect, PTL DEF LifecycleSpec

-----------------------------------------------------------------------------
\* FinalSelection adds to the lifecycle and disturbs nothing of it.

LEMMA StepOfLifecycle == [Next]_vars => [LifecycleNext]_lifecycleVars
<1> SUFFICES ASSUME [Next]_vars PROVE [LifecycleNext]_lifecycleVars
  OBVIOUS
<1>1. CASE LifecycleStep
  BY <1>1 DEF LifecycleStep, LifecycleNext, CronStep
<1>2. CASE \E p \in Crons : AutoSelectRows(p)
  BY <1>2 DEF AutoSelectRows, LifecycleNext, CronStep
<1>3. CASE UNCHANGED lifecycleVars
  BY <1>3
<1>4. CASE UNCHANGED vars
  BY <1>4 DEF vars
<1> QED
  BY <1>1, <1>2, <1>3, <1>4 DEF Next, Submit, ScoringSide, CheckRow, SelectRow

\* What is proved of the lifecycle alone holds with submissions in it.
THEOREM SelectionKeepsLifecycle == Spec => LifecycleSpec
<1>1. Init => LifecycleInit
  BY DEF Init
<1> QED
  BY <1>1, StepOfLifecycle, PTL DEF Spec, LifecycleSpec

\* A deleted competition stays deleted.
LEMMA DeletedStays == LifecycleStep /\ ~Exists => ~Exists'
BY DEF LifecycleStep, Handler, UpdateStatus, ReviewCompetition, Update, Delete, Decide, Write,
       WriteFails, AcquireLock, FindExpired, Complete, ReleaseLock, CronError, CronCrash,
       LockExpires, Tick, Exists

-----------------------------------------------------------------------------
\* Types.

LEMMA SelectionNextType == TypeOK /\ [Next]_vars => TypeOK'
<1> SUFFICES ASSUME TypeOK, [Next]_vars PROVE TypeOK'
  OBVIOUS
<1> USE DEF TypeOK, RowStatus
<1>1. CASE LifecycleStep
  BY <1>1 DEF LifecycleStep
<1>2. ASSUME NEW p \in Crons, AutoSelectRows(p) PROVE TypeOK'
  BY <1>2 DEF AutoSelectRows
<1>3. ASSUME NEW r \in Rows, Submit(r) PROVE TypeOK'
  BY <1>3 DEF Submit
<1>4. ASSUME NEW r \in Rows, NEW s \in RowStatus, ScoringSide(r, s) PROVE TypeOK'
  BY <1>4 DEF ScoringSide
<1>5. ASSUME NEW k \in Clicks, NEW r \in Rows, CheckRow(k, r) PROVE TypeOK'
  BY <1>5 DEF CheckRow
<1>6. ASSUME NEW k \in Clicks, NEW r \in Rows, SelectRow(k, r) PROVE TypeOK'
  BY <1>6 DEF SelectRow
<1>7. CASE UNCHANGED vars
  BY <1>7 DEF vars, selectionVars
<1> QED
  BY <1>1, <1>2, <1>3, <1>4, <1>5, <1>6, <1>7 DEF Next

\* The type invariant of the rows, their selection and the calls that make it.
THEOREM SelectionTypeCorrect == Spec => []TypeOK
<1>1. Init => TypeOK
  BY DEF Init, TypeOK, RowStatus
<1> QED
  BY <1>1, SelectionNextType, PTL DEF Spec

-----------------------------------------------------------------------------
\* What is selected has its scores.

\* The strengthening: a click in flight has a scored row too, which only the
\* deletion of the competition takes from under it, and for good.
ScoreInv ==
  /\ \A r \in Rows : rowStatus[r] = "SCORED" => r \in hasScore
  /\ \A r \in hasScore : rowStatus[r] # "NONE"
  /\ selected \subseteq hasScore
  /\ Exists => \A k \in Clicks : click[k] # NoRow => click[k] \in hasScore
  /\ ~Exists => \A r \in Rows : rowStatus[r] = "NONE"

LEMMA ScoreNext == TypeOK /\ ScoreInv /\ [Next]_vars => ScoreInv'
<1> SUFFICES ASSUME TypeOK, ScoreInv, [Next]_vars PROVE ScoreInv'
  OBVIOUS
<1> USE DEF TypeOK, ScoreInv
<1>1. CASE LifecycleStep
  <2>1. CASE Exists'
    <3>1. Exists
      BY <1>1, <2>1, DeletedStays
    <3> QED
      BY <1>1, <2>1, <3>1 DEF LifecycleStep, Exists
  <2>2. CASE ~Exists'
    BY <1>1, <2>2 DEF LifecycleStep, Exists
  <2> QED
    BY <2>1, <2>2
<1>2. ASSUME NEW p \in Crons, AutoSelectRows(p) PROVE ScoreInv'
  <2>1. UNCHANGED <<compStatus, rowStatus, hasScore, click>>
    BY <1>2 DEF AutoSelectRows, AutoSelect
  <2>2. selected' \subseteq hasScore
    <3>1. PICK chosen \in SUBSET Rows : BestPerUser(chosen) /\ selected' = selected \union chosen
      BY <1>2 DEF AutoSelectRows
    <3>2. \A r \in chosen : r \in Candidates(Owner[r])
      BY <3>1, SelectionAssumption DEF BestPerUser, RowsOf
    <3> QED
      BY <3>1, <3>2 DEF Candidates
  <2> QED
    BY <2>1, <2>2 DEF Exists
<1>3. ASSUME NEW r \in Rows, Submit(r) PROVE ScoreInv'
  BY <1>3 DEF Submit, lifecycleVars, Exists
<1>4. ASSUME NEW r \in Rows, NEW s \in RowStatus, ScoringSide(r, s) PROVE ScoreInv'
  BY <1>4 DEF ScoringSide, lifecycleVars, Exists
<1>5. ASSUME NEW k \in Clicks, NEW r \in Rows, CheckRow(k, r) PROVE ScoreInv'
  BY <1>5 DEF CheckRow, lifecycleVars, Exists
<1>6. ASSUME NEW k \in Clicks, NEW r \in Rows, SelectRow(k, r) PROVE ScoreInv'
  BY <1>6, SelectionAssumption DEF SelectRow, lifecycleVars, Exists
<1>7. CASE UNCHANGED vars
  BY <1>7 DEF vars, lifecycleVars, selectionVars, Exists
<1> QED
  BY <1>1, <1>2, <1>3, <1>4, <1>5, <1>6, <1>7 DEF Next

\* A selected submission exists and has its scores, whatever happened between
\* the check of selectSubmission and its transaction.
LEMMA SelectionIsScored == Spec => []SelectedHasScore
<1>1. Init => ScoreInv
  BY DEF Init, ScoreInv, LifecycleInit, Exists
<1>2. ScoreInv => SelectedHasScore
  BY DEF ScoreInv, SelectedHasScore
<1> QED
  BY <1>1, <1>2, ScoreNext, SelectionTypeCorrect, PTL DEF Spec

-----------------------------------------------------------------------------
\* One selection for each user.

\* AtMostOneSelected without cardinalities.
OneEach == \A r, s \in selected : Owner[r] = Owner[s] => r = s

LEMMA OneOfAtMostOne ==
  ASSUME NEW S, IsFiniteSet(S), Cardinality(S) \in {0, 1}
  PROVE  \A r, s \in S : r = s
<1>1. CASE Cardinality(S) = 0
  BY <1>1, FS_EmptySet
<1>2. CASE Cardinality(S) = 1
  <2>1. PICK x : S = {x}
    BY <1>2, FS_Singleton
  <2> QED
    BY <2>1
<1> QED
  BY <1>1, <1>2

LEMMA AtMostOneOfOne ==
  ASSUME NEW S, IsFiniteSet(S), \A r, s \in S : r = s
  PROVE  Cardinality(S) <= 1
<1>1. CASE S = {}
  BY <1>1, FS_EmptySet
<1>2. ASSUME NEW x \in S PROVE Cardinality(S) <= 1
  <2>1. S = {x}
    BY <1>2
  <2>2. Cardinality(S) = 1
    BY <2>1, FS_Singleton
  <2> QED
    BY <2>2
<1> QED
  BY <1>1, <1>2

\* What the cron job selects: for a user one row at most, and none for a user
\* who has a selection.
LEMMA AutoSelectAdds ==
  ASSUME TypeOK, NEW p \in Crons, AutoSelectRows(p)
  PROVE  \E chosen \in SUBSET Rows :
           /\ selected' = selected \union chosen
           /\ \A r, s \in chosen : Owner[r] = Owner[s] => r = s
           /\ \A r \in chosen, s \in selected : Owner[r] # Owner[s]
<1>1. PICK chosen \in SUBSET Rows : BestPerUser(chosen) /\ selected' = selected \union chosen
  BY DEF AutoSelectRows
<1>2. \A r, s \in chosen : Owner[r] = Owner[s] => r = s
  <2> SUFFICES ASSUME NEW r \in chosen, NEW s \in chosen, Owner[r] = Owner[s] PROVE r = s
    OBVIOUS
  <2>1. Owner[r] \in Users /\ r \in RowsOf(Owner[r]) /\ s \in RowsOf(Owner[r])
    BY SelectionAssumption DEF RowsOf
  <2>2. IsFiniteSet(chosen \cap RowsOf(Owner[r]))
    BY SelectionAssumption, FS_Subset
  <2>3. Cardinality(chosen \cap RowsOf(Owner[r])) \in {0, 1}
    BY <1>1, <2>1 DEF BestPerUser
  <2> QED
    BY <2>1, <2>2, <2>3, OneOfAtMostOne
<1>3. \A r \in chosen, s \in selected : Owner[r] # Owner[s]
  <2> SUFFICES ASSUME NEW r \in chosen, NEW s \in selected PROVE Owner[r] # Owner[s]
    OBVIOUS
  <2>1. r \in Candidates(Owner[r])
    BY <1>1, SelectionAssumption DEF BestPerUser, RowsOf
  <2> QED
    BY <2>1 DEF Candidates, SelectedOf, RowsOf, TypeOK
<1> QED
  BY <1>1, <1>2, <1>3

LEMMA OneEachNext == TypeOK /\ OneEach /\ [Next]_vars => OneEach'
<1> SUFFICES ASSUME TypeOK, OneEach, [Next]_vars PROVE OneEach'
  OBVIOUS
<1> USE DEF OneEach
<1>1. CASE LifecycleStep
  BY <1>1 DEF LifecycleStep
<1>2. ASSUME NEW p \in Crons, AutoSelectRows(p) PROVE OneEach'
  BY <1>2, AutoSelectAdds
<1>3. ASSUME NEW k \in Clicks, NEW r \in Rows, SelectRow(k, r) PROVE OneEach'
  BY <1>3 DEF SelectRow, RowsOf, TypeOK
<1>4. CASE UNCHANGED selected
  BY <1>4
<1> QED
  BY <1>1, <1>2, <1>3, <1>4 DEF Next, Submit, ScoringSide, CheckRow, vars, selectionVars

\* However clicks, cron jobs of several processes and the scoring side
\* interleave, a user has at most one selected submission.
LEMMA OneSelectionEach == Spec => []AtMostOneSelected
<1>1. Init => OneEach
  BY DEF Init, OneEach
<1>2. TypeOK /\ OneEach => AtMostOneSelected
  <2> SUFFICES ASSUME TypeOK, OneEach, NEW u \in Users PROVE Cardinality(SelectedOf(u)) <= 1
    BY DEF AtMostOneSelected
  <2>1. IsFiniteSet(SelectedOf(u))
    BY SelectionAssumption, FS_Subset DEF SelectedOf, RowsOf
  <2>2. \A r, s \in SelectedOf(u) : r = s
    BY DEF OneEach, SelectedOf, RowsOf
  <2> QED
    BY <2>1, <2>2, AtMostOneOfOne
<1> QED
  BY <1>1, <1>2, OneEachNext, SelectionTypeCorrect, PTL DEF Spec

\* Whatever the clicks, the cron jobs and the scoring side do, what stands
\* selected for a user is one row, and one with its scores.
THEOREM SelectionIsSound == Spec => []SelectionSound
BY SelectionIsScored, OneSelectionEach, PTL DEF SelectionSound

-----------------------------------------------------------------------------
\* A selection stays.

Stays(u) ==
  SelectedOf(u) # {} /\ compStatus' # "DELETED" =>
    /\ SelectedOf(u)' # {}
    /\ SelectedOf(u)' # SelectedOf(u) => \E k \in Clicks : click[k] \in SelectedOf(u)'

LEMMA SelectionStaysNext ==
  ASSUME TypeOK, [Next]_vars, NEW u \in Users
  PROVE  Stays(u)
<1> USE DEF Stays, SelectedOf, RowsOf
<1>1. CASE LifecycleStep
  BY <1>1 DEF LifecycleStep
<1>2. ASSUME NEW p \in Crons, AutoSelectRows(p) PROVE Stays(u)
  BY <1>2, AutoSelectAdds
<1>3. ASSUME NEW k \in Clicks, NEW r \in Rows, SelectRow(k, r) PROVE Stays(u)
  BY <1>3 DEF SelectRow, RowsOf, TypeOK
<1>4. CASE UNCHANGED selected
  BY <1>4
<1> QED
  BY <1>1, <1>2, <1>3, <1>4 DEF Next, Submit, ScoringSide, CheckRow, vars, selectionVars

\* A user who has a selection keeps one, and only a click of theirs changes it:
\* the cron job never replaces it, a failed transaction never clears it.
THEOREM SelectionIsKept == Spec => SelectionStays
<1>1. TypeOK /\ [Next]_vars => \A u \in Users : Stays(u)
  BY SelectionStaysNext
<1>2. TypeOK /\ [Next]_vars => [\A u \in Users : Stays(u)]_vars
  BY <1>1
<1>3. Spec => [][\A u \in Users : Stays(u)]_vars
  BY <1>2, SelectionTypeCorrect, PTL DEF Spec
<1> QED
  BY <1>3 DEF SelectionStays, Stays
=============================================================================
