----------------------------- MODULE FinalSelection -----------------------------
(***************************************************************************)
(* Which submission stands for a user in the end: SubmissionService        *)
(* .selectSubmission and the cron job's autoSelectBestSubmissions, on top  *)
(* of CompetitionLifecycle.                                                *)
(*                                                                         *)
(* selectSubmission checks the row, then clears and sets isSelected in one *)
(* Serializable transaction; autoSelectBestSubmissions is one statement in *)
(* one.  What the API and the workers do to the rows meanwhile is the      *)
(* interface SubmissionIntake gives them: a row appears as QUEUED, from    *)
(* then on its status is any of the others, and a score, once there, stays.*)
(***************************************************************************)
EXTENDS CompetitionLifecycle, FiniteSets

CONSTANTS
  Users,
  Rows,          \* submissions of the competition
  Owner,         \* Submission.userId
  PrivateScore,  \* what the private scorer makes of each row
  LowerIsBetter, \* LOWER_IS_BETTER_METRICS.has(evalMetric)
  Clicks,        \* selectSubmission calls being handled at one time
  NoRow          \* a call that is not being handled

ASSUME SelectionAssumption ==
  /\ IsFiniteSet(Rows)
  /\ Owner \in [Rows -> Users]
  /\ PrivateScore \in [Rows -> Int]
  /\ LowerIsBetter \in BOOLEAN
  /\ NoRow \notin Rows

VARIABLES
  rowStatus,  \* Submission.status, "NONE" when there is no row
  hasScore,   \* rows whose privateScore is not null
  selected,   \* rows with isSelected
  click       \* the row each selectSubmission call has checked

selectionVars == <<rowStatus, hasScore, selected, click>>
vars == <<lifecycleVars, selectionVars>>

RowStatus == {"NONE", "QUEUED", "SCORING", "SCORED", "FAILED"}

TypeOK ==
  /\ rowStatus \in [Rows -> RowStatus]
  /\ hasScore \in SUBSET Rows
  /\ selected \in SUBSET Rows
  /\ click \in [Clicks -> Rows \union {NoRow}]

Init ==
  /\ LifecycleInit
  /\ rowStatus = [r \in Rows |-> "NONE"]
  /\ hasScore = {}
  /\ selected = {}
  /\ click = [k \in Clicks |-> NoRow]

RowsOf(u) == {r \in Rows : Owner[r] = u}
SelectedOf(u) == selected \cap RowsOf(u)

\* r is as good as s under ORDER BY private_score ASC or DESC.
AtLeast(r, s) ==
  IF LowerIsBetter THEN PrivateScore[r] <= PrivateScore[s] ELSE PrivateScore[r] >= PrivateScore[s]

-----------------------------------------------------------------------------
\* Submissions come and are scored.

\* submit commits a row; the status it checked was read before the upload.
Submit(r) ==
  /\ Exists /\ approved
  /\ rowStatus[r] = "NONE"
  /\ rowStatus' = [rowStatus EXCEPT ![r] = "QUEUED"]
  /\ UNCHANGED <<lifecycleVars, hasScore, selected, click>>

\* Faulty variant: the recovery job gives rows a status the enum does not have.
ScoringSideTimeout(r, s) ==
  /\ rowStatus[r] # "NONE"
  /\ s \in {"SCORING", "SCORED", "FAILED"}
  /\ rowStatus' = [rowStatus EXCEPT ![r] = IF s = "FAILED" THEN "TIMED_OUT" ELSE s]
  /\ hasScore' = IF s = "SCORED" THEN hasScore \union {r} ELSE hasScore
  /\ UNCHANGED <<lifecycleVars, selected, click>>

\* The worker or the recovery job, before or after the end of the competition.
ScoringSide(r, s) ==
  /\ rowStatus[r] # "NONE"
  /\ s \in {"SCORING", "SCORED", "FAILED"}
  /\ rowStatus' = [rowStatus EXCEPT ![r] = s]
  /\ hasScore' = IF s = "SCORED" THEN hasScore \union {r} ELSE hasScore
  /\ UNCHANGED <<lifecycleVars, selected, click>>

-----------------------------------------------------------------------------
\* selectSubmission

\* findUnique and the checks.
CheckRow(k, r) ==
  /\ click[k] = NoRow
  /\ rowStatus[r] = "SCORED"
  /\ click' = [click EXCEPT ![k] = r]
  /\ UNCHANGED <<lifecycleVars, rowStatus, hasScore, selected>>

\* Faulty variant: two statements without a transaction; the second may fail.
SelectRowUnsafe(k, r) ==
  /\ click[k] = r
  /\ selected' \in {selected \ RowsOf(Owner[r]), (selected \ RowsOf(Owner[r])) \union {r}}
  /\ click' = [click EXCEPT ![k] = NoRow]
  /\ UNCHANGED <<lifecycleVars, rowStatus, hasScore>>

\* The transaction: every row of the user is cleared, this one set; it rolls
\* back when the row is gone or the database throws.
SelectRow(k, r) ==
  /\ click[k] = r
  /\ \/ /\ rowStatus[r] # "NONE"
        /\ selected' = (selected \ RowsOf(Owner[r])) \union {r}
     \/ UNCHANGED selected
  /\ click' = [click EXCEPT ![k] = NoRow]
  /\ UNCHANGED <<lifecycleVars, rowStatus, hasScore>>

-----------------------------------------------------------------------------
\* The lifecycle, with what it does to the rows.

\* Faulty variant: without AND user_id NOT IN (... is_selected = true).
CandidatesOfAll(u) == {r \in RowsOf(u) : rowStatus[r] = "SCORED" /\ r \in hasScore}

\* Rows best_per_user chooses from: SCORED ones of users without a selection.
Candidates(u) ==
  {r \in RowsOf(u) : rowStatus[r] = "SCORED" /\ r \in hasScore /\ SelectedOf(u) = {}}

\* DISTINCT ON (user_id) ... ORDER BY private_score: a best row of each user.
BestPerUser(chosen) ==
  \A u \in Users :
    /\ Cardinality(chosen \cap RowsOf(u)) = (IF Candidates(u) = {} THEN 0 ELSE 1)
    /\ \A r \in chosen \cap RowsOf(u) :
         r \in Candidates(u) /\ \A s \in Candidates(u) : AtLeast(r, s)

AutoSelectRows(p) ==
  /\ AutoSelect(p)
  /\ \E chosen \in SUBSET Rows :
       /\ BestPerUser(chosen)
       /\ selected' = selected \union chosen
  /\ UNCHANGED <<rowStatus, hasScore, click>>

\* Every other step; deleting the competition deletes its submissions.
LifecycleStep ==
  /\ \/ \E c \in Calls : Handler(c)
     \/ \E p \in Crons :
          AcquireLock(p) \/ FindExpired(p) \/ Complete(p) \/ ReleaseLock(p)
            \/ CronError(p) \/ CronCrash(p)
     \/ LockExpires
     \/ Tick
  /\ IF compStatus' = "DELETED"
     THEN /\ rowStatus' = [r \in Rows |-> "NONE"]
          /\ hasScore' = {}
          /\ selected' = {}
     ELSE UNCHANGED <<rowStatus, hasScore, selected>>
  /\ UNCHANGED click

Next ==
  \/ LifecycleStep
  \/ \E p \in Crons : AutoSelectRows(p)
  \/ \E r \in Rows : Submit(r)
  \/ \E r \in Rows, s \in RowStatus : ScoringSide(r, s)
  \/ \E k \in Clicks, r \in Rows : CheckRow(k, r) \/ SelectRow(k, r)

Spec == Init /\ [][Next]_vars

-----------------------------------------------------------------------------
\* Properties.

\* However clicks of one user, the cron jobs of several processes and the
\* scoring side interleave, a user has at most one selected submission.
AtMostOneSelected == \A u \in Users : Cardinality(SelectedOf(u)) <= 1

\* What is selected can be ranked: it exists and has its scores, although its
\* status may have changed between the check and the transaction.
SelectedHasScore == \A r \in selected : rowStatus[r] # "NONE" /\ r \in hasScore

\* The selection of a user is one submission, and one that has been scored.
SelectionSound == AtMostOneSelected /\ SelectedHasScore

\* A selection is never lost, and replaced only by a click on another row of the
\* same user: neither a failed click nor the cron job takes it away.
SelectionStays ==
  [][\A u \in Users : SelectedOf(u) # {} /\ compStatus' # "DELETED" =>
       /\ SelectedOf(u)' # {}
       /\ SelectedOf(u)' # SelectedOf(u) => \E k \in Clicks : click[k] \in SelectedOf(u)']_vars
=============================================================================
