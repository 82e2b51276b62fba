--------------------------- MODULE SubmissionIntake ---------------------------
(***************************************************************************)
(* POST /competitions/:id/submissions of the CompeteHub API, for one       *)
(* competition: SubmissionService.submit and what it shares with the       *)
(* scoring side.                                                           *)
(*                                                                         *)
(* A submission row is identified by <<user, file>>: the database has a    *)
(* UNIQUE index on (user_id, competition_id, file_hash) and submit always  *)
(* stores the SHA-256 of the file, so a second row for the pair cannot     *)
(* exist.  A file is its content; its name and description are left out,   *)
(* and so is teamId, which no property of this module looks at.            *)
(*                                                                         *)
(* Each member of Requests is one HTTP upload.  submit awaits between its  *)
(* reads, the upload to the object store, the Serializable transaction and *)
(* the queue; every await is a step boundary here.  The transaction itself *)
(* is one step of the database: PostgreSQL's Serializable level makes it   *)
(* equivalent to one, or aborts it (the "ABORTED" outcome).  The clock is  *)
(* no part of that: submit reads it in the body of the transaction, to fix *)
(* the day it counts (ReadClock), and createdAt is the time of the insert, *)
(* which may be a later day (CommitRow).                                   *)
(***************************************************************************)
EXTENDS Integers, FiniteSets

CONSTANTS
  Users,         \* accounts
  Files,         \* file contents, one per SHA-256
  Requests,      \* uploads, each handled by some API process
  NoObject,      \* fileUrl of a row that does not exist
  NoUser,        \* owner of a request that has not arrived
  MaxDailySubs,  \* Competition.maxDailySubs
  MaxTotalSubs,  \* Competition.maxTotalSubs, 0 when it is null
  MaxDay         \* bound: number of calendar days explored

ASSUME IntakeAssumption ==
  /\ IsFiniteSet(Files)
  /\ MaxDailySubs \in Nat \ {0}      \* CHECK chk_max_daily_subs
  /\ MaxTotalSubs \in Nat
  /\ MaxDay \in Nat \ {0}
  /\ NoObject \notin Requests
  /\ NoUser \notin Users

VARIABLES
  compStatus,  \* Competition.status, from ACTIVE on
  enrolled,    \* users with an Enrollment row
  day,         \* the calendar day
  status,      \* Submission.status per row, "NONE" when there is no row
  createdDay,  \* the day of Submission.createdAt
  fileUrl,     \* Submission.fileUrl: the request that uploaded the object
  objects,     \* objects in the MinIO bucket, named by their request
  jobs,        \* rows for which scoringQueue.add succeeded
  req          \* progress of each upload through submit

intakeVars ==
  <<compStatus, enrolled, day, status, createdDay, fileUrl, objects, jobs, req>>

Row == Users \X Files
Status == {"NONE", "QUEUED", "SCORING", "SCORED", "FAILED"}

\* Why submit threw; the HTTP code differs, the control is the same.
Rejection == {"CLOSED", "BAD_FILE", "NOT_ENROLLED", "UPLOAD_FAILED",
              "DUPLICATE", "DAILY_LIMIT", "TOTAL_LIMIT", "ABORTED"}
Progress == {"idle", "opened", "admitted", "uploaded", "counting", "committed",
             "done", "enqueue_failed", "crashed"} \union Rejection

\* One run of submit; window is the day it counts, 0 until it has read the clock.
Request == [pc : Progress, user : Users \union {NoUser}, file : Files, window : 0..MaxDay]

IntakeTypeOK ==
  /\ compStatus \in {"ACTIVE", "COMPLETED"}
  /\ enrolled \in SUBSET Users
  /\ day \in 1..MaxDay
  /\ status \in [Row -> Status]
  /\ createdDay \in [Row -> 0..MaxDay]
  /\ fileUrl \in [Row -> Requests \union {NoObject}]
  /\ objects \in SUBSET Requests
  /\ jobs \in SUBSET Row
  /\ req \in [Requests -> Request]
  /\ \A q \in Requests : req[q].pc # "idle" => req[q].user \in Users

IntakeInit ==
  /\ compStatus = "ACTIVE"
  /\ enrolled \in SUBSET Users
  /\ day = 1
  /\ status = [r \in Row |-> "NONE"]
  /\ createdDay = [r \in Row |-> 0]
  /\ fileUrl = [r \in Row |-> NoObject]
  /\ objects = {}
  /\ jobs = {}
  /\ \E f \in Files :
       req = [q \in Requests |-> [pc |-> "idle", user |-> NoUser, file |-> f, window |-> 0]]

-----------------------------------------------------------------------------
\* What the transaction of submit reads.

Exists(r) == status[r] # "NONE"
SubmissionsOf(u) == {f \in Files : status[<<u, f>>] # "NONE"}
SubmittedOn(u, d) == {f \in SubmissionsOf(u) : createdDay[<<u, f>>] = d}

\* findFirst: the statuses that make a file a duplicate (not FAILED).
DuplicateRow(r) == status[r] \in {"QUEUED", "SCORING", "SCORED"}

\* Faulty variant: > where the code has >=.
DailyLimitPassed(u, d) == Cardinality(SubmittedOn(u, d)) > MaxDailySubs

\* d is the window [todayStart, todayEnd) of the count.
DailyLimitReached(u, d) == Cardinality(SubmittedOn(u, d)) >= MaxDailySubs

TotalLimitReached(u) ==
  /\ MaxTotalSubs # 0
  /\ Cardinality(SubmissionsOf(u)) >= MaxTotalSubs

RowOf(q) == <<req[q].user, req[q].file>>
Goto(q, to) == req' = [req EXCEPT ![q].pc = to]

-----------------------------------------------------------------------------
\* submit, step by step.

\* competition.findUnique and the checks that look at the file alone (size,
\* magic bytes, antivirus): whether they accept depends only on the content.
Open(q, u, f) ==
  /\ req[q].pc = "idle"
  /\ \E next \in {"opened", "BAD_FILE"} :
       req' = [req EXCEPT ![q] =
                 [pc |-> IF compStatus = "ACTIVE" THEN next ELSE "CLOSED",
                  user |-> u, file |-> f, window |-> 0]]
  /\ UNCHANGED <<compStatus, enrolled, day, status, createdDay, fileUrl, objects, jobs>>

\* enrollment.findUnique
CheckEnrollment(q) ==
  /\ req[q].pc = "opened"
  /\ Goto(q, IF req[q].user \in enrolled THEN "admitted" ELSE "NOT_ENROLLED")
  /\ UNCHANGED <<compStatus, enrolled, day, status, createdDay, fileUrl, objects, jobs>>

\* storage.uploadStream: the object is stored, or the call throws.
Upload(q) ==
  /\ req[q].pc = "admitted"
  /\ \/ /\ objects' = objects \union {q}
        /\ Goto(q, "uploaded")
     \/ /\ Goto(q, "UPLOAD_FAILED")
        /\ UNCHANGED objects
  /\ UNCHANGED <<compStatus, enrolled, day, status, createdDay, fileUrl, jobs>>

\* const todayStart = new Date(), in the body of the transaction: the day of
\* the count, whatever the day is when the row is inserted.
ReadClock(q) ==
  /\ req[q].pc = "uploaded"
  /\ req' = [req EXCEPT ![q].pc = "counting", ![q].window = day]
  /\ UNCHANGED <<compStatus, enrolled, day, status, createdDay, fileUrl, objects, jobs>>

\* The outcome of the transaction body, in the order of its checks; the
\* UNIQUE index is the last line of defence (P2002, answered as a duplicate).
TxOutcome(q) ==
  LET u == req[q].user IN
  IF DuplicateRow(RowOf(q)) THEN "DUPLICATE"
  ELSE IF DailyLimitReached(u, req[q].window) THEN "DAILY_LIMIT"
  ELSE IF TotalLimitReached(u) THEN "TOTAL_LIMIT"
  ELSE IF Exists(RowOf(q)) THEN "DUPLICATE"
  ELSE "committed"

\* The transaction commits: the row exists from here on, created on the day of
\* its insert.
CommitRow(q) ==
  /\ req[q].pc = "counting"
  /\ TxOutcome(q) = "committed"
  /\ status' = [status EXCEPT ![RowOf(q)] = "QUEUED"]
  /\ createdDay' = [createdDay EXCEPT ![RowOf(q)] = day]
  /\ fileUrl' = [fileUrl EXCEPT ![RowOf(q)] = q]
  /\ Goto(q, "committed")
  /\ UNCHANGED <<compStatus, enrolled, day, objects, jobs>>

\* The transaction throws, or PostgreSQL aborts it: the uploaded object is
\* deleted; the deletion's own failure is swallowed and leaves the object.
RejectRow(q) ==
  /\ req[q].pc = "counting"
  /\ \E why \in {TxOutcome(q), "ABORTED"} \ {"committed"} : Goto(q, why)
  /\ objects' \in {objects, objects \ {q}}
  /\ UNCHANGED <<compStatus, enrolled, day, status, createdDay, fileUrl, jobs>>

\* Faulty variant: add is inside the try block whose catch deletes the object.
EnqueueInTry(q) ==
  /\ req[q].pc = "committed"
  /\ \/ /\ jobs' = jobs \union {RowOf(q)}
        /\ Goto(q, "done")
        /\ UNCHANGED objects
     \/ /\ Goto(q, "enqueue_failed")
        /\ objects' = objects \ {q}
        /\ UNCHANGED jobs
  /\ UNCHANGED <<compStatus, enrolled, day, status, createdDay, fileUrl>>

\* Faulty variant: an error of add is swallowed and the client is told 202.
EnqueueSwallow(q) ==
  /\ req[q].pc = "committed"
  /\ jobs' \in {jobs, jobs \union {RowOf(q)}}
  /\ Goto(q, "done")
  /\ UNCHANGED <<compStatus, enrolled, day, status, createdDay, fileUrl, objects>>

\* scoringQueue.add, after the commit: it may throw, and nothing is undone.
Enqueue(q) ==
  /\ req[q].pc = "committed"
  /\ \/ /\ jobs' = jobs \union {RowOf(q)}
        /\ Goto(q, "done")
     \/ /\ Goto(q, "enqueue_failed")
        /\ UNCHANGED jobs
  /\ UNCHANGED <<compStatus, enrolled, day, status, createdDay, fileUrl, objects>>

\* The API process dies while it handles the upload.
Crash(q) ==
  /\ req[q].pc \in {"opened", "admitted", "uploaded", "counting", "committed"}
  /\ Goto(q, "crashed")
  /\ UNCHANGED <<compStatus, enrolled, day, status, createdDay, fileUrl, objects, jobs>>

-----------------------------------------------------------------------------
\* The rest of the system, as submit sees it.

\* Midnight.
NextDay ==
  /\ day < MaxDay
  /\ day' = day + 1
  /\ UNCHANGED <<compStatus, enrolled, status, createdDay, fileUrl, objects, jobs, req>>

\* autoCompleteCompetitions or the host.
CloseCompetition ==
  /\ compStatus = "ACTIVE"
  /\ compStatus' = "COMPLETED"
  /\ UNCHANGED <<enrolled, day, status, createdDay, fileUrl, objects, jobs, req>>

\* EnrollmentService.enroll needs an open competition, unenroll does not; no
\* submission row is touched by either.
ChangeEnrollment(u) ==
  /\ u \in enrolled \/ compStatus = "ACTIVE"
  /\ enrolled' = IF u \in enrolled THEN enrolled \ {u} ELSE enrolled \union {u}
  /\ UNCHANGED <<compStatus, day, status, createdDay, fileUrl, objects, jobs, req>>

\* What submit relies on: the workers and the recovery job change the status
\* of rows that were put on the queue, never back to QUEUED, and nothing else.
ScoringSide(rows) ==
  /\ rows \subseteq jobs
  /\ \E new \in [rows -> {"SCORING", "SCORED", "FAILED"}] :
       status' = [r \in Row |-> IF r \in rows THEN new[r] ELSE status[r]]
  /\ UNCHANGED <<compStatus, enrolled, day, createdDay, fileUrl, objects, jobs, req>>

Handler(q) ==
  \/ \E u \in Users, f \in Files : Open(q, u, f)
  \/ CheckEnrollment(q)
  \/ Upload(q)
  \/ ReadClock(q)
  \/ CommitRow(q)
  \/ RejectRow(q)
  \/ Enqueue(q)

ApiNext ==
  \/ \E q \in Requests : Handler(q) \/ Crash(q)
  \/ NextDay
  \/ CloseCompetition
  \/ \E u \in Users : ChangeEnrollment(u)

IntakeNext ==
  \/ ApiNext
  \/ \E rows \in SUBSET jobs : ScoringSide(rows)

IntakeSpec == IntakeInit /\ [][IntakeNext]_intakeVars

-----------------------------------------------------------------------------
\* Properties.

\* The rows of a day whose submit counted that same day: all of them, but for
\* the uploads that midnight fell upon between the clock and the insert.
CountedOn(u, d) == {f \in SubmittedOn(u, d) : req[fileUrl[<<u, f>>]].window = d}

\* However many uploads of one user run at once, and whichever of them cross
\* midnight inside the transaction, the rows a day was counted for never
\* exceed maxDailySubs: whatever a day has beyond the limit was let in by the
\* count of an earlier day.
DailyLimit ==
  \A u \in Users : \A d \in 1..MaxDay :
    Cardinality(CountedOn(u, d)) <= MaxDailySubs

\* The same for the lifetime limit, when the competition has one.
TotalLimit ==
  MaxTotalSubs # 0 =>
    \A u \in Users : Cardinality(SubmissionsOf(u)) <= MaxTotalSubs

\* Both limits of a competition hold at any time, for every user and every day,
\* the daily one of the rows that were counted on the day they were created.
LimitsRespected == DailyLimit /\ TotalLimit

\* Whatever becomes of the other uploads of the same file, of their cleanup
\* and of crashes, the object that a row's fileUrl names is in the bucket, and
\* no two rows name the same object.
RowHasItsObject ==
  /\ \A r \in Row : Exists(r) => fileUrl[r] \in objects
  /\ \A r1, r2 \in Row :
       Exists(r1) /\ Exists(r2) /\ fileUrl[r1] = fileUrl[r2] => r1 = r2

\* A row that is QUEUED and has no job belongs to a submit that committed and
\* is still to call add, or that died or threw there: no other path forgets a
\* row, and no job is published before its row is.
QueuedRowAccountedFor ==
  /\ \A r \in Row : status[r] = "QUEUED" /\ r \notin jobs =>
       req[fileUrl[r]].pc \in {"committed", "enqueue_failed", "crashed"}
  /\ \A r \in jobs : Exists(r)
=============================================================================
