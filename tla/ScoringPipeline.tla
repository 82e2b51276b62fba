---------------------------- MODULE ScoringPipeline ----------------------------
(***************************************************************************)
(* From the queue to the leaderboard: the BullMQ queue "scoring", the      *)
(* worker's processScoring, the leaderboard row it maintains, the dead     *)
(* letter queue and the cron job that fails stuck rows, composed with      *)
(* SubmissionIntake, whose ScoringSide step they take the place of.        *)
(*                                                                         *)
(* A slot is one concurrent job of a worker process (concurrency 5 in the  *)
(* worker, 2 in the API's inline worker; both run the same processScoring).*)
(* BullMQ is external.  What the code relies on: a job is handed to one    *)
(* slot, which holds its lock while it renews it (lockDuration); a lock    *)
(* that lapses puts the job back (stalled) while the first slot, if alive, *)
(* keeps running; only the lock's holder can complete or fail the job; a   *)
(* job that throws is retried until it has made `attempts` attempts; one   *)
(* that stalls more than maxStalledCount times is failed without reaching  *)
(* the dead letter queue, as attemptsMade is still below attempts.         *)
(*                                                                         *)
(* A file's scores depend on its content and the ground truth only, so     *)
(* they are constants here.  The two Redis sorted sets are written and     *)
(* never read; only that writing them may throw matters.                   *)
(***************************************************************************)
EXTENDS SubmissionIntake

CONSTANTS
  Slots,          \* concurrent jobs of all worker processes
  NoSlot, NoRow,  \* owner of an unlocked job, row of an idle slot
  PublicScore,    \* per file, what the public scorer computes
  PrivateScore,   \* per file, what the private scorer computes
  Unscorable,     \* files on which scoring throws, every time
  HigherIsBetter, \* HIGHER_IS_BETTER[evalMetric]
  MaxAttempts,    \* attempts of a job (3 in the code)
  MaxStalled,     \* BullMQ's maxStalledCount (1, its default)
  MaxFaults       \* bound: errors, crashes and lock lapses explored

ASSUME PipelineAssumption ==
  /\ NoSlot \notin Slots /\ NoRow \notin Row
  /\ PublicScore \in [Files -> Int] /\ PrivateScore \in [Files -> Int]
  /\ Unscorable \subseteq Files
  /\ HigherIsBetter \in BOOLEAN
  /\ MaxAttempts \in Nat \ {0} /\ MaxStalled \in Nat /\ MaxFaults \in Nat

VARIABLES
  job,     \* the BullMQ job of each row
  slot,    \* progress of each slot through processScoring
  scored,  \* rows whose publicScore and privateScore are set
  board,   \* LeaderboardEntry per user; there is none while count = 0
  inbox,   \* SUBMISSION_SCORED notifications: <<row, "scored" or "failed">>
  dlq,     \* rows whose job is in scoring-dlq
  faults   \* faults still to come

workerVars == <<job, slot, scored, board, inbox, dlq, faults>>
vars == <<intakeVars, workerVars>>

Job == [st : {"none", "waiting", "active", "completed", "failed"},
        tries : 0..MaxAttempts, stalls : Nat, owner : Slots \union {NoSlot}]
Slot == [pc : {"idle", "begin", "compute", "record", "rank", "announce",
               "finish", "fail_row", "fail_notify", "throw"},
         row : Row \union {NoRow}]
Entry == [pub : Int, priv : Int, count : Nat]

TypeOK ==
  /\ IntakeTypeOK
  /\ job \in [Row -> Job]
  /\ slot \in [Slots -> Slot]
  /\ \A w \in Slots : slot[w].pc # "idle" => slot[w].row \in Row
  /\ scored \in SUBSET Row
  /\ board \in [Users -> Entry]
  /\ inbox \in SUBSET (Row \X {"scored", "failed"})
  /\ dlq \in SUBSET Row
  /\ faults \in 0..MaxFaults

Init ==
  /\ IntakeInit
  /\ job = [r \in Row |-> [st |-> "none", tries |-> 0, stalls |-> 0, owner |-> NoSlot]]
  /\ slot = [w \in Slots |-> [pc |-> "idle", row |-> NoRow]]
  /\ scored = {}
  /\ board = [u \in Users |-> [pub |-> 0, priv |-> 0, count |-> 0]]
  /\ inbox = {}
  /\ dlq = {}
  /\ faults = MaxFaults

-----------------------------------------------------------------------------
\* Helpers.

\* No write of the scoring side but that of Submission.status.
RowsUnchanged == UNCHANGED <<compStatus, enrolled, day, createdDay, fileUrl, objects, jobs, req>>

SetStatus(r, s) == RowsUnchanged /\ status' = [status EXCEPT ![r] = s]

Move(w, from, to) ==
  /\ slot[w].pc = from
  /\ slot' = [slot EXCEPT ![w].pc = to]

\* A call to the database, Redis or the object store throws.
Fault == faults > 0 /\ faults' = faults - 1

\* compareBest
Best(existing, incoming) ==
  IF HigherIsBetter
  THEN IF existing >= incoming THEN existing ELSE incoming
  ELSE IF existing <= incoming THEN existing ELSE incoming

\* Faulty variant: the latest scores replace the best ones.
UpsertLatest(e, f) ==
  [pub |-> PublicScore[f], priv |-> PrivateScore[f], count |-> e.count + 1]

\* Faulty variant: the arguments publicScore and privateScore are swapped.
UpsertSwapped(e, f) ==
  [pub   |-> IF e.count = 0 THEN PrivateScore[f] ELSE Best(e.pub, PrivateScore[f]),
   priv  |-> IF e.count = 0 THEN PublicScore[f]  ELSE Best(e.priv, PublicScore[f]),
   count |-> e.count + 1]

\* The entry after the upsert of upsertLeaderboardEntry.
Upsert(e, f) ==
  [pub   |-> IF e.count = 0 THEN PublicScore[f]  ELSE Best(e.pub, PublicScore[f]),
   priv  |-> IF e.count = 0 THEN PrivateScore[f] ELSE Best(e.priv, PrivateScore[f]),
   count |-> e.count + 1]

\* The entry is at least as good as the scores of file f.
Covers(e, f) ==
  /\ e.count > 0
  /\ Best(e.pub, PublicScore[f]) = e.pub
  /\ Best(e.priv, PrivateScore[f]) = e.priv

-----------------------------------------------------------------------------
\* The queue (external).

\* An API step; a successful add makes the job available.
ApiStep ==
  /\ ApiNext
  /\ job' = [r \in Row |->
       IF r \in jobs' \ jobs THEN [job[r] EXCEPT !.st = "waiting"] ELSE job[r]]
  /\ UNCHANGED <<slot, scored, board, inbox, dlq, faults>>

\* A slot takes a waiting job and its lock.
Take(w, r) ==
  /\ slot[w].pc = "idle"
  /\ job[r].st = "waiting"
  /\ job' = [job EXCEPT ![r].st = "active", ![r].owner = w]
  /\ slot' = [slot EXCEPT ![w] = [pc |-> "begin", row |-> r]]
  /\ UNCHANGED <<intakeVars, scored, board, inbox, dlq, faults>>

Orphaned(r) == slot[job[r].owner].row # r

\* The lock of an active job lapses: its holder died, or (a fault) lives on
\* without renewing it.
LockLapses(r) ==
  /\ job[r].st = "active"
  /\ IF Orphaned(r) THEN UNCHANGED faults ELSE Fault
  /\ job' = [job EXCEPT ![r].stalls = @ + 1, ![r].owner = NoSlot,
                        ![r].st = IF job[r].stalls < MaxStalled THEN "waiting" ELSE "failed"]
  /\ UNCHANGED <<intakeVars, slot, scored, board, inbox, dlq>>

-----------------------------------------------------------------------------
\* processScoring in slot w, on the row r it was given.

\* status = SCORING, whatever it was; a throw here is outside the try block.
Begin(w, r) ==
  \/ /\ Move(w, "begin", "compute")
     /\ SetStatus(r, "SCORING")
     /\ UNCHANGED <<job, scored, board, inbox, dlq, faults>>
  \/ /\ Move(w, "begin", "throw")
     /\ Fault
     /\ UNCHANGED <<intakeVars, job, scored, board, inbox, dlq>>

\* Ground truth, split, streaming scorers and their checks.
Compute(w, r) ==
  /\ \/ /\ r[2] \notin Unscorable /\ fileUrl[r] \in objects
        /\ Move(w, "compute", "record")
        /\ UNCHANGED faults
     \/ /\ r[2] \in Unscorable \/ fileUrl[r] \notin objects
        /\ Move(w, "compute", "fail_row")
        /\ UNCHANGED faults
     \/ /\ Move(w, "compute", "fail_row")
        /\ Fault
  /\ UNCHANGED <<intakeVars, job, scored, board, inbox, dlq>>

\* status = SCORED with the scores, whatever the status was.
Record(w, r) ==
  \/ /\ Move(w, "record", "rank")
     /\ SetStatus(r, "SCORED")
     /\ scored' = scored \union {r}
     /\ UNCHANGED <<job, board, inbox, dlq, faults>>
  \/ /\ Move(w, "record", "fail_row")
     /\ Fault
     /\ UNCHANGED <<intakeVars, job, scored, board, inbox, dlq>>

\* upsertLeaderboardEntry: the transaction, then the two ZADDs; a fault is an
\* aborted transaction or a ZADD that throws after it committed.
Rank(w, r) ==
  LET ranked == [board EXCEPT ![r[1]] = Upsert(@, r[2])] IN
  /\ \/ /\ Move(w, "rank", "announce")
        /\ board' = ranked
        /\ UNCHANGED faults
     \/ /\ Move(w, "rank", "fail_row")
        /\ board' \in {board, ranked}
        /\ Fault
  /\ UNCHANGED <<intakeVars, job, scored, inbox, dlq>>

\* notification.create, then the publish on scoring:complete.
Announce(w, r) ==
  LET told == inbox \union {<<r, "scored">>} IN
  /\ \/ /\ Move(w, "announce", "finish")
        /\ inbox' = told
        /\ UNCHANGED faults
     \/ /\ Move(w, "announce", "fail_row")
        /\ inbox' \in {inbox, told}
        /\ Fault
  /\ UNCHANGED <<intakeVars, job, scored, board, dlq>>

\* The catch block: status = FAILED (the scores stay), ...
FailRow(w, r) ==
  \/ /\ Move(w, "fail_row", "fail_notify")
     /\ SetStatus(r, "FAILED")
     /\ UNCHANGED <<job, scored, board, inbox, dlq, faults>>
  \/ /\ Move(w, "fail_row", "throw")
     /\ Fault
     /\ UNCHANGED <<intakeVars, job, scored, board, inbox, dlq>>

\* ... a notification, and the error goes on to BullMQ.
FailNotify(w, r) ==
  /\ Move(w, "fail_notify", "throw")
  /\ \/ /\ inbox' = inbox \union {<<r, "failed">>}
        /\ UNCHANGED faults
     \/ /\ Fault
        /\ UNCHANGED inbox
  /\ UNCHANGED <<intakeVars, job, scored, board, dlq>>

\* The slot is free for its next job.
Release(w) == slot' = [slot EXCEPT ![w] = [pc |-> "idle", row |-> NoRow]]

\* The processor returned: the job completes, unless the slot lost its lock.
Finish(w, r) ==
  /\ slot[w].pc = "finish"
  /\ Release(w)
  /\ job' = IF job[r].owner = w
            THEN [job EXCEPT ![r].st = "completed", ![r].owner = NoSlot]
            ELSE job
  /\ UNCHANGED <<intakeVars, scored, board, inbox, dlq, faults>>

\* Faulty variant: the attempts option is forgotten and every throw retries.
ThrowForever(w, r) ==
  /\ slot[w].pc = "throw"
  /\ Release(w)
  /\ job' = IF job[r].owner = w
            THEN [job EXCEPT ![r].tries = @ + 1, ![r].owner = NoSlot, ![r].st = "waiting"]
            ELSE job
  /\ UNCHANGED <<intakeVars, scored, board, inbox, dlq, faults>>

\* The processor threw: retry, or fail for good, after which the worker's
\* 'failed' listener adds the job to the dead letter queue (or fails to).
Throw(w, r) ==
  LET exhausted == job[r].tries + 1 >= MaxAttempts IN
  /\ slot[w].pc = "throw"
  /\ Release(w)
  /\ \/ /\ job[r].owner = w
        /\ job' = [job EXCEPT ![r].tries = @ + 1, ![r].owner = NoSlot,
                              ![r].st = IF exhausted THEN "failed" ELSE "waiting"]
        /\ \/ /\ dlq' = IF exhausted THEN dlq \union {r} ELSE dlq
              /\ UNCHANGED faults
           \/ /\ exhausted
              /\ Fault
              /\ UNCHANGED dlq
     \/ /\ job[r].owner # w
        /\ UNCHANGED <<job, dlq, faults>>
  /\ UNCHANGED <<intakeVars, scored, board, inbox>>

\* The worker process dies.
CrashSlot(w) ==
  /\ slot[w].pc # "idle"
  /\ Fault
  /\ Release(w)
  /\ UNCHANGED <<intakeVars, job, scored, board, inbox, dlq>>

\* Faulty variant: the sweep filters on age only.
RecoverByAge(rows) ==
  /\ rows # {} /\ rows \subseteq jobs
  /\ status' = [r \in Row |-> IF r \in rows THEN "FAILED" ELSE status[r]]
  /\ RowsUnchanged
  /\ UNCHANGED workerVars

\* Faulty variant: the sweep puts the rows back to QUEUED instead of failing them.
RecoverToQueued(rows) ==
  /\ rows # {} /\ \A r \in rows : status[r] = "SCORING"
  /\ status' = [r \in Row |-> IF r \in rows THEN "QUEUED" ELSE status[r]]
  /\ RowsUnchanged
  /\ UNCHANGED workerVars

\* Faulty variant: the sweep looks for QUEUED rows instead of SCORING ones.
RecoverQueued(rows) ==
  /\ rows # {} /\ \A r \in rows : status[r] = "QUEUED"
  /\ status' = [r \in Row |-> IF r \in rows THEN "FAILED" ELSE status[r]]
  /\ RowsUnchanged
  /\ UNCHANGED workerVars

\* recoverStuckSubmissions: one UPDATE of the rows that are SCORING and older
\* than ten minutes.  Age is left out: any SCORING rows may be that old.
RecoverStuck(rows) ==
  /\ rows # {} /\ \A r \in rows : status[r] = "SCORING"
  /\ status' = [r \in Row |-> IF r \in rows THEN "FAILED" ELSE status[r]]
  /\ RowsUnchanged
  /\ UNCHANGED workerVars

Process(w, r) ==
  /\ slot[w].row = r
  /\ \/ Begin(w, r) \/ Compute(w, r) \/ Record(w, r) \/ Rank(w, r)
     \/ Announce(w, r) \/ FailRow(w, r) \/ FailNotify(w, r)
     \/ Finish(w, r) \/ Throw(w, r)

Next ==
  \/ ApiStep
  \/ \E w \in Slots, r \in Row : Take(w, r) \/ Process(w, r)
  \/ \E w \in Slots : CrashSlot(w)
  \/ \E r \in Row : LockLapses(r)
  \/ \E rows \in SUBSET Row : RecoverStuck(rows)

Spec == Init /\ [][Next]_vars

\* Live slots run, waiting jobs are taken, locks of dead slots lapse and the
\* cron job comes round: the event loop, BullMQ's stalled check and node-cron.
Fairness ==
  /\ \A w \in Slots : WF_vars(\E r \in Row : Take(w, r) \/ Process(w, r))
  /\ \A r \in Row : WF_vars(job[r].st = "active" /\ Orphaned(r) /\ LockLapses(r))
  /\ \A r \in Row : WF_vars(RecoverStuck({r}))
  /\ \A q \in Requests : WF_vars(ApiStep /\ req'[q] # req[q] /\ req[q].pc # "idle")

FairSpec == Spec /\ Fairness

-----------------------------------------------------------------------------
\* Properties.

\* A job BullMQ counts as completed has left nothing half done: the row has
\* its scores, the leaderboard entry is at least as good as both of them, and
\* the user was told, however many attempts, crashes and double runs it took.
CompletedIsRanked ==
  \A r \in Row : job[r].st = "completed" =>
    /\ r \in scored
    /\ Covers(board[r[1]], r[2])
    /\ <<r, "scored">> \in inbox

\* Unless its lock ever lapsed, a completed job's row is SCORED and stays so:
\* neither the recovery job nor another attempt can turn it into FAILED.
CompletedStaysScored ==
  \A r \in Row : job[r].st = "completed" /\ job[r].stalls = 0 => status[r] = "SCORED"

\* The leaderboard invents nothing: an entry's best scores are the scores of
\* submissions of that user that were scored.
BoardSound ==
  \A u \in Users : board[u].count > 0 =>
    /\ \E f \in Files : <<u, f>> \in scored /\ board[u].pub = PublicScore[f]
    /\ \E f \in Files : <<u, f>> \in scored /\ board[u].priv = PrivateScore[f]

\* A row is settled when it is SCORED or FAILED, or when every attempt of its
\* job died on the very first write, before the try block.
Settled(r) ==
  \/ status[r] \in {"SCORED", "FAILED"}
  \/ status[r] = "QUEUED" /\ job[r].st = "failed"

\* Every row that reached the queue is settled in the end, for good: crashes
\* and lapsed locks are retried or swept up by the recovery job.
EventuallySettled ==
  \A r \in Row : <>[](r \in jobs => Settled(r))
=============================================================================
