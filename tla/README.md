# CompeteHub in TLA+

TLA+ models of CompeteHub, a platform for machine-learning competitions: an
Express/Prisma API, a BullMQ worker that scores CSV submissions, PostgreSQL, Redis
and MinIO, and a React frontend. The models cover the parts in which several
requests, processes, tabs and retries touch the same rows: uploading, scoring, the
leaderboard, the life of a competition, the final submission, teams, accounts,
sessions, discussions, badges and datasets. TLC checks them on small instances; TLAPS
proves the main properties for all values of the constants.

Paths below are relative to the repository (`src/`); the lines behind each definition
are in `PROJECT.json` under `map`.

## The system

| Component | State | Operations | Module |
|---|---|---|---|
| Submission intake (`modules/submission`) | `submissions` rows, objects in the bucket | `submit` | SubmissionIntake |
| Scoring pipeline (`worker/src`, `backend/src/worker`, BullMQ) | jobs, row status and scores, notifications, DLQ | `processScoring`, `failed` listener, shutdown, `recoverStuckSubmissions` | ScoringPipeline |
| Scorers (`worker/src/scorers`, `backend/src/worker/scorers.ts`) | none | split, join with the truth, five metrics, streaming and batch | Evaluation, Scoreboard |
| Leaderboard (`modules/leaderboard`) | `leaderboard_entries`, Redis page cache of 120 s | `upsertLeaderboardEntry`, public, private, shake-up, CSV | Leaderboard, BestScores |
| Competition lifecycle (`modules/competition`, `modules/admin`, `jobs`) | `competitions.status` and settings, Redis locks | `create`, `update`, `updateStatus`, `delete`, `reviewCompetition`, `autoCompleteCompetitions` | CompetitionLifecycle |
| Final selection | `submissions.is_selected` | `selectSubmission`, automatic selection | FinalSelection |
| Enrollment and teams | `enrollments.team_id`, `teams.leader_id`, `team_invitations` | `enroll`, `unenroll`, `create`, `invite`, `respondToInvitation` | Teams |
| Accounts (`modules/auth`, `modules/user`, `modules/admin`) | one `users` row, pending sign-ins in Redis | registration, sign-in, lock, second factor, OAuth, reset, deletion, activation | Accounts |
| Browser session (`frontend/src`, `auth.controller`) | cookie, stored token, store and socket of each tab | the three refreshers, sign-in, sign-out, OAuth callback | Session |
| Discussions and votes | topics, replies, votes, counters | create, vote, edit, pin, delete | Discussions |
| Badges, follows, notifications | `user_badges`, `follows`, counters, `notifications` | evaluation by every replica, follow, clean-up | Rewards, Community |
| Datasets | temporary files, objects, versioned rows | upload, download, delete | Datasets |

What makes them hard: a handler reads, awaits, and writes by id without a condition;
BullMQ delivers at least once, and a job whose lock lapsed runs twice; API processes and
workers die between two writes; each API process runs the cron jobs, kept apart by
a lock that has a TTL and no owner, and each hears every Redis event; a cache outlives
what it was computed from; three places of a page refresh one token. The list, with lines, is
`hazards` in `PROJECT.json`.

## The modules

    SubmissionIntake     <--EXTENDS-- ScoringPipeline          (and implements it)
    CompetitionLifecycle <--EXTENDS-- FinalSelection           (and implements it)
    Evaluation, Leaderboard <--EXTENDS-- Scoreboard            (Leaderboard implements BestScores)
    Rewards <--EXTENDS-- Discussions <--EXTENDS-- Community
    Teams, Accounts, Session, Datasets                         (on their own)

Each that is checked has an `MC...` module (values for TLC, symmetry). Eight `...Proofs`
modules hold the theorems: that of ScoringPipeline has the intake's as well, that of
FinalSelection the lifecycle's, that of Scoreboard those of Leaderboard and Evaluation, and CommunityProofs
those of Discussions and Rewards. In all of them a Serializable transaction is one step, which the
database makes it, or it is rolled back and throws (a commit whose acknowledgement is lost is left out: `submit`
would remove the object of a row that exists); anything else that awaits between a read and a
write is two steps. A request that a check refuses changes nothing and is not a step.
Definitions under a comment "Faulty variant" take no part in any specification: they
are mutations of the definition that follows them, kept to show that each property can
fail.

**SubmissionIntake** is `SubmissionService.submit` for one competition. Each member of
`Requests` is one upload, with a program counter: `Open` (competition and file checks),
`CheckEnrollment`, `Upload`, `ReadClock` (`new Date()` in the body of the transaction, which fixes the day
whose rows are counted), then `CommitRow` or `RejectRow` (the count and the insert, with `createdAt` the
day of the insert, or the clean-up of the object), `Enqueue`. `Crash` ends a request anywhere. A row is identified by user and
file since the database has a unique key on the file hash. The rest of the system is
`NextDay`, `CloseCompetition`, `ChangeEnrollment` and `ScoringSide`, the abstract specification
of everything after the queue: it changes the status of rows that have been enqueued,
never back to QUEUED, and nothing else.

**ScoringPipeline** puts the real thing in its place: a job per row, worker slots that run
`processScoring` step by step (`Begin`, `Compute`, `Record`, `Rank`, `Announce`, or `FailRow`,
`FailNotify`, `Throw`), each able to throw where the code awaits, `CrashSlot`, `LockLapses`, and
`RecoverStuck`. BullMQ is external and modelled from what the code relies on (attempts,
stalled jobs, lock ownership).

**Evaluation** is what `Compute` leaves out: from a file and a competition to a public and a
private score. The computation exists twice in the repository, streaming in the scoring
container (`Standalone`) and batch in the API process (`Inline`, with `WORKER_INLINE`); nothing
observes it half-way, so both are operators. They look at headers differently: `Standalone` for the id and the target
only, `Inline` for every column of the truth (`ColumnsComplete`). Scores are whole numbers of `1/Scale`, RMSE is
compared by its square, log loss is counted in units of the clipped prediction, and labels pass through
a 32-bit float where the code puts them in a `Float32Array`. The seeded shuffle is any set of the right size.

**Leaderboard** has the entries the worker keeps and the requests that rank them. A request
is `GetCached`, `ReadFirstPage`, `StorePage`, `Deliver`, so that scores land between any two; later
pages, the private ranking, the shake-up and the CSV read once. Rows of equal score come in any
order, as PostgreSQL returns them. **BestScores** is its abstract specification: three
variables, one action, which adds a result and sets the best of all of them. **Scoreboard** makes
the outcome of a file the input of the leaderboard.

**CompetitionLifecycle** is one competition. A handler is `Decide` (read and checks) and
`Write` (by id, unconditional), so that any number of stale decisions are pending at a time.
`autoCompleteCompetitions` is `AcquireLock`, `FindExpired`, `Complete`, `AutoSelect`, `ReleaseLock` in
each API process, with errors and crashes between, and `LockExpires` when the TTL ends,
whatever the holder does. `approved` and `lapsed` are history variables.

**FinalSelection** adds the submissions: `CheckRow` and `SelectRow` are `selectSubmission`;
`AutoSelectRows` is the SQL statement of `autoSelectBestSubmissions`, with a free choice
among rows that tie on score and time; a competition that is deleted takes its rows along.

**Teams** has enrollments, teams and invitations, with the same two halves; `Transaction` is
the second one. A handler keeps what it read of the user's team (`call[c].team`), and `LeaveNoTeam` is what `unenroll`
does when it read none, whatever team the user is in by then.

**Accounts** is one `users` row and any number of handlers on it. `call[h]` holds the row as
the handler read it; `Begin` is the read with its checks, `Put` an update that lands, perhaps on a row that has
changed. Columns come in five groups. A handler *misses* a group that another one changes
after its read; `seen.raced` collects the groups written by a handler that had missed something
its outcome rests on (`Basis`, `Writes`). The properties say what holds outside such races, which
is how far the code, without a transaction in `AuthService` or `MfaService`, can be right: the
condition is exact about which columns are in doubt, and everything sequential, and every overlap that touches
other columns, is covered.

**Session** is one browser. A tab has the store (`user`, `auth`, `token`, `loading`), the timer, the layout
and its socket; a request travels, is read and written by the server in two steps, and is
answered or lost. The refreshers are `Load` (page load), `TimerFires`, `Unauthorized` (the interceptor).
Refresh tokens vary only in their second of issue, so a token is a second.

**Discussions** and **Rewards** are the board and what it pays. Deletions run between the checks
and the transaction of other requests; `Cascade` is the foreign keys'. Each replica that
hears a score evaluates its user's badges (`Evaluate`, `award`, `create`), may miss it, fail or
stop (`Crash`). The count of SCORED rows goes down as well (`Unscored`: a row overwritten FAILED, set back by a retry,
or removed with its competition); `peak` is a history variable, the highest it has been. **Community** joins them: a vote may start an evaluation.

**Datasets** follows an upload from the temporary file through the object, which is put
inside the transaction, to the numbered row; the transaction may abort after the object
is there, a process may stop anywhere, the competition may go.

## What the runs check

Every property of a passing run is violated by a mutant of the code (`mutants`).

| Run | Instance | Checks |
|---|---|---|
| `intake` | 1 user, 3 files, 3 uploads, limits 1 a day and 2 in all, 3 days | `LimitsRespected`, `RowHasItsObject`, `QueuedRowAccountedFor`. Midnight and crashes may fall between any two steps, so that a row may be counted for one day and stored in the next |
| `pipeline` | 2 files, 2 uploads, 2 slots, 2 attempts, 2 faults | `CompletedIsRanked`, `CompletedStaysScored`, `BoardSound`, and that the pipeline implements the intake (`IntakeSpec`). Both slots may run one job |
| `pipeline_liveness` | 2 slots, 2 attempts, 3 faults, one file unscorable, fair | types, `EventuallySettled` |
| `lifecycle` | 2 requests, 2 API processes, 2 faults, fair | `ReviewedFirst`, `ExclusiveUnlessLapsed`, `EndedCompletes` |
| `final_selection` | 2 rows of a user, 2 clicks, 2 processes, 1 fault | types, `SelectionSound`, `SelectionStays` |
| `teams` | 3 users, 1 team of at most 2, 3 requests | types, `TeamSizeBound`, `MembersBelong`, `LastOutClosesTeam`. A user moved from one team to another is out of this instance: the theorems cover it |
| `scoreboard` | all metrics, truths of four rows (two or three classes, inexact labels, a repeated id, a third column), some 180 files; 3 scored files for 3 users, a page of 2, 1 reader, fair | types, `WorkersAgree`, `SplitFollowsTruth`, `EntryIsBest`, `BestScoresSpec`, `CachedNeverAhead`, `RanksCountBetter`, `EventuallyFresh` |
| `auc_parity` | the same | `AucParity`, violated: see below |
| `accounts` | 2 handlers, 5 requests, lock at 2 failures, 1 backup code | types, `SessionMatchesPassword`, `FailuresCounted`, `SecondFactorSound`, `DeletedIsErased` |
| `session` | 2 tabs, 4 events, 2 seconds, fair | `SessionContinues`, `TabConsistent`, `PageSettles` |
| `community` | 2 users, 2 handlers, 2 replicas, 2 badge thresholds | types, `CountersMatch`, `AwardedOnce` |
| `datasets` | 2 handlers, 4 uploads | `RowsUsable`, `FilesAccountedFor` |

The bounds are the smallest at which the conflicts occur: two concurrent actors on each
shared row, a third where a race must meet a bystander (three uploads, three users of a
team of two, three entries on pages of two, so that a tie crosses a page), as many faults
as it takes to exhaust the attempts of a job. Two attempts instead of three, one retry being enough
to repeat every write. Five requests on an account are a read, a change under it, the
late write, and two more that meet the result. Four rows of truth give both parts a
positive and a negative, and a tie. `MaxDay`, `MaxTime`, `MaxFaults`, `MaxCalls`, `MaxActs`, `MaxEvents`,
`MaxRequests`, `MaxFiles` and `MaxUploads` only bound the exploration; the proofs hold for any value.
The four rows of a truth and the listed files bound the run alone: `ScoreboardProofs` takes truths and files of any
number of rows, and for the leaderboard any outcome of files whatever. Deadlock checking is off because each system may
stop: all requests answered, clock and fault bounds used up.

### Fairness

`pipeline_liveness`: a slot that has something to do goes on (the event loop), a waiting
job is taken by an idle slot, the lock of a dead slot lapses (BullMQ's stalled check), and
the recovery job comes round (node-cron). Nothing is assumed of clients, crashes, faults or of a
lock whose holder is alive. `lifecycle`: the schedule fires in some process, a run that
has started goes on, and Redis ends a TTL. `scoreboard`: Redis ends the TTL of the page, and a
request that has begun ends; nobody has to read or to score. `session`: the server handles what
arrives and the browser what is answered, and a page that sets `location.href` is left; users,
timers, losses and other browsers owe nothing. All of it is weak fairness.

### Where the code is not what its tests or messages say

`auc_parity` finds a bug: `AucRocScorer` (`worker/src/scorers/streaming.ts`) counts every tie
between a positive and a negative row as won, the batch scorer goes by the order of the file,
and the test that says they agree draws predictions that never tie. A file of one constant
prediction gets the AUC 1 from the container.

These are behaviours the models contain as well: each is a step of the module named. No run of
this version reports them one by one, and no property is claimed where the code makes none true.

* SubmissionIntake: `createdAt` is the time of the insert and the window of the count that of an earlier clock reading. With
  a limit of one a day, two uploads that read the clock before midnight and insert after it are both counted for the day
  that ends, which is empty, and both stored in the new one. `LimitsRespected` bounds what each day was counted for; that no
  day has more than `maxDailySubs` rows is not true, and TLC finds this trace when it is asked for.
* SubmissionIntake: a row that is committed when `add` throws or the process dies stays QUEUED for ever,
  since `recoverStuckSubmissions` looks at SCORING only: `QueuedRowAccountedFor` says exactly which rows.
* SubmissionIntake: the file of a FAILED row is refused by the unique key, although the message of the
  recovery job (`jobs/scheduledJobs.ts:31`) asks the user to upload it again.
* ScoringPipeline: a job whose lock lapsed runs twice, and a FAILED of one run may overwrite the SCORED of the other; so may
  any error after the scores were recorded. Entry, notification and badges of such a row remain.
* Evaluation: with a truth of three columns, the API process refuses a file that has id and target only
  (`backend/src/worker/processor.ts:122`), which the container scores. `WorkersAgree` is about files with all columns.
* CompetitionLifecycle: a status, an edit of a frozen field or a deletion decided on an old status is written on a
  newer one; the cron job completes what it read at the start, whatever a host has done since.
* FinalSelection: nobody selects for users when the host completes the competition, when the cron process dies after
  completing it, or for scores that arrive later; and the private leaderboard ranks by best
  score and never looks at the selection.
* Teams: the new leader is chosen on a team read before the transaction, so that the lead may go to a member who is
  leaving; a creation that overlaps with an acceptance moves a user between teams; an invitation may be both accepted and
  declined; and an `unenroll` that read its user in no team (or a late creation) takes that user out of a team that was entered in between:
  a team of one stays behind without members, led by someone who is in no team. `LastOutClosesTeam` says that only this empties a team and keeps it.
* Leaderboard: a tie that continues on the next page restarts at the first rank of that page; a late reader
  stores an old page for another 120 s (`updateLeaderboard`, the only code that deletes it, is not called).
* Discussions: once a downvote has brought a counter to 0, an earlier upvote cannot be taken back, for the database refuses a negative
  counter; a reply whose parent is in another topic goes with that topic, and its own topic still counts it; so
  do replies below a reply that is deleted.
* Accounts: the lost updates that `seen.raced` and `late` mark: simultaneous failures count as one, a login that checked the old
  password stores its session after the reset, a used backup code is written back by a regeneration or by another answer, and a deleted account gets
  back what a late handler writes.
* Rewards: badges of which the count has fallen below the threshold are kept: nothing takes one back.
* Session: two refreshes from one cookie revoke the session (the timer and the page load do not share the
  interceptor's promise); any 401, that of a wrong password included, starts a refresh; after a reload the
  socket opens only when `Layout` is mounted again, as `isAuthenticated` was restored before there was a token.
* Datasets: refused uploads leave their temporary file, aborted ones their object; `FilesAccountedFor` says which.

## What is proved

Assumptions are the ASSUMEs of the modules: limits are positive as the CHECK
constraints of the database make them (`MaxTotalSubs` is a natural number, 0 standing for null; the code
would refuse every upload if it were negative), sets of files, users and handlers are
finite where a proof counts them, and null values are not members of the sets they stand next to.
`ScoreboardAssumption` says what is read from a CSV file (a sequence of rows with an id, compared for equality only, and a cell
that is a number or not one), that the mask has the size of the split, and that a refusal is no score. `TableAssumption` says of the badge table what `SUBMISSION_BADGES` shows: thresholds ascend and a code occurs once.
Nothing is assumed of the number of users, requests, slots, tabs or processes, nor of the bounds.

Each invariant is proved as a part of an inductive one, which TLC checked on the instance of the run first:
initial states have it, each action keeps it, it implies the property.

* **Intake** (`ScoringPipelineProofs`). The inductive invariant adds to the types what a request's
  progress says of its object (from upload to the end of the request, or for ever once a row names it), that rows
  with the same `fileUrl` are one row, and the relation of rows, jobs and requests. From it follow
  `RowsKeepTheirObjects` and `NoRowForgotten`. `LimitsHold` needs that the count and the insert are one
  step and that a request's window never changes after the insert: the new row joins the rows counted for its day (`CountedOn`) only when its window is
  that day, and then these were below the limit.
* **Pipeline** (`ScoringPipelineProofs`). `PipelineImplementsIntake` maps each step to a `ScoringSide` step, an API step or a
  stutter; the limits and objects carry over by `PipelineKeepsLimits`. `CompletedJobsAreRanked` rests on what every
  program counter of a slot implies about scores, entry and notification, which holds even when
  two slots run the job because all three only grow. `CompletedRowsStayScored` needs, in addition, that a job that never
  stalled has one slot at most.
* **Leaderboard** (`ScoreboardProofs`). `EntriesAreBest` compares the three cases of an upsert with the
  set of all results, by the order of whole numbers in either direction. `LeaderboardKeepsBestScores` is the refinement: scoring an accepted
  file is the action of `BestScores`, everything else a stutter. `CacheIsNeverAhead` needs that every page in
  the hands of a request is behind the entries as well, and that entries only improve: a page that was right once stays so.
  `RanksCountBeaten` is about order: an order lists every entry once, so the positions that beat a score are a prefix
  as long as the set of entries that beat it (`BeatenComeFirst`, which counts instead of using induction);
  the row after them is the first of equal score, or lies on an earlier page. `ListInv` adds to the types that a copy in
  the cache, or about to be stored, ranks better scores first; that does not depend on the entries, so a copy
  that lags keeps it. `LeaderboardTypes` needs the same lemma, for a rank to be a number.
* **Evaluation** (`ScoreboardProofs`). A scorer is a fold over rows, so what it computes needs induction. `SetInduction`
  states it over a set of numbers and draws it from a fact of the library, that finite sets are well founded by strict
  inclusion. With it a fold is the last of the values it runs through (`FoldTotals`), and each scorer has an
  invariant over the rows it has met: the count and the sum, the number of hits, and for F1 (`F1Inv`) the classes listed once, the
  first label first, with the number of rows behind each of their three counts. `ScorersAgree` compares what
  is left at the end with the batch definitions. The batch F1 meets all labels before all predictions, so its classes
  come in another order: that their first is the same settles two classes, and that a sum does not depend
  on the order of its terms settles more (`SumPermuted`: a sum is the number of units in its positive terms
  less that in its negative ones, and a permutation carries units to units). Without ties both AUCs count the same pairs; with them,
  `AucNeverLess` says on which side the streaming one errs.
  `WorkersAlwaysAgree` adds that, for a file with all columns, the checks of the two copies refuse the same (`SameRefusals`), and that, in the order of the truth,
  the split by truth index is the split by row. `SplitAlwaysFollowsTruth` shows that the truth index of a file with every id is a
  permutation, that a part is fed the same rows in another order, and that no metric but F1 asks for the order;
  and that the public part never reads a private value. `FilesScored` is what the leaderboard's theorems ask
  of a file: two numbers, or a refusal.
* **Lifecycle** (`FinalSelectionProofs`). `NothingPassesReview`: a pending write of ACTIVE is an
  admin's, a pending COMPLETED or ARCHIVED was decided on a status that was already approved, and so was the cron job's.
  `LockExcludes`: while nothing lapsed, whoever works holds the lock.
* **Selection** (`FinalSelectionProofs`). `SelectionKeepsLifecycle` carries the theorems above over to the composition.
  `SelectionIsSound` and `SelectionIsKept` go by cases on the one transaction that writes.
* **Teams** (`TeamsProofs`). `MembersAreInvited` needs that pending accepts belong to an invitation that was sent, that
  a team that does not exist has no members and no invitations, and that a leader is handed on
  to an enrolled member. `TeamsKeepTheLimit` counts before and after an acceptance. `LastOutCloses` shows of each transaction that it takes
  one member out at most, that a handler which read its user in this team and counts one member deletes it, and that one which counts more leaves another.
* **Accounts** (`AccountsProofs`). One lemma, `PutInv`, says what an update may do to the invariant: every other
  request has either missed the group or still has the current columns in its snapshot (`Current`), and what was raced before
  stays raced. Each handler then shows that its new row has the property when it missed nothing. `SecondFactorIsSound` needs, in addition,
  that a backup code is named by the request that made it, so that new codes are none of the used ones, and a code is
  used by a request that has it in its snapshot. `DeletedAccountsAreErased` adds `ErasureInv`: a request that has not
  missed the deletion knows that the account is gone, and then it is none of those that go on (`Told`); and a password
  with which a sign-in was checked is not the one that a reset gives a deleted account (`PasswordsInv`), without which a
  pending second factor could sign in to it.
* **Session** (`SessionProofs`). `SessionsContinue` and `TabsAreConsistent` follow from `SessionInv`: until two requests
  meet, there is one request or one code in flight, it left with the stored token, and its answer carries
  the token that replaced it (`Fresh`, `Serial`); the page that loads has a user to refresh for.
* **Community** (`CommunityProofs`). `CountersAgree` needs that the number a pending reply will take occurs nowhere yet
  (`FreshRows`) and that replies have two levels, so that a cascade removes what it counts (`TwoLevels`). A vote is three
  cases (new, turned, taken back) on the two sets of votes, whose cardinalities move by one.
  `BadgesAwardedOnce` needs the four ways in which a badge may have been announced, of which exactly one holds (`Traced`),
  and that an evaluation's list has distinct codes whose thresholds the count had reached when it was read, so that `peak`,
  which never falls, is not below them.
* **Datasets** (`DatasetsProofs`). The number read last and the row created are one transaction, so versions are
  `1..Cardinality(rows)`; a download that has been counted and not yet signed is a difference between the count and the links. For the files, each is in
  the hands of the one step that owns it until the request ends, and its fate says how.

Only model-checked: `EventuallySettled`, `EndedCompletes`, `EventuallyFresh` and `PageSettles` (liveness: the prover has no rule for
fairness or ENABLED), and the finding of `auc_parity`, which is a counterexample. Every other invariant and action property of a passing run is the statement of a theorem.

## Not modelled

HTTP wiring and validation, rate limiters, logging and metrics, mail, the audit log, object store beyond
"succeeds or throws", JWT and OAuth signatures, profile fields, lists and searches, the
pages of the frontend other than signing in and out, deployment, monitoring and scripts: none keeps a state
on which two steps could disagree. Of the code that could be modelled, these parts never run and are left out:
`updateLeaderboard`, `createBulk`, and the badges for a verified address, a second factor and a
finished competition, which nothing evaluates. Floating-point rounding is out of reach: only the order of scores matters
here, and `WorkersAgree` is about exact quotients.

Worth doing next: Session with two browsers, to say what a sign-in elsewhere does to this one; a shutdown of the
workers that drains, next to the crash; an abstract specification of the account, in which every request is one step, for
the behaviours without races to implement.
