-------------------------- MODULE CompetitionLifecycle --------------------------
(***************************************************************************)
(* The life of one competition: the host's and the admins' handlers        *)
(* (CompetitionService.update, updateStatus, delete and AdminService       *)
(* .reviewCompetition) and the cron job autoCompleteCompetitions, run by   *)
(* every API process under a Redis lock with a TTL.                        *)
(*                                                                         *)
(* Every handler reads the row, decides on what it read, and writes by id  *)
(* in a second statement with no condition: two steps here, with anything  *)
(* in between.  The cron job does the same with findMany and updateMany.   *)
(*                                                                         *)
(* The fields that update refuses to change once the competition runs      *)
(* (IMMUTABLE_WHEN_ACTIVE, the end date among them) are one value, a       *)
(* member of Settings, and a request that names any of them is taken to    *)
(* name them all; the other fields are left out.  create only makes the    *)
(* initial state.                                                          *)
(***************************************************************************)
EXTENDS Integers

CONSTANTS
  Calls,      \* requests being handled at one time, by any API process
  Crons,      \* API processes, each with its node-cron schedule
  NoCron,     \* holder of a free lock
  Settings,   \* values of the fields in IMMUTABLE_WHEN_ACTIVE
  EndsAt,     \* the endDate among them
  MaxTime,    \* bound: clock values explored
  MaxFaults   \* bound: errors and crashes of the cron job explored

ASSUME LifecycleAssumption ==
  /\ NoCron \notin Crons
  /\ EndsAt \in [Settings -> Nat]
  /\ MaxTime \in Nat /\ MaxFaults \in Nat

VARIABLES
  compStatus,  \* Competition.status, "DELETED" when the row is gone
  settings,    \* the immutable fields
  now,         \* the clock
  call,        \* what each handler has decided and is about to write
  lock,        \* who set lock:auto-complete
  cron,        \* progress of the job in each process
  faults,      \* faults still to come
  approved,    \* history: an admin has made the competition ACTIVE
  lapsed       \* history: the lock's TTL has ended while its holder was working

lifecycleVars == <<compStatus, settings, now, call, lock, cron, faults, approved, lapsed>>

CompetitionStatus == {"DRAFT", "PENDING_REVIEW", "ACTIVE", "COMPLETED", "ARCHIVED"}
Role == {"host", "admin"}

validTransitions ==
  [DRAFT          |-> {"PENDING_REVIEW"},
   PENDING_REVIEW |-> {"ACTIVE", "DRAFT"},
   ACTIVE         |-> {"COMPLETED"},
   COMPLETED      |-> {"ARCHIVED"},
   ARCHIVED       |-> {}]

Idle == [op |-> "none"]
StatusWrite == [op : {"status"}, role : Role, to : CompetitionStatus]
SettingsWrite == [op : {"settings"}, to : Settings]
DeleteWrite == [op : {"delete"}]

LifecycleTypeOK ==
  /\ compStatus \in CompetitionStatus \union {"DELETED"}
  /\ settings \in Settings
  /\ now \in 0..MaxTime
  /\ call \in [Calls -> {Idle} \union StatusWrite \union SettingsWrite \union DeleteWrite]
  /\ lock \in Crons \union {NoCron}
  /\ cron \in [Crons -> {"idle", "find", "complete", "select", "release"}]
  /\ faults \in 0..MaxFaults
  /\ approved \in BOOLEAN
  /\ lapsed \in BOOLEAN

LifecycleInit ==
  /\ compStatus = "DRAFT"
  /\ settings \in Settings
  /\ now = 0
  /\ call = [c \in Calls |-> Idle]
  /\ lock = NoCron
  /\ cron = [p \in Crons |-> "idle"]
  /\ faults = MaxFaults
  /\ approved = FALSE
  /\ lapsed = FALSE

Exists == compStatus # "DELETED"

-----------------------------------------------------------------------------
\* The first half of a handler: findUnique and every check.

Decide(c, write) ==
  /\ Exists
  /\ call[c] = Idle
  /\ call' = [call EXCEPT ![c] = write]
  /\ UNCHANGED <<compStatus, settings, now, lock, cron, faults, approved, lapsed>>

\* Faulty variant: the check that only an admin reviews is forgotten.
UpdateStatusUnreviewed(c, role, to) ==
  /\ Exists /\ to \in validTransitions[compStatus]
  /\ Decide(c, [op |-> "status", role |-> role, to |-> to])

\* CompetitionService.updateStatus: transition, ownership, review by admins only.
UpdateStatus(c, role, to) ==
  /\ Exists /\ to \in validTransitions[compStatus]
  /\ compStatus = "PENDING_REVIEW" /\ to \in {"ACTIVE", "DRAFT"} => role = "admin"
  /\ Decide(c, [op |-> "status", role |-> role, to |-> to])

\* AdminService.reviewCompetition
ReviewCompetition(c, to) ==
  /\ compStatus = "PENDING_REVIEW"
  /\ to \in {"ACTIVE", "DRAFT"}
  /\ Decide(c, [op |-> "status", role |-> "admin", to |-> to])

\* CompetitionService.update, by the host or an admin: once the competition runs,
\* a request can only repeat the values it has.
Update(c, to) ==
  /\ compStatus \in {"ACTIVE", "COMPLETED"} => to = settings
  /\ Decide(c, [op |-> "settings", to |-> to])

\* CompetitionService.delete
Delete(c) ==
  /\ compStatus # "ACTIVE"
  /\ Decide(c, [op |-> "delete"])

-----------------------------------------------------------------------------
\* The second half: the write by id, which fails when the row is gone or the
\* database throws.

WriteStatus(c) ==
  /\ call[c].op = "status"
  /\ compStatus' = call[c].to
  /\ approved' = (approved \/ call[c] = [op |-> "status", role |-> "admin", to |-> "ACTIVE"])
  /\ UNCHANGED settings

WriteSettings(c) ==
  /\ call[c].op = "settings"
  /\ settings' = call[c].to
  /\ UNCHANGED <<compStatus, approved>>

DeleteRow(c) ==
  /\ call[c].op = "delete"
  /\ compStatus' = "DELETED"
  /\ UNCHANGED <<settings, approved>>

WriteFails(c) ==
  /\ call[c] # Idle
  /\ UNCHANGED <<compStatus, settings, approved>>

Write(c) ==
  /\ \/ Exists /\ (WriteStatus(c) \/ WriteSettings(c) \/ DeleteRow(c))
     \/ WriteFails(c)
  /\ call' = [call EXCEPT ![c] = Idle]
  /\ UNCHANGED <<now, lock, cron, faults, lapsed>>

-----------------------------------------------------------------------------
\* autoCompleteCompetitions in process p.

Ended == EndsAt[settings] < now

CronMove(p, from, to) ==
  /\ cron[p] = from
  /\ cron' = [cron EXCEPT ![p] = to]

Fault == faults > 0 /\ faults' = faults - 1

\* Faulty variant: SET without NX.
AcquireAlways(p) ==
  /\ CronMove(p, "idle", "find")
  /\ lock' = p
  /\ UNCHANGED <<compStatus, settings, now, call, faults, approved, lapsed>>

\* SET lock:auto-complete 1 EX 120 NX; the job returns when it is taken.
AcquireLock(p) ==
  /\ lock = NoCron
  /\ CronMove(p, "idle", "find")
  /\ lock' = p
  /\ UNCHANGED <<compStatus, settings, now, call, faults, approved, lapsed>>

\* findMany: ACTIVE and past its end date, or nothing to do.
FindExpired(p) ==
  /\ CronMove(p, "find", IF compStatus = "ACTIVE" /\ Ended THEN "complete" ELSE "release")
  /\ UNCHANGED <<compStatus, settings, now, call, lock, faults, approved, lapsed>>

\* updateMany by id: COMPLETED, whatever the status is by now.
Complete(p) ==
  /\ CronMove(p, "complete", "select")
  /\ compStatus' = IF Exists THEN "COMPLETED" ELSE compStatus
  /\ UNCHANGED <<settings, now, call, lock, faults, approved, lapsed>>

\* autoSelectBestSubmissions, which writes no variable of this module.
AutoSelect(p) ==
  /\ CronMove(p, "select", "release")
  /\ UNCHANGED <<compStatus, settings, now, call, lock, faults, approved, lapsed>>

\* A query throws: the job goes on to its finally block.
CronError(p) ==
  /\ cron[p] \in {"find", "complete", "select"}
  /\ cron' = [cron EXCEPT ![p] = "release"]
  /\ Fault
  /\ UNCHANGED <<compStatus, settings, now, call, lock, approved, lapsed>>

\* DEL lock:auto-complete, whoever holds it by now.
ReleaseLock(p) ==
  /\ CronMove(p, "release", "idle")
  /\ lock' = NoCron
  /\ UNCHANGED <<compStatus, settings, now, call, faults, approved, lapsed>>

\* The process dies (and is started again).
CronCrash(p) ==
  /\ cron[p] # "idle"
  /\ cron' = [cron EXCEPT ![p] = "idle"]
  /\ Fault
  /\ UNCHANGED <<compStatus, settings, now, call, lock, approved, lapsed>>

CronStep(p) ==
  \/ AcquireLock(p) \/ FindExpired(p) \/ Complete(p) \/ AutoSelect(p) \/ ReleaseLock(p)

\* Faulty variant: SET NX without EX, so a lock is released by its holder or never.
LockNeverExpires ==
  /\ lock # NoCron /\ lock = NoCron
  /\ UNCHANGED lifecycleVars

\* The TTL ends: 120 seconds after the lock was taken, whoever works by then.
LockExpires ==
  /\ lock # NoCron
  /\ lapsed' = (lapsed \/ cron[lock] # "idle")
  /\ lock' = NoCron
  /\ UNCHANGED <<compStatus, settings, now, call, cron, faults, approved>>

Tick ==
  /\ now < MaxTime
  /\ now' = now + 1
  /\ UNCHANGED <<compStatus, settings, call, lock, cron, faults, approved, lapsed>>

-----------------------------------------------------------------------------

Handler(c) ==
  \/ \E role \in Role, to \in CompetitionStatus : UpdateStatus(c, role, to)
  \/ \E to \in CompetitionStatus : ReviewCompetition(c, to)
  \/ \E to \in Settings : Update(c, to)
  \/ Delete(c)
  \/ Write(c)

LifecycleNext ==
  \/ \E c \in Calls : Handler(c)
  \/ \E p \in Crons : CronStep(p) \/ CronError(p) \/ CronCrash(p)
  \/ LockExpires
  \/ Tick

LifecycleSpec == LifecycleInit /\ [][LifecycleNext]_lifecycleVars

\* The schedule comes round in some process, a job that has started goes on, and
\* Redis ends the TTL of a lock that its holder never deletes.
LifecycleFairness ==
  /\ WF_lifecycleVars(\E p \in Crons : AcquireLock(p))
  /\ \A p \in Crons : WF_lifecycleVars(CronStep(p) /\ cron[p] # "idle")
  /\ WF_lifecycleVars(LockExpires)

FairLifecycleSpec == LifecycleSpec /\ LifecycleFairness

-----------------------------------------------------------------------------
\* Properties.

\* However stale the reads behind the writes are, nothing gets past the review:
\* a competition has been ACTIVE only if an admin approved it.
ReviewedFirst ==
  compStatus \in {"ACTIVE", "COMPLETED", "ARCHIVED"} => approved

Working(p) == cron[p] # "idle"

\* What the lock is worth: until a TTL ends under a working holder, no two
\* processes run the job at a time, crashes notwithstanding.
ExclusiveUnlessLapsed ==
  ~lapsed => \A p, q \in Crons : Working(p) /\ Working(q) => p = q

\* A competition does not stay ACTIVE past its end date: neither a crash with
\* the lock taken nor an error of one run keeps it there.
EndedCompletes ==
  (compStatus = "ACTIVE" /\ Ended) ~> ~(compStatus = "ACTIVE" /\ Ended)
=============================================================================
