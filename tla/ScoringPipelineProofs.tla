------------------------- MODULE ScoringPipelineProofs -------------------------
(***************************************************************************)
(* What TLAPS proves of SubmissionIntake, for every number of users,       *)
(* files, requests and days and for every limit; and of ScoringPipeline,   *)
(* for every number of slots, attempts, stalls and faults besides, for     *)
(* every score and for either direction of the metric.                     *)
(*                                                                         *)
(* The order: the intake by itself; the pipeline implements it, so its     *)
(* invariants hold of the composition; then the type invariant; then an    *)
(* inductive invariant on who works on which row (QueueInv) and how far    *)
(* each slot has got (ProgressInv), from which the properties follow.      *)
(***************************************************************************)
EXTENDS ScoringPipeline, FiniteSetTheorems, TLAPS

-----------------------------------------------------------------------------
\* The intake.

LEMMA IntakeInitType == IntakeInit => IntakeTypeOK
BY IntakeAssumption DEF IntakeInit, IntakeTypeOK, Request, Progress, Status

\* Where a request may go next without losing its type.
LEMMA GotoType ==
  ASSUME IntakeTypeOK, NEW q \in Requests, NEW to \in Progress, Goto(q, to),
         req[q].pc # "idle"
  PROVE  /\ req' \in [Requests -> Request]
         /\ \A p \in Requests : req'[p].pc # "idle" => req'[p].user \in Users
<1>1. [req[q] EXCEPT !.pc = to] \in Request
  BY DEF IntakeTypeOK, Request
<1>2. req' = [req EXCEPT ![q] = [req[q] EXCEPT !.pc = to]]
  BY DEF Goto
<1> QED
  BY <1>1, <1>2 DEF IntakeTypeOK, Request

\* Every step of a handler keeps the types: one case per step of submit.
LEMMA HandlerType ==
  ASSUME IntakeTypeOK, NEW q \in Requests, Handler(q) \/ Crash(q)
  PROVE  IntakeTypeOK'
<1>1. ASSUME NEW u \in Users, NEW f \in Files, Open(q, u, f) PROVE IntakeTypeOK'
  <2>1. PICK to \in Progress \ {"idle"} :
          req' = [req EXCEPT ![q] = [pc |-> to, user |-> u, file |-> f, window |-> 0]]
    BY <1>1 DEF Open, Progress, Rejection
  <2>2. [pc |-> to, user |-> u, file |-> f, window |-> 0] \in Request
    BY IntakeAssumption DEF Request
  <2> QED
    BY <1>1, <2>1, <2>2 DEF Open, IntakeTypeOK
<1>2. CASE CheckEnrollment(q)
  BY <1>2, GotoType DEF CheckEnrollment, IntakeTypeOK, Progress, Rejection
<1>3. CASE Upload(q)
  BY <1>3, GotoType DEF Upload, IntakeTypeOK, Progress, Rejection
<1>4. CASE ReadClock(q)
  <2>1. [req[q] EXCEPT !.pc = "counting", !.window = day] \in Request
    <3>1. req[q] \in Request /\ day \in 0..MaxDay /\ "counting" \in Progress
      BY IntakeAssumption DEF IntakeTypeOK, Progress
    <3> QED
      BY <3>1 DEF Request
  <2>2. req' = [req EXCEPT ![q] = [req[q] EXCEPT !.pc = "counting", !.window = day]]
    BY <1>4 DEF ReadClock
  <2> QED
    BY <1>4, <2>1, <2>2 DEF ReadClock, IntakeTypeOK, Request
<1>5. CASE CommitRow(q)
  <2>1. RowOf(q) \in Row
    BY <1>5 DEF CommitRow, RowOf, Row, IntakeTypeOK, Request
  <2>2. /\ req' \in [Requests -> Request]
        /\ \A p \in Requests : req'[p].pc # "idle" => req'[p].user \in Users
    BY <1>5, GotoType DEF CommitRow, Progress
  <2> QED
    BY <1>5, <2>1, <2>2, IntakeAssumption DEF CommitRow, Status, IntakeTypeOK
<1>6. CASE RejectRow(q)
  <2>1. PICK why \in Progress : Goto(q, why)
    BY <1>6 DEF RejectRow, TxOutcome, Progress, Rejection
  <2> QED
    BY <1>6, <2>1, GotoType DEF RejectRow, IntakeTypeOK
<1>7. CASE Enqueue(q)
  <2>1. RowOf(q) \in Row
    BY <1>7 DEF Enqueue, RowOf, Row, IntakeTypeOK, Request
  <2> QED
    BY <1>7, <2>1, GotoType DEF Enqueue, IntakeTypeOK, Progress
<1>8. CASE Crash(q)
  BY <1>8, GotoType DEF Crash, IntakeTypeOK, Progress
<1> QED
  BY <1>1, <1>2, <1>3, <1>4, <1>5, <1>6, <1>7, <1>8 DEF Handler

LEMMA IntakeNextType == IntakeTypeOK /\ [IntakeNext]_intakeVars => IntakeTypeOK'
<1> SUFFICES ASSUME IntakeTypeOK, [IntakeNext]_intakeVars PROVE IntakeTypeOK'
  OBVIOUS
<1> USE DEF IntakeTypeOK
<1>1. CASE \E q \in Requests : Handler(q) \/ Crash(q)
  BY <1>1, HandlerType
<1>2. CASE NextDay
  BY <1>2, IntakeAssumption DEF NextDay
<1>3. CASE CloseCompetition
  BY <1>3 DEF CloseCompetition
<1>4. ASSUME NEW u \in Users, ChangeEnrollment(u) PROVE IntakeTypeOK'
  BY <1>4 DEF ChangeEnrollment
<1>5. ASSUME NEW rows \in SUBSET jobs, ScoringSide(rows) PROVE IntakeTypeOK'
  BY <1>5 DEF ScoringSide, Status
<1>6. CASE UNCHANGED intakeVars
  BY <1>6 DEF intakeVars
<1> QED
  BY <1>1, <1>2, <1>3, <1>4, <1>5, <1>6 DEF IntakeNext, ApiNext

\* The type invariant of submit and of the rows it creates.
THEOREM IntakeTypeCorrect == IntakeSpec => []IntakeTypeOK
<1>1. IntakeInit => IntakeTypeOK
  BY IntakeInitType
<1>2. IntakeTypeOK /\ [IntakeNext]_intakeVars => IntakeTypeOK'
  BY IntakeNextType
<1> QED
  BY <1>1, <1>2, PTL DEF IntakeSpec

-----------------------------------------------------------------------------
\* Objects and rows.

\* The inductive invariant behind RowHasItsObject and QueuedRowAccountedFor:
\* a row was committed by the request its fileUrl names, which has left the
\* transaction; a request about to enter it, or in it, still has its object;
\* and the queue knows only rows that exist.
ObjectInv ==
  /\ \A r \in Row : Exists(r) =>
       /\ fileUrl[r] \in Requests \cap objects
       /\ RowOf(fileUrl[r]) = r
       /\ req[fileUrl[r]].pc \in {"committed", "done", "enqueue_failed", "crashed"}
       /\ req[fileUrl[r]].pc = "done" => r \in jobs
  /\ \A q \in Requests : req[q].pc \in {"uploaded", "counting"} => q \in objects
  /\ \A q \in Requests : req[q].pc = "committed" => Exists(RowOf(q))
  /\ \A r \in jobs : Exists(r)

\* A step of request q that changes no row: where q may go, what it may do to
\* the bucket and the queue, and that it leaves the window of a row alone.
Left == {"committed", "done", "enqueue_failed", "crashed"}

MovesOnly(q) ==
  /\ status' = status /\ fileUrl' = fileUrl /\ createdDay' = createdDay
  /\ \A p \in Requests : p # q => req'[p] = req[p]
  /\ req[q].pc \in Left => /\ req'[q].user = req[q].user /\ req'[q].file = req[q].file
                           /\ req'[q].window = req[q].window /\ req'[q].pc \in Left
  /\ req'[q].pc \in {"uploaded", "counting"} => q \in objects'
  /\ req'[q].pc # "committed"
  /\ req'[q].pc = "done" => RowOf(q) \in jobs'
  /\ \A p \in objects : p \in objects' \/ (p = q /\ req[q].pc = "counting")
  /\ jobs \subseteq jobs'
  /\ jobs' = jobs \/ (jobs' = jobs \union {RowOf(q)} /\ req[q].pc = "committed")

LEMMA ObjectFrame ==
  ASSUME IntakeTypeOK, ObjectInv, NEW q \in Requests, MovesOnly(q)
  PROVE  ObjectInv'
<1> USE DEF IntakeTypeOK, Request, RowOf, Exists
<1>1. ASSUME NEW r \in Row, status[r] # "NONE"
      PROVE  /\ fileUrl[r] \in Requests \cap objects'
             /\ <<req'[fileUrl[r]].user, req'[fileUrl[r]].file>> = r
             /\ req'[fileUrl[r]].pc \in Left
             /\ req'[fileUrl[r]].pc = "done" => r \in jobs'
  <2>1. /\ fileUrl[r] \in Requests \cap objects
        /\ <<req[fileUrl[r]].user, req[fileUrl[r]].file>> = r
        /\ req[fileUrl[r]].pc \in Left
        /\ req[fileUrl[r]].pc = "done" => r \in jobs
    BY <1>1 DEF ObjectInv, Left
  <2>2. CASE fileUrl[r] = q
    BY <2>1, <2>2 DEF MovesOnly, Left
  <2>3. CASE fileUrl[r] # q
    BY <2>1, <2>3 DEF MovesOnly
  <2> QED
    BY <2>2, <2>3
<1>2. ASSUME NEW p \in Requests, req'[p].pc \in {"uploaded", "counting"} PROVE p \in objects'
  BY <1>2 DEF MovesOnly, ObjectInv
<1>3. ASSUME NEW p \in Requests, req'[p].pc = "committed"
      PROVE  status[<<req'[p].user, req'[p].file>>] # "NONE"
  BY <1>3 DEF MovesOnly, ObjectInv
<1>4. ASSUME NEW r \in jobs' PROVE status[r] # "NONE"
  BY <1>4 DEF MovesOnly, ObjectInv
<1> QED
  BY <1>1, <1>2, <1>3, <1>4 DEF ObjectInv, MovesOnly, Left

LEMMA CommitObjects ==
  ASSUME IntakeTypeOK, ObjectInv, NEW q \in Requests, CommitRow(q)
  PROVE  ObjectInv'
<1> DEFINE new == <<req[q].user, req[q].file>>
<1> USE DEF IntakeTypeOK, Request
<1>1. new \in Row /\ status[new] = "NONE"
  BY DEF CommitRow, TxOutcome, Row, RowOf, Exists
<1>2. \A r \in Row : r # new => status'[r] = status[r] /\ fileUrl'[r] = fileUrl[r]
  BY DEF CommitRow, RowOf
<1>3. status'[new] = "QUEUED" /\ fileUrl'[new] = q
  BY <1>1 DEF CommitRow, RowOf
<1>4. /\ req'[q].pc = "committed" /\ <<req'[q].user, req'[q].file>> = new
      /\ \A p \in Requests : p # q => req'[p] = req[p]
      /\ objects' = objects /\ jobs' = jobs /\ req[q].pc = "counting" /\ q \in objects
  BY DEF CommitRow, Goto, ObjectInv
<1>5. ASSUME NEW r \in Row, status'[r] # "NONE"
      PROVE  /\ fileUrl'[r] \in Requests \cap objects'
             /\ <<req'[fileUrl'[r]].user, req'[fileUrl'[r]].file>> = r
             /\ req'[fileUrl'[r]].pc \in Left
             /\ req'[fileUrl'[r]].pc = "done" => r \in jobs'
  <2>1. CASE r = new
    BY <1>3, <1>4, <2>1 DEF Left
  <2>2. CASE r # new
    <3>1. /\ fileUrl[r] \in Requests \cap objects
          /\ <<req[fileUrl[r]].user, req[fileUrl[r]].file>> = r
          /\ req[fileUrl[r]].pc \in Left
          /\ req[fileUrl[r]].pc = "done" => r \in jobs
      BY <1>2, <1>5, <2>2 DEF ObjectInv, Left, RowOf, Exists
    <3>2. fileUrl[r] # q
      BY <3>1, <1>4 DEF Left
    <3> QED
      BY <1>2, <1>4, <2>2, <3>1, <3>2
  <2> QED
    BY <2>1, <2>2
<1>6. ASSUME NEW p \in Requests, req'[p].pc \in {"uploaded", "counting"} PROVE p \in objects'
  BY <1>4, <1>6 DEF ObjectInv
<1>7. ASSUME NEW p \in Requests, req'[p].pc = "committed"
      PROVE  status'[<<req'[p].user, req'[p].file>>] # "NONE"
  <2>1. CASE p = q
    BY <1>3, <1>4, <2>1
  <2>2. CASE p # q
    <3>1. req'[p] = req[p] /\ status[<<req[p].user, req[p].file>>] # "NONE"
      BY <1>4, <1>7, <2>2 DEF ObjectInv, RowOf, Exists
    <3>2. <<req[p].user, req[p].file>> \in Row
      BY <1>4, <1>7, <2>2 DEF Row
    <3> QED
      BY <1>1, <1>2, <3>1, <3>2
  <2> QED
    BY <2>1, <2>2
<1>8. ASSUME NEW r \in jobs' PROVE status'[r] # "NONE"
  BY <1>2, <1>3, <1>4, <1>8 DEF ObjectInv, Exists
<1> HIDE DEF new
<1> QED
  BY <1>5, <1>6, <1>7, <1>8 DEF ObjectInv, RowOf, Exists, Left

LEMMA HandlerMoves ==
  ASSUME IntakeTypeOK, ObjectInv, NEW q \in Requests, Handler(q) \/ Crash(q), ~CommitRow(q)
  PROVE  MovesOnly(q)
<1> USE DEF IntakeTypeOK, Request, Goto, MovesOnly, Left
<1>1. ASSUME NEW u \in Users, NEW f \in Files, Open(q, u, f) PROVE MovesOnly(q)
  BY <1>1 DEF Open
<1>2. CASE CheckEnrollment(q)
  BY <1>2 DEF CheckEnrollment
<1>3. CASE Upload(q)
  BY <1>3 DEF Upload
<1>4. CASE ReadClock(q)
  BY <1>4 DEF ReadClock, ObjectInv
<1>5. CASE RejectRow(q)
  <2>1. PICK why \in Rejection : Goto(q, why)
    BY <1>5 DEF RejectRow, TxOutcome, Rejection
  <2> QED
    BY <1>5, <2>1 DEF RejectRow, Rejection
<1>6. CASE Enqueue(q)
  BY <1>6 DEF Enqueue
<1>7. CASE Crash(q)
  BY <1>7 DEF Crash
<1> QED
  BY <1>1, <1>2, <1>3, <1>4, <1>5, <1>6, <1>7 DEF Handler

LEMMA HandlerObjects ==
  ASSUME IntakeTypeOK, ObjectInv, NEW q \in Requests, Handler(q) \/ Crash(q)
  PROVE  ObjectInv'
BY CommitObjects, HandlerMoves, ObjectFrame

LEMMA IntakeNextObjects ==
  IntakeTypeOK /\ ObjectInv /\ [IntakeNext]_intakeVars => ObjectInv'
<1> SUFFICES ASSUME IntakeTypeOK, ObjectInv, [IntakeNext]_intakeVars PROVE ObjectInv'
  OBVIOUS
<1>1. CASE \E q \in Requests : Handler(q) \/ Crash(q)
  BY <1>1, HandlerObjects
<1>2. ASSUME UNCHANGED <<fileUrl, objects, jobs, req>>,
             \A r \in Row : status'[r] # "NONE" <=> status[r] # "NONE"
      PROVE  ObjectInv'
  <2>1. \A q \in Requests : req[q].pc = "committed" => <<req[q].user, req[q].file>> \in Row
    BY DEF IntakeTypeOK, Request, Row
  <2> QED
    BY <1>2, <2>1 DEF ObjectInv, RowOf, Exists, IntakeTypeOK
<1>3. ASSUME NEW rows \in SUBSET jobs, ScoringSide(rows) PROVE ObjectInv'
  <2>1. \A r \in Row : status'[r] # "NONE" <=> status[r] # "NONE"
    BY <1>3 DEF ScoringSide, ObjectInv, Exists
  <2> QED
    BY <1>2, <1>3, <2>1 DEF ScoringSide
<1>4. CASE UNCHANGED <<status, fileUrl, objects, jobs, req>>
  BY <1>2, <1>4
<1> QED
  BY <1>1, <1>3, <1>4
  DEF IntakeNext, ApiNext, NextDay, CloseCompetition, ChangeEnrollment, intakeVars

LEMMA IntakeInvariants == IntakeSpec => [](IntakeTypeOK /\ ObjectInv)
<1>1. IntakeInit => IntakeTypeOK /\ ObjectInv
  BY IntakeInitType DEF IntakeInit, ObjectInv, Exists
<1>2. IntakeTypeOK /\ ObjectInv /\ [IntakeNext]_intakeVars => IntakeTypeOK' /\ ObjectInv'
  BY IntakeNextType, IntakeNextObjects
<1> QED
  BY <1>1, <1>2, PTL DEF IntakeSpec

\* However uploads of one file race, fail or are cleaned up, the object a row
\* names is in the bucket and is named by no other row.
THEOREM RowsKeepTheirObjects == IntakeSpec => []RowHasItsObject
<1>1. ObjectInv => RowHasItsObject
  BY DEF ObjectInv, RowHasItsObject
<1> QED
  BY <1>1, IntakeInvariants, PTL

\* The only QUEUED rows without a job are those of a submit that is about to
\* call add, or died or threw there.
THEOREM NoRowForgotten == IntakeSpec => []QueuedRowAccountedFor
<1>1. ObjectInv => QueuedRowAccountedFor
  BY DEF ObjectInv, QueuedRowAccountedFor, Exists
<1> QED
  BY <1>1, IntakeInvariants, PTL

-----------------------------------------------------------------------------
\* Limits.

LEMMA AddOne ==
  ASSUME NEW S, IsFiniteSet(S), NEW x, NEW n \in Nat, Cardinality(S) < n
  PROVE  Cardinality(S \union {x}) <= n
<1>1. Cardinality(S) \in Nat
  BY FS_CardinalityType
<1>2. Cardinality(S \union {x}) \in {Cardinality(S), Cardinality(S) + 1}
  BY FS_AddElement
<1> QED
  BY <1>1, <1>2

LEMMA SubmissionsFinite ==
  ASSUME NEW u, NEW d
  PROVE  /\ IsFiniteSet(SubmissionsOf(u)) /\ Cardinality(SubmissionsOf(u)) \in Nat
         /\ IsFiniteSet(SubmittedOn(u, d)) /\ Cardinality(SubmittedOn(u, d)) \in Nat
         /\ IsFiniteSet(CountedOn(u, d)) /\ Cardinality(CountedOn(u, d)) \in Nat
         /\ Cardinality(CountedOn(u, d)) <= Cardinality(SubmittedOn(u, d))
<1>1. /\ SubmissionsOf(u) \subseteq Files /\ SubmittedOn(u, d) \subseteq Files
      /\ CountedOn(u, d) \subseteq SubmittedOn(u, d)
  BY DEF SubmissionsOf, SubmittedOn, CountedOn
<1>2. IsFiniteSet(SubmissionsOf(u)) /\ IsFiniteSet(SubmittedOn(u, d))
  BY <1>1, IntakeAssumption, FS_Subset
<1> QED
  BY <1>1, <1>2, FS_Subset, FS_CardinalityType

\* Where no row appears and no day or window changes, the counted sets stay
\* the same.
LEMMA LimitsFrame ==
  ASSUME IntakeTypeOK, UNCHANGED <<createdDay, fileUrl>>,
         \A r \in Row : Exists(r)' <=> Exists(r),
         \A r \in Row : Exists(r) => req'[fileUrl[r]].window = req[fileUrl[r]].window,
         DailyLimit, TotalLimit
  PROVE  DailyLimit' /\ TotalLimit'
<1>1. ASSUME NEW u \in Users PROVE SubmissionsOf(u)' = SubmissionsOf(u)
  BY DEF SubmissionsOf, Exists, Row
<1>2. ASSUME NEW u \in Users, NEW d PROVE CountedOn(u, d)' = CountedOn(u, d)
  <2>1. SubmittedOn(u, d)' = SubmittedOn(u, d)
    BY <1>1 DEF SubmittedOn
  <2>2. \A f \in SubmittedOn(u, d) :
          req'[fileUrl[<<u, f>>]].window = req[fileUrl[<<u, f>>]].window
    BY DEF SubmittedOn, SubmissionsOf, Exists, Row
  <2> QED
    BY <2>1, <2>2 DEF CountedOn
<1> QED
  BY <1>1, <1>2 DEF DailyLimit, TotalLimit

\* What a commit adds to the files of a user, and to those counted on a day:
\* nothing, where the insert falls on another day than the count.
LEMMA CommitAdds ==
  ASSUME IntakeTypeOK, ObjectInv, NEW q \in Requests, CommitRow(q),
         NEW u \in Users, NEW f \in Files, RowOf(q) = <<u, f>>
  PROVE  /\ \A v \in Users : SubmissionsOf(v)' =
              IF v = u THEN SubmissionsOf(u) \union {f} ELSE SubmissionsOf(v)
         /\ \A v \in Users, d \in 1..MaxDay : CountedOn(v, d)' =
              IF v = u /\ d = day /\ d = req[q].window
              THEN CountedOn(u, d) \union {f} ELSE CountedOn(v, d)
<1>1. <<u, f>> \in Row /\ status[<<u, f>>] = "NONE"
  BY DEF CommitRow, TxOutcome, Exists, Row
<1>2. /\ status' = [status EXCEPT ![<<u, f>>] = "QUEUED"]
      /\ createdDay' = [createdDay EXCEPT ![<<u, f>>] = day]
      /\ fileUrl' = [fileUrl EXCEPT ![<<u, f>>] = q]
      /\ req' = [req EXCEPT ![q].pc = "committed"]
      /\ req[q].pc = "counting"
  BY DEF CommitRow, Goto
<1>3. \A v \in Users : SubmissionsOf(v)' = IF v = u THEN SubmissionsOf(u) \union {f} ELSE SubmissionsOf(v)
  BY <1>1, <1>2 DEF SubmissionsOf, IntakeTypeOK, Row
<1>4. ASSUME NEW v \in Users, NEW g \in SubmissionsOf(v)
      PROVE  /\ <<v, g>> \in Row /\ <<v, g>> # <<u, f>>
             /\ createdDay'[<<v, g>>] = createdDay[<<v, g>>]
             /\ fileUrl'[<<v, g>>] = fileUrl[<<v, g>>]
             /\ req'[fileUrl[<<v, g>>]].window = req[fileUrl[<<v, g>>]].window
  <2>1. <<v, g>> \in Row /\ status[<<v, g>>] # "NONE"
    BY DEF SubmissionsOf, Row
  <2>2. <<v, g>> # <<u, f>>
    BY <1>1, <2>1
  <2>3. fileUrl[<<v, g>>] \in Requests /\ fileUrl[<<v, g>>] # q
    BY <1>2, <2>1 DEF ObjectInv, Exists
  <2> QED
    BY <1>1, <1>2, <2>1, <2>2, <2>3 DEF IntakeTypeOK, Request
<1>5. /\ createdDay'[<<u, f>>] = day /\ fileUrl'[<<u, f>>] = q
      /\ req'[q].window = req[q].window
      /\ f \notin SubmissionsOf(u)
  BY <1>1, <1>2 DEF IntakeTypeOK, Request, SubmissionsOf
<1>6. ASSUME NEW v \in Users, NEW d \in 1..MaxDay
      PROVE  CountedOn(v, d)' = IF v = u /\ d = day /\ d = req[q].window
                                THEN CountedOn(u, d) \union {f} ELSE CountedOn(v, d)
  <2>1. \A g : g \in CountedOn(v, d) <=>
                /\ g \in SubmissionsOf(v) /\ createdDay[<<v, g>>] = d
                /\ req[fileUrl[<<v, g>>]].window = d
    BY DEF CountedOn, SubmittedOn
  <2>2. \A g : g \in CountedOn(v, d)' <=>
                /\ g \in SubmissionsOf(v)' /\ createdDay'[<<v, g>>] = d
                /\ req'[fileUrl'[<<v, g>>]].window = d
    BY DEF CountedOn, SubmittedOn
  <2>3. ASSUME NEW g \in SubmissionsOf(v) PROVE g \in CountedOn(v, d)' <=> g \in CountedOn(v, d)
    <3>1. g \in SubmissionsOf(v)'
      BY <1>3
    <3>2. /\ createdDay'[<<v, g>>] = createdDay[<<v, g>>]
          /\ fileUrl'[<<v, g>>] = fileUrl[<<v, g>>]
          /\ req'[fileUrl[<<v, g>>]].window = req[fileUrl[<<v, g>>]].window
      BY <1>4
    <3>3. req'[fileUrl'[<<v, g>>]].window = req[fileUrl[<<v, g>>]].window
      BY <3>2, Zenon
    <3> QED
      BY <2>1, <2>2, <3>1, <3>2, <3>3, Zenon
  <2>4. CASE v = u
    <3>1. f \in CountedOn(v, d)' <=> d = day /\ d = req[q].window
      BY <1>3, <1>5, <2>2, <2>4
    <3>2. \A g : g \in SubmissionsOf(v)' <=> g \in SubmissionsOf(v) \/ g = f
      BY <1>3, <2>4
    <3> QED
      BY <2>1, <2>2, <2>3, <2>4, <3>1, <3>2, <1>5
  <2>5. CASE v # u
    BY <1>3, <2>1, <2>2, <2>3, <2>5
  <2> QED
    BY <2>4, <2>5
<1> QED
  BY <1>3, <1>6

LEMMA CommitLimits ==
  ASSUME IntakeTypeOK, ObjectInv, DailyLimit, TotalLimit, NEW q \in Requests, CommitRow(q)
  PROVE  DailyLimit' /\ TotalLimit'
<1>1. PICK u \in Users, f \in Files : u = req[q].user /\ RowOf(q) = <<u, f>>
  BY DEF IntakeTypeOK, Request, CommitRow, RowOf
<1>2. ~DailyLimitReached(u, req[q].window) /\ ~TotalLimitReached(u)
  BY <1>1 DEF CommitRow, TxOutcome
<1>3. Cardinality(CountedOn(u, req[q].window) \union {f}) <= MaxDailySubs
  <2>1. Cardinality(CountedOn(u, req[q].window)) < MaxDailySubs
    BY <1>2, SubmissionsFinite, IntakeAssumption DEF DailyLimitReached
  <2> QED
    BY <2>1, SubmissionsFinite, AddOne, IntakeAssumption
<1>4. MaxTotalSubs # 0 => Cardinality(SubmissionsOf(u) \union {f}) <= MaxTotalSubs
  <2>1. MaxTotalSubs # 0 => Cardinality(SubmissionsOf(u)) < MaxTotalSubs
    BY <1>2, SubmissionsFinite, IntakeAssumption DEF TotalLimitReached
  <2> QED
    BY <2>1, SubmissionsFinite, AddOne, IntakeAssumption
<1>5. /\ \A v \in Users : SubmissionsOf(v)' =
            IF v = u THEN SubmissionsOf(u) \union {f} ELSE SubmissionsOf(v)
      /\ \A v \in Users, d \in 1..MaxDay : CountedOn(v, d)' =
            IF v = u /\ d = day /\ d = req[q].window
            THEN CountedOn(u, d) \union {f} ELSE CountedOn(v, d)
  BY <1>1, CommitAdds
<1>6. DailyLimit'
  <2>1. ASSUME NEW v \in Users, NEW d \in 1..MaxDay
        PROVE  Cardinality(CountedOn(v, d)') <= MaxDailySubs
    BY <1>3, <1>5 DEF DailyLimit
  <2> QED
    BY <2>1 DEF DailyLimit
<1>7. TotalLimit'
  <2>1. ASSUME NEW v \in Users, MaxTotalSubs # 0
        PROVE  Cardinality(SubmissionsOf(v)') <= MaxTotalSubs
    BY <1>4, <1>5, <2>1 DEF TotalLimit
  <2> QED
    BY <2>1 DEF TotalLimit
<1> QED
  BY <1>6, <1>7

LEMMA IntakeNextLimits ==
  IntakeTypeOK /\ ObjectInv /\ DailyLimit /\ TotalLimit /\ [IntakeNext]_intakeVars
    => DailyLimit' /\ TotalLimit'
<1> SUFFICES ASSUME IntakeTypeOK, ObjectInv, DailyLimit, TotalLimit, [IntakeNext]_intakeVars
             PROVE  DailyLimit' /\ TotalLimit'
  OBVIOUS
<1>1. ASSUME NEW q \in Requests, CommitRow(q) PROVE DailyLimit' /\ TotalLimit'
  BY <1>1, CommitLimits
<1>2. ASSUME NEW rows \in SUBSET jobs, ScoringSide(rows) PROVE DailyLimit' /\ TotalLimit'
  <2>1. \A r \in Row : Exists(r)' <=> Exists(r)
    BY <1>2 DEF ScoringSide, ObjectInv, Exists
  <2> QED
    BY <1>2, <2>1, LimitsFrame DEF ScoringSide
<1>3. CASE UNCHANGED <<status, createdDay, fileUrl, req>>
  BY <1>3, LimitsFrame DEF Exists
<1>4. ASSUME NEW q \in Requests, Handler(q) \/ Crash(q), ~CommitRow(q)
      PROVE  DailyLimit' /\ TotalLimit'
  <2>1. MovesOnly(q)
    BY <1>4, HandlerMoves
  <2>2. \A r \in Row : Exists(r) => req'[fileUrl[r]].window = req[fileUrl[r]].window
    BY <2>1 DEF MovesOnly, ObjectInv, Left
  <2> QED
    BY <2>1, <2>2, LimitsFrame DEF MovesOnly, Exists
<1> QED
  BY <1>1, <1>2, <1>3, <1>4
  DEF IntakeNext, ApiNext, NextDay, CloseCompetition, ChangeEnrollment, intakeVars

\* No interleaving of uploads takes a user past the total limit, nor a day past
\* the daily one by uploads that counted that day.
THEOREM LimitsHold == IntakeSpec => []LimitsRespected
<1>1. IntakeInit => DailyLimit /\ TotalLimit
  <2> SUFFICES ASSUME IntakeInit PROVE DailyLimit /\ TotalLimit
    OBVIOUS
  <2>1. \A u \in Users : SubmissionsOf(u) = {}
    BY DEF IntakeInit, SubmissionsOf, Row
  <2>2. \A u \in Users : \A d \in 1..MaxDay : CountedOn(u, d) = {}
    BY <2>1 DEF SubmittedOn, CountedOn
  <2> QED
    BY <2>1, <2>2, FS_EmptySet, IntakeAssumption DEF DailyLimit, TotalLimit
<1>2. IntakeTypeOK /\ ObjectInv /\ DailyLimit /\ TotalLimit /\ [IntakeNext]_intakeVars
        => DailyLimit' /\ TotalLimit'
  BY IntakeNextLimits
<1> QED
  BY <1>1, <1>2, IntakeInvariants, PTL DEF IntakeSpec, LimitsRespected

-----------------------------------------------------------------------------
\* The pipeline.

Busy(w) == slot[w].pc # "idle"

\* Whose row is it: slots and jobs know only rows that were put on the queue, a
\* row the scoring side has touched was put there, and a job whose lock never
\* lapsed is worked on by the holder of its lock and nobody else.
QueueInv ==
  /\ \A w \in Slots : Busy(w) => slot[w].row \in jobs
  /\ \A r \in Row : status[r] \in {"SCORING", "SCORED", "FAILED"} => r \in jobs
  /\ \A w \in Slots : Busy(w) /\ job[slot[w].row].stalls = 0 =>
       job[slot[w].row].st = "active" /\ job[slot[w].row].owner = w

-----------------------------------------------------------------------------
\* The pipeline implements SubmissionIntake.

ScoringStep ==
  \/ \E w \in Slots, r \in Row : Take(w, r) \/ Process(w, r)
  \/ \E w \in Slots : CrashSlot(w)
  \/ \E r \in Row : LockLapses(r)
  \/ \E rows \in SUBSET Row : RecoverStuck(rows)

\* One row of the queue gets a new status: a step SubmissionIntake allows.
LEMMA SetStatusIsScoringSide ==
  ASSUME IntakeTypeOK, NEW r \in jobs, NEW s \in {"SCORING", "SCORED", "FAILED"},
         SetStatus(r, s)
  PROVE  ScoringSide({r})
<1> DEFINE new == [x \in {r} |-> s]
<1>1. new \in [{r} -> {"SCORING", "SCORED", "FAILED"}]
  OBVIOUS
<1>2. status' = [x \in Row |-> IF x \in {r} THEN new[x] ELSE status[x]]
  BY DEF SetStatus, IntakeTypeOK
<1> QED
  BY <1>1, <1>2 DEF SetStatus, RowsUnchanged, ScoringSide

LEMMA ProcessImplements ==
  ASSUME IntakeTypeOK, QueueInv, NEW w \in Slots, NEW r \in Row, Process(w, r)
  PROVE  [\E rows \in SUBSET jobs : ScoringSide(rows)]_intakeVars
<1>1. Busy(w) => r \in jobs
  BY DEF QueueInv, Process
<1>2. CASE UNCHANGED intakeVars
  BY <1>2
<1>3. ASSUME NEW s \in {"SCORING", "SCORED", "FAILED"}, SetStatus(r, s), Busy(w)
      PROVE  \E rows \in SUBSET jobs : ScoringSide(rows)
  <2>1. {r} \in SUBSET jobs /\ ScoringSide({r})
    BY <1>1, <1>3, SetStatusIsScoringSide
  <2> QED
    BY <2>1
<1>4. \/ UNCHANGED intakeVars
      \/ Busy(w) /\ (SetStatus(r, "SCORING") \/ SetStatus(r, "SCORED") \/ SetStatus(r, "FAILED"))
  BY DEF Process, Begin, Compute, Record, Rank, Announce, FailRow, FailNotify, Finish, Throw, Move, Busy
<1> QED
  BY <1>2, <1>3, <1>4

LEMMA StepImplements ==
  ASSUME IntakeTypeOK, QueueInv, [Next]_vars
  PROVE  [IntakeNext]_intakeVars
<1>1. CASE ApiStep
  BY <1>1 DEF ApiStep, IntakeNext
<1>2. ASSUME NEW w \in Slots, NEW r \in Row, Process(w, r) PROVE [IntakeNext]_intakeVars
  BY <1>2, ProcessImplements DEF IntakeNext
<1>3. ASSUME NEW rows \in SUBSET Row, RecoverStuck(rows) PROVE IntakeNext
  <2>1. rows \in SUBSET jobs
    BY <1>3 DEF RecoverStuck, QueueInv
  <2>2. ScoringSide(rows)
    <3> DEFINE new == [r \in rows |-> "FAILED"]
    <3>1. new \in [rows -> {"SCORING", "SCORED", "FAILED"}]
      OBVIOUS
    <3>2. status' = [r \in Row |-> IF r \in rows THEN new[r] ELSE status[r]]
      BY <1>3 DEF RecoverStuck
    <3> QED
      BY <1>3, <2>1, <3>1, <3>2 DEF RecoverStuck, RowsUnchanged, ScoringSide
  <2> QED
    BY <2>1, <2>2 DEF IntakeNext
<1>4. CASE UNCHANGED intakeVars
  BY <1>4
<1> QED
  BY <1>1, <1>2, <1>3, <1>4 DEF Next, Take, CrashSlot, LockLapses, vars

-----------------------------------------------------------------------------
\* Types.

\* Only rows of the queue have a job; it has an owner exactly while it is active,
\* and attempts left until it is over.
JobShape ==
  \A r \in Row :
    /\ job[r].st # "none" => r \in jobs
    /\ job[r].owner \in Slots <=> job[r].st = "active"
    /\ job[r].st \in {"none", "waiting", "active"} => job[r].tries < MaxAttempts

\* The types of the variables the scoring side adds.
WorkerTypeOK ==
  /\ JobShape
  /\ job \in [Row -> Job]
  /\ slot \in [Slots -> Slot]
  /\ \A w \in Slots : slot[w].pc # "idle" => slot[w].row \in Row
  /\ scored \in SUBSET Row
  /\ board \in [Users -> Entry]
  /\ inbox \in SUBSET (Row \X {"scored", "failed"})
  /\ dlq \in SUBSET Row
  /\ faults \in 0..MaxFaults

LEMMA UpsertType ==
  ASSUME NEW e \in Entry, NEW f \in Files
  PROVE  Upsert(e, f) \in Entry
BY PipelineAssumption DEF Upsert, Entry, Best

LEMMA ProcessType ==
  ASSUME WorkerTypeOK, NEW w \in Slots, NEW r \in Row, Process(w, r)
  PROVE  WorkerTypeOK'
<1> USE PipelineAssumption DEF WorkerTypeOK, JobShape, Slot, Move, Fault, Release, intakeVars, SetStatus, RowsUnchanged
<1>1. CASE Begin(w, r)
  BY <1>1 DEF Begin
<1>2. CASE Compute(w, r)
  BY <1>2 DEF Compute
<1>3. CASE Record(w, r)
  BY <1>3 DEF Record
<1>4. CASE Rank(w, r)
  <2>1. r[1] \in Users /\ r[2] \in Files
    BY DEF Row
  <2>2. [board EXCEPT ![r[1]] = Upsert(@, r[2])] \in [Users -> Entry]
    BY <2>1, UpsertType
  <2>3. board' \in [Users -> Entry]
    BY <1>4, <2>2 DEF Rank
  <2>4. slot' \in [Slots -> Slot] /\ \A x \in Slots : slot'[x].pc # "idle" => slot'[x].row \in Row
    BY <1>4 DEF Rank
  <2>5. faults' \in 0..MaxFaults /\ JobShape'
    BY <1>4 DEF Rank
  <2> QED
    BY <1>4, <2>3, <2>4, <2>5 DEF Rank
<1>5. CASE Announce(w, r)
  <2>1. inbox' \in SUBSET (Row \X {"scored", "failed"})
    BY <1>5 DEF Announce
  <2>2. slot' \in [Slots -> Slot] /\ \A x \in Slots : slot'[x].pc # "idle" => slot'[x].row \in Row
    BY <1>5 DEF Announce
  <2> QED
    BY <1>5, <2>1, <2>2 DEF Announce
<1>6. CASE FailRow(w, r)
  <2>1. slot' \in [Slots -> Slot] /\ \A x \in Slots : slot'[x].pc # "idle" => slot'[x].row \in Row
    BY <1>6 DEF FailRow
  <2>2. inbox' \in SUBSET (Row \X {"scored", "failed"}) /\ faults' \in 0..MaxFaults
    BY <1>6 DEF FailRow
  <2>3. JobShape'
    BY <1>6 DEF FailRow
  <2> QED
    BY <1>6, <2>1, <2>2, <2>3 DEF FailRow
<1>7. CASE FailNotify(w, r)
  <2>1. slot' \in [Slots -> Slot] /\ \A x \in Slots : slot'[x].pc # "idle" => slot'[x].row \in Row
    BY <1>7 DEF FailNotify
  <2>2. inbox' \in SUBSET (Row \X {"scored", "failed"}) /\ faults' \in 0..MaxFaults
    BY <1>7 DEF FailNotify
  <2>3. JobShape'
    BY <1>7 DEF FailNotify
  <2> QED
    BY <1>7, <2>1, <2>2, <2>3 DEF FailNotify
<1>8. CASE Finish(w, r)
  BY <1>8 DEF Finish, Job
<1>9. CASE Throw(w, r)
  <2>1. CASE job[r].owner = w
    <3>1. job[r].tries + 1 \in 0..MaxAttempts
      BY <2>1 DEF Job
    <3>2. job' \in [Row -> Job] /\ JobShape'
      BY <1>9, <2>1, <3>1 DEF Throw, Job
    <3>3. dlq' \in SUBSET Row /\ faults' \in 0..MaxFaults
      BY <1>9 DEF Throw
    <3> QED
      BY <1>9, <3>2, <3>3 DEF Throw
  <2>2. CASE job[r].owner # w
    BY <1>9, <2>2 DEF Throw
  <2> QED
    BY <2>1, <2>2
<1> QED
  BY <1>1, <1>2, <1>3, <1>4, <1>5, <1>6, <1>7, <1>8, <1>9 DEF Process

LEMMA ApiStepType == ASSUME WorkerTypeOK, ApiStep PROVE WorkerTypeOK'
<1> USE DEF WorkerTypeOK, JobShape
<1>1. jobs \subseteq jobs'
  BY DEF ApiStep, ApiNext, Handler, Crash, Open, CheckEnrollment, Upload, CommitRow, RejectRow,
         ReadClock, Enqueue, NextDay, CloseCompetition, ChangeEnrollment
<1>2. \A r \in Row : r \in jobs' \ jobs => job[r].st = "none"
  BY DEF JobShape
<1>3. job' \in [Row -> Job]
  <2>1. \A r \in Row : job[r] \in Job /\ [job[r] EXCEPT !.st = "waiting"] \in Job
    BY DEF Job
  <2> QED
    BY <2>1 DEF ApiStep
<1>4. JobShape'
  <2> TAKE r \in Row
  <2>1. CASE r \in jobs' \ jobs
    BY <1>2, <2>1, PipelineAssumption DEF ApiStep, JobShape, Job
  <2>2. CASE r \notin jobs' \ jobs
    BY <1>1, <2>2 DEF ApiStep, JobShape
  <2> QED
    BY <2>1, <2>2
<1> QED
  BY <1>3, <1>4 DEF ApiStep

LEMMA WorkerType == WorkerTypeOK /\ [Next]_vars => WorkerTypeOK'
<1> SUFFICES ASSUME WorkerTypeOK, [Next]_vars PROVE WorkerTypeOK'
  OBVIOUS
<1> USE PipelineAssumption DEF WorkerTypeOK, JobShape, intakeVars, RowsUnchanged
<1>1. CASE ApiStep
  BY <1>1, ApiStepType
<1>2. ASSUME NEW w \in Slots, NEW r \in Row, Take(w, r) PROVE WorkerTypeOK'
  <2>1. job' \in [Row -> Job] /\ JobShape'
    BY <1>2 DEF Take, Job
  <2>2. slot' \in [Slots -> Slot] /\ \A x \in Slots : slot'[x].pc # "idle" => slot'[x].row \in Row
    BY <1>2 DEF Take, Slot
  <2> QED
    BY <1>2, <2>1, <2>2 DEF Take
<1>3. ASSUME NEW w \in Slots, NEW r \in Row, Process(w, r) PROVE WorkerTypeOK'
  BY <1>3, ProcessType
<1>4. ASSUME NEW w \in Slots, CrashSlot(w) PROVE WorkerTypeOK'
  BY <1>4 DEF CrashSlot, Release, Slot, Fault
<1>5. ASSUME NEW r \in Row, LockLapses(r) PROVE WorkerTypeOK'
  BY <1>5 DEF LockLapses, Job, Fault
<1>6. ASSUME NEW rows \in SUBSET Row, RecoverStuck(rows) PROVE WorkerTypeOK'
  BY <1>6 DEF RecoverStuck, workerVars
<1>7. CASE UNCHANGED vars
  BY <1>7 DEF vars, workerVars
<1> QED
  BY <1>1, <1>2, <1>3, <1>4, <1>5, <1>6, <1>7 DEF Next

-----------------------------------------------------------------------------
\* Who works on which row.

\* What an API step does to the rows: it adds rows, and puts rows on the queue.
LEMMA ApiRows ==
  ASSUME IntakeTypeOK, ApiStep
  PROVE  /\ jobs \subseteq jobs'
         /\ \A r \in Row : status'[r] = status[r] \/ (status[r] = "NONE" /\ status'[r] = "QUEUED")
<1>1. ASSUME NEW q \in Requests, CommitRow(q)
      PROVE  \A r \in Row : status'[r] = status[r] \/ (status[r] = "NONE" /\ status'[r] = "QUEUED")
  <2>1. status[RowOf(q)] = "NONE"
    BY <1>1 DEF CommitRow, TxOutcome, Exists
  <2> QED
    BY <1>1, <2>1 DEF CommitRow, IntakeTypeOK
<1> QED
  BY <1>1 DEF ApiStep, ApiNext, Handler, Crash, Open, CheckEnrollment, Upload, CommitRow, RejectRow,
     ReadClock, Enqueue, NextDay, CloseCompetition, ChangeEnrollment

\* A slot that works on a job whose lock never lapsed is alone on it.
LEMMA SoleWorker ==
  ASSUME QueueInv, NEW w \in Slots, NEW v \in Slots, Busy(w), Busy(v),
         slot[v].row = slot[w].row, job[slot[w].row].stalls = 0
  PROVE  v = w
BY DEF QueueInv

LEMMA ProcessQueue ==
  ASSUME IntakeTypeOK, WorkerTypeOK, QueueInv, NEW w \in Slots, NEW r \in Row, Process(w, r)
  PROVE  QueueInv'
<1>1. slot[w].row = r /\ Busy(w) /\ r \in jobs
  BY DEF Process, Begin, Compute, Record, Rank, Announce, FailRow, FailNotify, Finish, Throw, Move,
         Busy, QueueInv
<1>2. jobs' = jobs /\ \A x \in Row : x # r => status'[x] = status[x]
  BY DEF Process, Begin, Compute, Record, Rank, Announce, FailRow, FailNotify, Finish, Throw,
         SetStatus, RowsUnchanged, intakeVars, IntakeTypeOK
<1>3. \A v \in Slots : v # w => slot'[v] = slot[v]
  BY DEF Process, Begin, Compute, Record, Rank, Announce, FailRow, FailNotify, Finish, Throw, Move,
         Release, WorkerTypeOK
<1>4. CASE Finish(w, r) \/ Throw(w, r)
  <2>1. slot'[w].pc = "idle"
    BY <1>4 DEF Finish, Throw, Release, WorkerTypeOK
  <2>2. \A x \in Row : job'[x].stalls = job[x].stalls
    <3>1. CASE Finish(w, r)
      BY <3>1 DEF Finish, WorkerTypeOK, Job
    <3>2. CASE Throw(w, r)
      BY <3>2 DEF Throw, WorkerTypeOK, Job
    <3> QED
      BY <1>4, <3>1, <3>2
  <2>3. \A x \in Row : job'[x] = job[x] \/ (x = r /\ job[r].owner = w)
    BY <1>4 DEF Finish, Throw, WorkerTypeOK
  <2>4. \A v \in Slots : Busy(v)' /\ job'[slot'[v].row].stalls = 0 =>
          job'[slot'[v].row].st = "active" /\ job'[slot'[v].row].owner = v
    BY <1>1, <1>3, <2>1, <2>2, <2>3 DEF Busy, QueueInv, WorkerTypeOK
  <2>5. status' = status
    BY <1>4 DEF Finish, Throw, intakeVars
  <2> QED
    BY <1>2, <1>3, <2>1, <2>4, <2>5 DEF QueueInv, Busy
<1>5. CASE ~(Finish(w, r) \/ Throw(w, r))
  <2>1. job' = job /\ slot'[w].row = r
    BY <1>1, <1>5 DEF Process, Begin, Compute, Record, Rank, Announce, FailRow, FailNotify, Move,
                      WorkerTypeOK, Slot
  <2> QED
    BY <1>1, <1>2, <1>3, <2>1 DEF QueueInv, Busy
<1> QED
  BY <1>4, <1>5

LEMMA QueueStep ==
  IntakeTypeOK /\ WorkerTypeOK /\ QueueInv /\ [Next]_vars => QueueInv'
<1> SUFFICES ASSUME IntakeTypeOK, WorkerTypeOK, QueueInv, [Next]_vars PROVE QueueInv'
  OBVIOUS
<1>1. CASE ApiStep
  <2>1. slot' = slot /\ \A x \in jobs : job'[x] = job[x]
    BY <1>1 DEF ApiStep, IntakeTypeOK
  <2> QED
    BY <1>1, <2>1, ApiRows DEF QueueInv, Busy
<1>2. ASSUME NEW w \in Slots, NEW r \in Row, Take(w, r) PROVE QueueInv'
  <2>1. /\ status' = status /\ jobs' = jobs /\ r \in jobs
        /\ slot'[w].row = r /\ \A v \in Slots : v # w => slot'[v] = slot[v]
        /\ job'[r].st = "active" /\ job'[r].owner = w /\ job'[r].stalls = job[r].stalls
        /\ \A x \in Row : x # r => job'[x] = job[x]
    BY <1>2 DEF Take, WorkerTypeOK, JobShape, Job, Slot, intakeVars
  <2>2. \A v \in Slots : Busy(v) /\ slot[v].row = r => job[r].stalls # 0
    BY <1>2 DEF QueueInv, Take
  <2>3. \A v \in Slots : Busy(v) => slot[v].row \in Row
    BY DEF Busy, WorkerTypeOK
  <2>4. \A v \in Slots : Busy(v)' /\ job'[slot'[v].row].stalls = 0 =>
          job'[slot'[v].row].st = "active" /\ job'[slot'[v].row].owner = v
    <3> TAKE v \in Slots
    <3>1. CASE v = w
      BY <2>1, <3>1
    <3>2. CASE v # w /\ slot[v].row = r
      BY <2>1, <2>2, <3>2 DEF Busy
    <3>3. CASE v # w /\ slot[v].row # r
      BY <2>1, <2>3, <3>3 DEF Busy, QueueInv
    <3> QED
      BY <3>1, <3>2, <3>3
  <2>5. \A v \in Slots : Busy(v)' => slot'[v].row \in jobs'
    BY <2>1 DEF Busy, QueueInv
  <2> QED
    BY <2>1, <2>4, <2>5 DEF QueueInv
<1>3. ASSUME NEW w \in Slots, NEW r \in Row, Process(w, r) PROVE QueueInv'
  BY <1>3, ProcessQueue
<1>4. ASSUME NEW w \in Slots, CrashSlot(w) PROVE QueueInv'
  BY <1>4 DEF CrashSlot, Release, QueueInv, Busy, WorkerTypeOK, intakeVars
<1>5. ASSUME NEW r \in Row, LockLapses(r) PROVE QueueInv'
  <2>1. /\ status' = status /\ jobs' = jobs /\ slot' = slot
        /\ job'[r].stalls # 0 /\ \A x \in Row : x # r => job'[x] = job[x]
    BY <1>5 DEF LockLapses, WorkerTypeOK, Job, intakeVars
  <2>2. \A v \in Slots : Busy(v) => slot[v].row \in Row
    BY DEF Busy, WorkerTypeOK
  <2> QED
    BY <2>1, <2>2 DEF QueueInv, Busy
<1>6. ASSUME NEW rows \in SUBSET Row, RecoverStuck(rows) PROVE QueueInv'
  BY <1>6 DEF RecoverStuck, RowsUnchanged, workerVars, QueueInv, Busy
<1>7. CASE UNCHANGED vars
  BY <1>7 DEF vars, workerVars, intakeVars, QueueInv, Busy
<1> QED
  BY <1>1, <1>2, <1>3, <1>4, <1>5, <1>6, <1>7 DEF Next

-----------------------------------------------------------------------------
\* How far each slot has got.

\* The writes a slot has behind it can be relied on: scores, then leaderboard,
\* then notification, each for good; its row is still SCORED only if nobody else
\* works on it, that is, if the lock of its job never lapsed.
ProgressInv ==
  /\ \A w \in Slots : slot[w].pc \in {"rank", "announce", "finish"} => slot[w].row \in scored
  /\ \A w \in Slots : slot[w].pc \in {"announce", "finish"} =>
       Covers(board[slot[w].row[1]], slot[w].row[2])
  /\ \A w \in Slots : slot[w].pc = "finish" => <<slot[w].row, "scored">> \in inbox

OwnRowScored ==
  \A w \in Slots : slot[w].pc \in {"rank", "announce", "finish"} /\ job[slot[w].row].stalls = 0 =>
    status[slot[w].row] = "SCORED"

\* The entry covers what was just upserted and what it covered before.
LEMMA UpsertCovers ==
  ASSUME NEW e \in Entry, NEW f \in Files, NEW g \in Files
  PROVE  /\ Covers(Upsert(e, f), f)
         /\ Covers(e, g) => Covers(Upsert(e, f), g)
<1>1. PublicScore[f] \in Int /\ PrivateScore[f] \in Int /\ PublicScore[g] \in Int /\ PrivateScore[g] \in Int
  BY PipelineAssumption
<1>2. e.pub \in Int /\ e.priv \in Int /\ e.count \in Nat
  BY DEF Entry
<1>3. CASE HigherIsBetter
  BY <1>1, <1>2, <1>3 DEF Covers, Upsert, Best
<1>4. CASE ~HigherIsBetter
  BY <1>1, <1>2, <1>4 DEF Covers, Upsert, Best
<1> QED
  BY <1>3, <1>4

\* Scores, notifications and leaderboard entries only grow.
LEMMA ProcessGrows ==
  ASSUME WorkerTypeOK, NEW w \in Slots, NEW r \in Row, Process(w, r)
  PROVE  /\ scored \subseteq scored' /\ inbox \subseteq inbox'
         /\ \A u \in Users, f \in Files : Covers(board[u], f) => Covers(board'[u], f)
<1>1. scored \subseteq scored' /\ inbox \subseteq inbox'
  BY DEF Process, Begin, Compute, Record, Rank, Announce, FailRow, FailNotify, Finish, Throw
<1>2. board' = board \/ board' = [board EXCEPT ![r[1]] = Upsert(@, r[2])]
  BY DEF Process, Begin, Compute, Record, Rank, Announce, FailRow, FailNotify, Finish, Throw
<1>3. ASSUME NEW u \in Users, NEW f \in Files, Covers(board[u], f) PROVE Covers(board'[u], f)
  <2>1. r[1] \in Users /\ r[2] \in Files /\ board[u] \in Entry
    BY DEF Row, WorkerTypeOK
  <2>2. board'[u] = board[u] \/ board'[u] = Upsert(board[u], r[2])
    BY <1>2, <2>1 DEF WorkerTypeOK
  <2> QED
    BY <1>3, <2>1, <2>2, UpsertCovers
<1> QED
  BY <1>1, <1>3

LEMMA ProcessProgress ==
  ASSUME WorkerTypeOK, ProgressInv, CompletedIsRanked,
         NEW w \in Slots, NEW r \in Row, Process(w, r)
  PROVE  ProgressInv' /\ CompletedIsRanked'
<1>1. r[1] \in Users /\ r[2] \in Files /\ slot[w].row = r /\ board[r[1]] \in Entry
  BY DEF Row, Process, WorkerTypeOK
<1>2. \A v \in Slots : v # w => slot'[v] = slot[v]
  BY DEF Process, Begin, Compute, Record, Rank, Announce, FailRow, FailNotify, Finish, Throw, Move,
         Release, WorkerTypeOK
<1>3. slot'[w].pc \in {"rank", "announce", "finish"} => slot'[w].row = r /\ r \in scored'
  BY <1>1 DEF Process, Begin, Compute, Record, Rank, Announce, FailRow, FailNotify, Finish, Throw,
              Move, Release, WorkerTypeOK, Slot, ProgressInv
<1>4. slot'[w].pc \in {"announce", "finish"} => Covers(board'[r[1]], r[2])
  <2>1. CASE Rank(w, r)
    BY <1>1, <2>1, UpsertCovers DEF Rank, Move, WorkerTypeOK, Slot
  <2>2. CASE ~Rank(w, r)
    BY <1>1, <2>2 DEF Process, Begin, Compute, Record, Announce, FailRow, FailNotify, Finish, Throw,
                      Move, Release, WorkerTypeOK, Slot, ProgressInv
  <2> QED
    BY <2>1, <2>2
<1>5. slot'[w].pc = "finish" => <<r, "scored">> \in inbox'
  BY <1>1 DEF Process, Begin, Compute, Record, Rank, Announce, FailRow, FailNotify, Finish, Throw,
              Move, Release, WorkerTypeOK, Slot
<1>6. ASSUME NEW v \in Slots, v # w, slot[v].pc # "idle"
      PROVE  slot[v].row \in Row /\ slot[v].row[1] \in Users /\ slot[v].row[2] \in Files
  BY <1>6 DEF WorkerTypeOK, Row
<1>7. ProgressInv'
  <2>1. ASSUME NEW v \in Slots, slot'[v].pc \in {"rank", "announce", "finish"}
        PROVE  slot'[v].row \in scored'
    BY <1>2, <1>3, <2>1, ProcessGrows DEF ProgressInv
  <2>2. ASSUME NEW v \in Slots, slot'[v].pc \in {"announce", "finish"}
        PROVE  Covers(board'[slot'[v].row[1]], slot'[v].row[2])
    <3>1. CASE v = w
      BY <1>3, <1>4, <2>2, <3>1
    <3>2. CASE v # w
      BY <1>2, <1>6, <2>2, <3>2, ProcessGrows DEF ProgressInv
    <3> QED
      BY <3>1, <3>2
  <2>3. ASSUME NEW v \in Slots, slot'[v].pc = "finish"
        PROVE  <<slot'[v].row, "scored">> \in inbox'
    BY <1>2, <1>3, <1>5, <2>3, ProcessGrows DEF ProgressInv
  <2> QED
    BY <2>1, <2>2, <2>3 DEF ProgressInv
<1>8. ASSUME NEW x \in Row, job'[x].st = "completed"
      PROVE  x \in scored' /\ Covers(board'[x[1]], x[2]) /\ <<x, "scored">> \in inbox'
  <2>1. job[x].st = "completed" \/ (x = r /\ slot[w].pc = "finish")
    <3>1. CASE Finish(w, r)
      BY <1>8, <3>1 DEF Finish, WorkerTypeOK
    <3>2. CASE Throw(w, r)
      BY <1>8, <3>2 DEF Throw, WorkerTypeOK, Job
    <3>3. CASE ~Finish(w, r) /\ ~Throw(w, r)
      BY <1>8, <3>3 DEF Process, Begin, Compute, Record, Rank, Announce, FailRow, FailNotify
    <3> QED
      BY <3>1, <3>2, <3>3
  <2>2. x \in scored /\ Covers(board[x[1]], x[2]) /\ <<x, "scored">> \in inbox
    BY <1>1, <2>1 DEF CompletedIsRanked, ProgressInv
  <2>3. x[1] \in Users /\ x[2] \in Files
    BY DEF Row
  <2> QED
    BY <2>2, <2>3, ProcessGrows
<1> QED
  BY <1>7, <1>8 DEF CompletedIsRanked

\* Everything but processScoring: slots move to idle or begin, no job completes,
\* and the scores, the leaderboard and the notifications stay as they are.
LEMMA OtherSteps ==
  ASSUME WorkerTypeOK,
         \/ ApiStep
         \/ \E w \in Slots, r \in Row : Take(w, r)
         \/ \E w \in Slots : CrashSlot(w)
         \/ \E r \in Row : LockLapses(r)
         \/ \E rows \in SUBSET Row : RecoverStuck(rows)
         \/ UNCHANGED vars
  PROVE  /\ scored' = scored /\ board' = board /\ inbox' = inbox
         /\ \A v \in Slots : slot'[v] = slot[v] \/ slot'[v].pc \in {"idle", "begin"}
         /\ \A x \in Row : job'[x].st = "completed" => job[x].st = "completed" /\ job'[x] = job[x]
         /\ \A x \in Row : job'[x].stalls = 0 => job[x].stalls = 0
<1> USE DEF WorkerTypeOK
<1>1. CASE ApiStep
  <2>1. \A x \in Row : job'[x] = job[x] \/ job'[x] = [job[x] EXCEPT !.st = "waiting"]
    BY <1>1 DEF ApiStep
  <2>2. \A x \in Row : job[x] \in Job
    OBVIOUS
  <2>3. \A x \in Row : job'[x].stalls = job[x].stalls
                       /\ (job'[x].st = "completed" => job'[x] = job[x])
    BY <2>1, <2>2 DEF Job
  <2> QED
    BY <1>1, <2>3 DEF ApiStep
<1>2. ASSUME NEW w \in Slots, NEW r \in Row, Take(w, r)
      PROVE  /\ \A v \in Slots : slot'[v] = slot[v] \/ slot'[v].pc \in {"idle", "begin"}
             /\ \A x \in Row : job'[x].st = "completed" => job[x].st = "completed" /\ job'[x] = job[x]
             /\ \A x \in Row : job'[x].stalls = job[x].stalls
  BY <1>2 DEF Take, Slot, Job
<1>3. ASSUME NEW r \in Row, LockLapses(r)
      PROVE  /\ \A x \in Row : job'[x].st = "completed" => job[x].st = "completed" /\ job'[x] = job[x]
             /\ \A x \in Row : job'[x].stalls = 0 => job[x].stalls = 0
  <2>1. /\ job'[r].stalls = job[r].stalls + 1 /\ job[r].stalls \in Nat
        /\ job'[r].st \in {"waiting", "failed"}
    BY <1>3 DEF LockLapses, Job
  <2>2. \A x \in Row : x # r => job'[x] = job[x]
    BY <1>3 DEF LockLapses
  <2> QED
    BY <2>1, <2>2
<1>4. ASSUME NEW w \in Slots, CrashSlot(w)
      PROVE  \A v \in Slots : slot'[v] = slot[v] \/ slot'[v].pc \in {"idle", "begin"}
  BY <1>4 DEF CrashSlot, Release
<1>5. CASE \E w \in Slots, r \in Row : Take(w, r)
  BY <1>2, <1>5 DEF Take
<1>6. CASE \E w \in Slots : CrashSlot(w)
  BY <1>4, <1>6 DEF CrashSlot
<1>7. CASE \E r \in Row : LockLapses(r)
  BY <1>3, <1>7 DEF LockLapses
<1>8. CASE (\E rows \in SUBSET Row : RecoverStuck(rows)) \/ UNCHANGED vars
  BY <1>8 DEF RecoverStuck, vars, workerVars
<1> QED
  BY <1>1, <1>5, <1>6, <1>7, <1>8

LEMMA ProgressStep ==
  WorkerTypeOK /\ ProgressInv /\ CompletedIsRanked /\ [Next]_vars
    => ProgressInv' /\ CompletedIsRanked'
<1> SUFFICES ASSUME WorkerTypeOK, ProgressInv, CompletedIsRanked, [Next]_vars
             PROVE  ProgressInv' /\ CompletedIsRanked'
  OBVIOUS
<1>1. ASSUME NEW w \in Slots, NEW r \in Row, Process(w, r)
      PROVE  ProgressInv' /\ CompletedIsRanked'
  BY <1>1, ProcessProgress
<1>2. ASSUME ~\E w \in Slots, r \in Row : Process(w, r)
      PROVE  ProgressInv' /\ CompletedIsRanked'
  <2>1. /\ scored' = scored /\ board' = board /\ inbox' = inbox
        /\ \A v \in Slots : slot'[v] = slot[v] \/ slot'[v].pc \in {"idle", "begin"}
        /\ \A x \in Row : job'[x].st = "completed" => job[x].st = "completed"
    BY <1>2, OtherSteps DEF Next
  <2>2. ProgressInv'
    BY <2>1 DEF ProgressInv
  <2>3. CompletedIsRanked'
    BY <2>1 DEF CompletedIsRanked
  <2> QED
    BY <2>2, <2>3
<1> QED
  BY <1>1, <1>2

-----------------------------------------------------------------------------
\* Rows that are SCORED for good, and where the leaderboard's scores come from.

\* A step of a slot that shares no row with a job whose lock never lapsed changes
\* neither that job nor its row.
LEMMA ProcessElsewhere ==
  ASSUME IntakeTypeOK, WorkerTypeOK, NEW w \in Slots, NEW r \in Row, Process(w, r),
         NEW x \in Row, x # r
  PROVE  status'[x] = status[x] /\ job'[x] = job[x]
<1>1. status'[x] = status[x]
  BY DEF Process, Begin, Compute, Record, Rank, Announce, FailRow, FailNotify, Finish, Throw,
         SetStatus, RowsUnchanged, intakeVars, IntakeTypeOK
<1>2. job'[x] = job[x]
  BY DEF Process, Begin, Compute, Record, Rank, Announce, FailRow, FailNotify, Finish, Throw,
         WorkerTypeOK
<1> QED
  BY <1>1, <1>2

LEMMA ProcessStays ==
  ASSUME IntakeTypeOK, WorkerTypeOK, QueueInv, OwnRowScored, CompletedStaysScored,
         NEW w \in Slots, NEW r \in Row, Process(w, r)
  PROVE  OwnRowScored' /\ CompletedStaysScored'
<1>1. slot[w].row = r /\ Busy(w)
  BY DEF Process, Begin, Compute, Record, Rank, Announce, FailRow, FailNotify, Finish, Throw, Move, Busy
<1>2. \A v \in Slots : v # w => slot'[v] = slot[v]
  BY DEF Process, Begin, Compute, Record, Rank, Announce, FailRow, FailNotify, Finish, Throw, Move,
         Release, WorkerTypeOK
<1>3. job'[r].stalls = job[r].stalls
  <2>1. CASE Finish(w, r)
    BY <2>1 DEF Finish, WorkerTypeOK, Job
  <2>2. CASE Throw(w, r)
    BY <2>2 DEF Throw, WorkerTypeOK, Job
  <2>3. CASE ~Finish(w, r) /\ ~Throw(w, r)
    BY <2>3 DEF Process, Begin, Compute, Record, Rank, Announce, FailRow, FailNotify
  <2> QED
    BY <2>1, <2>2, <2>3
<1>4. slot'[w].pc \in {"rank", "announce", "finish"} /\ job[r].stalls = 0 => status'[r] = "SCORED"
  BY <1>1 DEF Process, Begin, Compute, Record, Rank, Announce, FailRow, FailNotify, Finish, Throw,
              Move, Release, SetStatus, intakeVars, WorkerTypeOK, IntakeTypeOK, Slot, OwnRowScored
<1>5. job'[r].st = "completed" /\ job[r].stalls = 0 => status'[r] = "SCORED"
  <2>1. CASE Finish(w, r)
    BY <1>1, <2>1 DEF Finish, intakeVars, OwnRowScored
  <2>2. CASE ~Finish(w, r)
    <3>1. job[r].stalls = 0 => job[r].st = "active"
      BY <1>1 DEF QueueInv
    <3>2. CASE Throw(w, r)
      BY <3>1, <3>2 DEF Throw, WorkerTypeOK, Job
    <3>3. CASE ~Throw(w, r)
      BY <2>2, <3>1, <3>3 DEF Process, Begin, Compute, Record, Rank, Announce, FailRow, FailNotify
    <3> QED
      BY <3>2, <3>3
  <2> QED
    BY <2>1, <2>2
<1>6. OwnRowScored'
  <2>1. ASSUME NEW v \in Slots, slot'[v].pc \in {"rank", "announce", "finish"},
               job'[slot'[v].row].stalls = 0
        PROVE  status'[slot'[v].row] = "SCORED"
    <3>1. CASE v = w
      <4>1. slot'[w].row = r
        BY <1>1, <2>1, <3>1 DEF Process, Begin, Compute, Record, Rank, Announce, FailRow, FailNotify,
                                Finish, Throw, Move, Release, WorkerTypeOK, Slot
      <4> QED
        BY <1>3, <1>4, <2>1, <3>1, <4>1
    <3>2. CASE v # w
      <4>1. slot'[v] = slot[v] /\ Busy(v) /\ slot[v].row \in Row
        BY <1>2, <2>1, <3>2 DEF Busy, WorkerTypeOK
      <4>2. slot[v].row # r
        BY <1>1, <1>3, <2>1, <3>2, <4>1, SoleWorker
      <4> QED
        BY <2>1, <4>1, <4>2, ProcessElsewhere DEF OwnRowScored
    <3> QED
      BY <3>1, <3>2
  <2> QED
    BY <2>1 DEF OwnRowScored
<1>7. CompletedStaysScored'
  <2>1. ASSUME NEW x \in Row, job'[x].st = "completed", job'[x].stalls = 0
        PROVE  status'[x] = "SCORED"
    BY <1>3, <1>5, <2>1, ProcessElsewhere DEF CompletedStaysScored
  <2> QED
    BY <2>1 DEF CompletedStaysScored
<1> QED
  BY <1>6, <1>7

LEMMA StaysStep ==
  IntakeTypeOK /\ WorkerTypeOK /\ QueueInv /\ OwnRowScored /\ CompletedStaysScored /\ [Next]_vars
    => OwnRowScored' /\ CompletedStaysScored'
<1> SUFFICES ASSUME IntakeTypeOK, WorkerTypeOK, QueueInv, OwnRowScored, CompletedStaysScored,
                    [Next]_vars
             PROVE  OwnRowScored' /\ CompletedStaysScored'
  OBVIOUS
<1>1. ASSUME NEW w \in Slots, NEW r \in Row, Process(w, r)
      PROVE  OwnRowScored' /\ CompletedStaysScored'
  BY <1>1, ProcessStays
<1>2. ASSUME ~\E w \in Slots, r \in Row : Process(w, r)
      PROVE  OwnRowScored' /\ CompletedStaysScored'
  <2>1. /\ \A v \in Slots : slot'[v] = slot[v] \/ slot'[v].pc \in {"idle", "begin"}
        /\ \A x \in Row : job'[x].st = "completed" => job[x].st = "completed" /\ job'[x] = job[x]
        /\ \A x \in Row : job'[x].stalls = 0 => job[x].stalls = 0
    BY <1>2, OtherSteps DEF Next
  <2>2. \A x \in Row : status[x] = "SCORED" => status'[x] = "SCORED"
    <3>1. CASE ApiStep
      BY <3>1, ApiRows
    <3>2. CASE UNCHANGED status
      BY <3>2
    <3>3. CASE \E rows \in SUBSET Row : RecoverStuck(rows)
      BY <3>3 DEF RecoverStuck
    <3> QED
      BY <1>2, <3>1, <3>2, <3>3 DEF Next, Take, CrashSlot, LockLapses, vars, intakeVars
  <2>3. \A v \in Slots : slot[v].pc # "idle" => slot[v].row \in Row
    BY DEF WorkerTypeOK
  <2>4. OwnRowScored'
    BY <2>1, <2>2, <2>3 DEF OwnRowScored
  <2>5. CompletedStaysScored'
    BY <2>1, <2>2 DEF CompletedStaysScored
  <2> QED
    BY <2>4, <2>5
<1> QED
  BY <1>1, <1>2

LEMMA UpsertSound ==
  ASSUME NEW e \in Entry, NEW f \in Files
  PROVE  /\ Upsert(e, f).pub = PublicScore[f] \/ (e.count > 0 /\ Upsert(e, f).pub = e.pub)
         /\ Upsert(e, f).priv = PrivateScore[f] \/ (e.count > 0 /\ Upsert(e, f).priv = e.priv)
BY DEF Upsert, Best, Entry

LEMMA BoardStep ==
  WorkerTypeOK /\ ProgressInv /\ BoardSound /\ [Next]_vars => BoardSound'
<1> SUFFICES ASSUME WorkerTypeOK, ProgressInv, BoardSound, [Next]_vars PROVE BoardSound'
  OBVIOUS
<1>1. ASSUME scored \subseteq scored', board' = board PROVE BoardSound'
  BY <1>1 DEF BoardSound
<1>2. ASSUME NEW w \in Slots, NEW r \in Row, Rank(w, r), slot[w].row = r PROVE BoardSound'
  <2>1. r \in scored /\ scored' = scored /\ r[1] \in Users /\ r[2] \in Files /\ r = <<r[1], r[2]>>
    BY <1>2 DEF Rank, Move, ProgressInv, Row
  <2>2. CASE board' = board
    BY <1>1, <2>1, <2>2
  <2>3. CASE board' = [board EXCEPT ![r[1]] = Upsert(@, r[2])]
    <3>1. ASSUME NEW u \in Users, board'[u].count > 0
          PROVE  /\ \E f \in Files : <<u, f>> \in scored /\ board'[u].pub = PublicScore[f]
                 /\ \E f \in Files : <<u, f>> \in scored /\ board'[u].priv = PrivateScore[f]
      <4>1. CASE u # r[1]
        BY <2>3, <3>1, <4>1 DEF BoardSound, WorkerTypeOK
      <4>2. CASE u = r[1]
        <5>1. board[u] \in Entry /\ board'[u] = Upsert(board[u], r[2])
          BY <2>1, <2>3, <4>2 DEF WorkerTypeOK
        <5>2. <<u, r[2]>> \in scored
          BY <2>1, <4>2
        <5>3. \E f \in Files : <<u, f>> \in scored /\ board'[u].pub = PublicScore[f]
          BY <2>1, <5>1, <5>2, UpsertSound DEF BoardSound
        <5>4. \E f \in Files : <<u, f>> \in scored /\ board'[u].priv = PrivateScore[f]
          BY <2>1, <5>1, <5>2, UpsertSound DEF BoardSound
        <5> QED
          BY <5>3, <5>4
      <4> QED
        BY <4>1, <4>2
    <3> QED
      BY <2>1, <3>1 DEF BoardSound
  <2> QED
    BY <1>2, <2>2, <2>3 DEF Rank
<1>3. ASSUME NEW w \in Slots, NEW r \in Row, Process(w, r) PROVE BoardSound'
  <2>1. CASE Rank(w, r)
    BY <1>2, <1>3, <2>1 DEF Process
  <2>2. CASE ~Rank(w, r)
    <3>1. scored \subseteq scored' /\ board' = board
      BY <1>3, <2>2 DEF Process, Begin, Compute, Record, Announce, FailRow, FailNotify, Finish, Throw
    <3> QED
      BY <1>1, <3>1
  <2> QED
    BY <2>1, <2>2
<1>4. ASSUME ~\E w \in Slots, r \in Row : Process(w, r) PROVE BoardSound'
  BY <1>1, <1>4, OtherSteps DEF Next
<1> QED
  BY <1>3, <1>4

-----------------------------------------------------------------------------
\* The inductive invariant and the theorems.

PipelineInv ==
  /\ IntakeTypeOK
  /\ WorkerTypeOK
  /\ QueueInv
  /\ ProgressInv /\ CompletedIsRanked
  /\ OwnRowScored /\ CompletedStaysScored
  /\ BoardSound

LEMMA PipelineInit == Init => PipelineInv
<1> SUFFICES ASSUME Init PROVE PipelineInv
  OBVIOUS
<1>1. IntakeTypeOK
  BY IntakeInitType DEF Init
<1>2. WorkerTypeOK
  BY PipelineAssumption DEF Init, WorkerTypeOK, JobShape, Job, Slot, Entry
<1>3. QueueInv /\ ProgressInv /\ OwnRowScored
  BY DEF Init, IntakeInit, QueueInv, Busy, ProgressInv, OwnRowScored
<1>4. CompletedIsRanked /\ CompletedStaysScored /\ BoardSound
  BY DEF Init, CompletedIsRanked, CompletedStaysScored, BoardSound
<1> QED
  BY <1>1, <1>2, <1>3, <1>4 DEF PipelineInv

LEMMA PipelineNext == PipelineInv /\ [Next]_vars => PipelineInv'
<1> SUFFICES ASSUME PipelineInv, [Next]_vars PROVE PipelineInv'
  OBVIOUS
<1> USE DEF PipelineInv
<1>1. IntakeTypeOK'
  BY StepImplements, IntakeNextType
<1>2. WorkerTypeOK'
  BY WorkerType
<1>3. QueueInv'
  BY QueueStep
<1>4. ProgressInv' /\ CompletedIsRanked'
  BY ProgressStep
<1>5. OwnRowScored' /\ CompletedStaysScored'
  BY StaysStep
<1>6. BoardSound'
  BY BoardStep
<1> QED
  BY <1>1, <1>2, <1>3, <1>4, <1>5, <1>6

LEMMA PipelineInvariant == Spec => []PipelineInv
BY PipelineInit, PipelineNext, PTL DEF Spec

\* The type invariant of the whole pipeline.
THEOREM PipelineTypeCorrect == Spec => []TypeOK
<1>1. PipelineInv => TypeOK
  BY DEF PipelineInv, WorkerTypeOK, TypeOK
<1> QED
  BY <1>1, PipelineInvariant, PTL

\* The queue, the workers and the recovery job do to the rows only what
\* SubmissionIntake assumes of the scoring side, so what is proved of it holds of
\* the composition.
THEOREM PipelineImplementsIntake == Spec => IntakeSpec
<1>1. Init => IntakeInit
  BY DEF Init
<1>2. PipelineInv /\ [Next]_vars => [IntakeNext]_intakeVars
  BY StepImplements DEF PipelineInv
<1> QED
  BY <1>1, <1>2, PipelineInvariant, PTL DEF Spec, IntakeSpec

\* The limits hold and no row loses its object in the composition.
THEOREM PipelineKeepsLimits == Spec => [](LimitsRespected /\ RowHasItsObject)
BY PipelineImplementsIntake, LimitsHold, RowsKeepTheirObjects, PTL

\* However many attempts, crashes, double runs and recoveries there were, a job
\* that completed left its row with scores, on the leaderboard and announced.
THEOREM CompletedJobsAreRanked == Spec => []CompletedIsRanked
<1>1. PipelineInv => CompletedIsRanked
  BY DEF PipelineInv
<1> QED
  BY <1>1, PipelineInvariant, PTL

\* Where the lock never lapsed, SCORED is final: the recovery job cannot fail it.
THEOREM CompletedRowsStayScored == Spec => []CompletedStaysScored
<1>1. PipelineInv => CompletedStaysScored
  BY DEF PipelineInv
<1> QED
  BY <1>1, PipelineInvariant, PTL

\* The leaderboard holds only scores of scored submissions of that user.
THEOREM LeaderboardIsSound == Spec => []BoardSound
<1>1. PipelineInv => BoardSound
  BY DEF PipelineInv
<1> QED
  BY <1>1, PipelineInvariant, PTL
=============================================================================
