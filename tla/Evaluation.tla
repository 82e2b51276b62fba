------------------------------ MODULE Evaluation ------------------------------
(***************************************************************************)
(* How a submission file becomes a public and a private score.  The        *)
(* computation exists twice: the scoring container streams the file        *)
(* through single-pass scorers (src/worker), the API process reads it      *)
(* whole and calls batch scorers when WORKER_INLINE is set                 *)
(* (src/backend/src/worker).  Nothing observes a computation half-way, so  *)
(* both are operators: from a competition and a file to two scores, or to  *)
(* Rejected when the code throws.                                          *)
(*                                                                         *)
(* A cell is a number, or NaN when parseFloat does not give a finite one.  *)
(* Quotients are whole numbers of 1/Scale, Scale being a multiple of the   *)
(* denominators of the instance.  RMSE is compared by its square, and a    *)
(* row's log loss is counted in units of -ln(epsilon) (a prediction is     *)
(* clipped to [epsilon, 1 - epsilon], and labels are whole).               *)
(***************************************************************************)
EXTENDS Integers, Sequences, FiniteSets, FiniteSetsExt, SequencesExt

CONSTANTS
  NaN,           \* a cell that is not a finite number
  Rejected,      \* the outcome of a file the code throws on
  Scale,         \* scores are whole numbers of 1/Scale
  Float32Limit,  \* least whole number whose successor is no float (2^24)
  MaxCsvRows,    \* MAX_CSV_ROWS
  SplitNum, SplitDen  \* Competition.pubPrivSplit

Metrics == {"ACCURACY", "RMSE", "F1_SCORE", "AUC_ROC", "LOG_LOSS", "CUSTOM"}
LowerIsBetter == {"RMSE", "LOG_LOSS"}

Quotient(a, b) == (a * Scale) \div b
Sum(values) == FoldLeft(LAMBDA acc, v : acc + v, 0, values)

\* The classes of a Set filled from a sequence, in insertion order.
Insert(classes, cls) == IF Contains(classes, cls) THEN classes ELSE Append(classes, cls)

-----------------------------------------------------------------------------
\* Batch scorers: fed is the sequence of [actual, predicted] of a partition.

accuracy(fed) ==
  Quotient(Cardinality({i \in DOMAIN fed : fed[i].actual = fed[i].predicted}), Len(fed))

SquaredErrors(fed) ==
  [i \in DOMAIN fed |-> (fed[i].actual - fed[i].predicted) * (fed[i].actual - fed[i].predicted)]
rmse(fed) == Quotient(Sum(SquaredErrors(fed)), Len(fed))

Nats(p) == IF p >= 1 THEN 0 ELSE 1
RowLoss(r) == r.actual * Nats(r.predicted) + (1 - r.actual) * (1 - Nats(r.predicted))
Losses(fed) == [i \in DOMAIN fed |-> RowLoss(fed[i])]
logLoss(fed) == Quotient(Sum(Losses(fed)), Len(fed))

\* 2PR/(P+R) is 2tp/(2tp+fp+fn), and 0 when nothing is found.
FromConfusion(tp, fp, fn) == IF tp = 0 THEN 0 ELSE Quotient(2 * tp, 2 * tp + fp + fn)

binaryF1(fed, cls) ==
  LET found == {i \in DOMAIN fed : fed[i].predicted = cls}
      real == {i \in DOMAIN fed : fed[i].actual = cls}
  IN  FromConfusion(Cardinality(found \intersect real), Cardinality(found \ real),
                    Cardinality(real \ found))

\* Two classes: the F1 of the second one met; otherwise the macro average.
\* f1s are those of the classes, in the order they were met.
f1Of(f1s) == IF Len(f1s) = 2 THEN f1s[2] ELSE Sum(f1s) \div Len(f1s)

f1Score(fed) ==
  LET cells == [i \in DOMAIN fed |-> fed[i].actual] \o [i \in DOMAIN fed |-> fed[i].predicted]
      classes == FoldLeft(Insert, <<>>, cells)
  IN  f1Of([k \in DOMAIN classes |-> binaryF1(fed, classes[k])])

\* Walking the rows by falling prediction, a positive raises the curve and a
\* negative adds the trapezoid under it: the positives already passed.
\* before: the pairs of rows of which the first is met first.
Area(fed, before) ==
  LET pos == {i \in DOMAIN fed : fed[i].actual = 1}
      neg == DOMAIN fed \ pos
  IN  IF pos = {} \/ neg = {} THEN Quotient(1, 2)
      ELSE Quotient(Cardinality((pos \X neg) \intersect before),
                    Cardinality(pos) * Cardinality(neg))

\* The sort is stable: equal predictions keep the order of the file.
aucRoc(fed) ==
  Area(fed, {p \in (DOMAIN fed) \X (DOMAIN fed) :
              \/ fed[p[1]].predicted > fed[p[2]].predicted
              \/ fed[p[1]].predicted = fed[p[2]].predicted /\ p[1] < p[2]})

SCORERS(metric, fed) ==
  CASE metric = "ACCURACY" -> accuracy(fed)
    [] metric = "RMSE"     -> rmse(fed)
    [] metric = "F1_SCORE" -> f1Score(fed)
    [] metric = "AUC_ROC"  -> aucRoc(fed)
    [] metric = "LOG_LOSS" -> logLoss(fed)

-----------------------------------------------------------------------------
\* Streaming scorers: a state, update per row, finalize.

AccuracyScorer(fed) ==
  LET update(s, r) == [count |-> s.count + 1,
                       correct |-> IF r.actual = r.predicted THEN s.correct + 1 ELSE s.correct]
      s == FoldLeft(update, [count |-> 0, correct |-> 0], fed)
  IN  Quotient(s.correct, s.count)

MeanScorer(terms) ==
  LET update(s, term) == [count |-> s.count + 1, sum |-> s.sum + term]
      s == FoldLeft(update, [count |-> 0, sum |-> 0], terms)
  IN  Quotient(s.sum, s.count)

\* Faulty variant: a row whose prediction is 0 is taken for a missing one.
RmseOfNonZero(fed) ==
  LET kept == SelectSeq(fed, LAMBDA r : r.predicted # 0)
  IN  IF kept = <<>> THEN 0 ELSE MeanScorer(SquaredErrors(kept))

RmseScorer(fed) == MeanScorer(SquaredErrors(fed))
LogLossScorer(fed) == MeanScorer(Losses(fed))

\* confusion, as sequences aligned with the classes met so far.
Bump(s, field, cls) ==
  [s EXCEPT ![field] = [i \in DOMAIN s.classes |->
      (IF i \in DOMAIN @ THEN @[i] ELSE 0) + (IF s.classes[i] = cls THEN 1 ELSE 0)]]

F1ScoreScorer(fed) ==
  LET ensure(s, r) == [s EXCEPT !.classes = Insert(Insert(@, r.actual), r.predicted)]
      update(s, r) ==
        LET e == ensure(s, r)
        IN  IF r.actual = r.predicted THEN Bump(e, "tp", r.actual)
            ELSE Bump(Bump(e, "fp", r.predicted), "fn", r.actual)
      s == FoldLeft(update, [classes |-> <<>>, tp |-> <<>>, fp |-> <<>>, fn |-> <<>>], fed)
      at(counts, cls) == LET i == CHOOSE k \in DOMAIN s.classes : s.classes[k] = cls
                         IN  IF i \in DOMAIN counts THEN counts[i] ELSE 0
  IN  f1Of([k \in DOMAIN s.classes |-> LET cls == s.classes[k] IN
              FromConfusion(at(s.tp, cls), at(s.fp, cls), at(s.fn, cls))])

\* finalize pushes the positives before the negatives and sorts: at equal
\* predictions every positive comes first.
AucRocScorer(fed) ==
  Area(fed, {p \in (DOMAIN fed) \X (DOMAIN fed) : fed[p[1]].predicted >= fed[p[2]].predicted})

createStreamingScorer(metric, fed) ==
  CASE metric = "ACCURACY" -> AccuracyScorer(fed)
    [] metric = "RMSE"     -> RmseScorer(fed)
    [] metric = "F1_SCORE" -> F1ScoreScorer(fed)
    [] metric = "AUC_ROC"  -> AucRocScorer(fed)
    [] metric = "LOG_LOSS" -> LogLossScorer(fed)

-----------------------------------------------------------------------------
\* A competition c: [metric, hasId, others, truth, public]; truth is a sequence
\* of [id, value], others the headers of the truth besides the id and the target
\* (its first column that is no id), public the row numbers the seeded shuffle
\* puts first.  A file s: [hasId, hasTarget, others, rows], rows a sequence of
\* [id, value].

Values(rows) == {rows[i].value : i \in DOMAIN rows}
Distinct(rows) == \A i, j \in DOMAIN rows : rows[i].id = rows[j].id => i = j
Readable(rows) == Len(rows) \in 1..MaxCsvRows

\* Float32Array.from: a label between two floats goes to the even one.
Float32(v) == IF v = Float32Limit + 1 THEN Float32Limit ELSE v

\* The first publicCount positions of the shuffle, any set of that size: the
\* shuffle is fixed by the competition id and known to no participant.
SplitMasks(n) == {S \in SUBSET (1..n) : Cardinality(S) = (n * SplitNum) \div SplitDen}

\* truthIdx: by id, or by position in a file without ids.
TruthIndex(c, s, i) ==
  IF c.hasId THEN CHOOSE k \in DOMAIN c.truth : c.truth[k].id = s.rows[i].id ELSE i

\* The rows the loop keeps, in the order it meets them.
InFileOrder(kept) ==
  [n \in 1..Cardinality(kept) |-> CHOOSE i \in kept : Cardinality({j \in kept : j <= i}) = n]

\* Faulty variant: the mask is looked up by the row of the submission.
FedByRow(c, s, part) ==
  LET kept == InFileOrder({i \in DOMAIN s.rows : i \in part})
  IN  [n \in DOMAIN kept |->
         [actual |-> Float32(c.truth[TruthIndex(c, s, kept[n])].value),
          predicted |-> s.rows[kept[n]].value]]

\* The rows of s fed to the scorer of the part of the truth rows in part.
Fed(c, s, part) ==
  LET kept == InFileOrder({i \in DOMAIN s.rows : TruthIndex(c, s, i) \in part})
  IN  [n \in DOMAIN kept |->
         [actual |-> Float32(c.truth[TruthIndex(c, s, kept[n])].value),
          predicted |-> s.rows[kept[n]].value]]

\* buildTruthIndex: the truth is refused on a repeated id.
TruthIndexed(c) ==
  /\ Readable(c.truth) /\ NaN \notin Values(c.truth)
  /\ c.hasId => Distinct(c.truth)

\* The row loop, after a look for the columns it reads; ids that repeat in the
\* file are not looked for.
RowsAccepted(c, s) ==
  /\ Readable(s.rows) /\ s.hasTarget /\ (c.hasId => s.hasId)
  /\ c.hasId => {s.rows[i].id : i \in DOMAIN s.rows} \subseteq
                {c.truth[i].id : i \in DOMAIN c.truth}
  /\ NaN \notin Values(s.rows)
  /\ Len(s.rows) = Len(c.truth)

\* processScoring of the container, between its reads and its writes.
Standalone(c, s) ==
  IF ~(c.metric # "CUSTOM" /\ TruthIndexed(c) /\ RowsAccepted(c, s)) THEN Rejected
  ELSE LET pub == Fed(c, s, c.public)
           priv == Fed(c, s, DOMAIN c.truth \ c.public)
       IN  IF pub = <<>> \/ priv = <<>> THEN Rejected
           ELSE [pub |-> createStreamingScorer(c.metric, pub),
                 priv |-> createStreamingScorer(c.metric, priv)]

-----------------------------------------------------------------------------
\* The copy of the API process: rows are paired by id through a Map, in which
\* the last truth row of an id wins, and split by their place in the file.

Paired(c, s, i) ==
  LET k == IF c.hasId
           THEN CHOOSE k \in DOMAIN c.truth : /\ c.truth[k].id = s.rows[i].id
                                              /\ \A j \in DOMAIN c.truth :
                                                   c.truth[j].id = s.rows[i].id => j <= k
           ELSE i
  IN  [actual |-> c.truth[k].value, predicted |-> s.rows[i].value]

Partition(c, s, part) ==
  LET kept == InFileOrder({i \in DOMAIN s.rows : i \in part})
  IN  [n \in DOMAIN kept |-> Paired(c, s, kept[n])]

\* The reader of the API process stops at the row after MAX_CSV_ROWS.
parseCsvStream(rows) == Len(rows) <= MaxCsvRows

\* missingColumns is empty: this copy asks for every column of the truth, and
\* not only for those it reads.
ColumnsComplete(c, s) == (c.hasId => s.hasId) /\ s.hasTarget /\ c.others \subseteq s.others

\* What this copy asks of the rows, all read before the first is looked at.
InlineRowsAccepted(c, s) ==
  /\ parseCsvStream(s.rows) /\ s.rows # <<>>
  /\ Len(s.rows) = Len(c.truth)
  /\ c.hasId => \A i \in DOMAIN s.rows : \E k \in DOMAIN c.truth : c.truth[k].id = s.rows[i].id
  /\ NaN \notin Values(s.rows)

Inline(c, s) ==
  IF ~(/\ parseCsvStream(c.truth) /\ c.truth # <<>>
       /\ ColumnsComplete(c, s) /\ InlineRowsAccepted(c, s)
       /\ NaN \notin {Paired(c, s, i).actual : i \in DOMAIN s.rows}
       /\ c.metric # "CUSTOM")
  THEN Rejected
  ELSE LET pub == Partition(c, s, c.public)
           priv == Partition(c, s, DOMAIN c.truth \ c.public)
       IN  IF pub = <<>> \/ priv = <<>> THEN Rejected
           ELSE [pub |-> SCORERS(c.metric, pub), priv |-> SCORERS(c.metric, priv)]
=============================================================================
