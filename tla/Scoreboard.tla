------------------------------ MODULE Scoreboard ------------------------------
(***************************************************************************)
(* The leaderboard fed by the evaluation: what a participant's file makes  *)
(* of the scores that are ranked.                                          *)
(***************************************************************************)
EXTENDS Evaluation, Leaderboard

CONSTANTS
  Submissions  \* every file the algorithms are compared on

\* A table read from a CSV file; nothing is asked of its ids but equality.
IsTable(rows) ==
  rows \in Seq([id : {rows[i].id : i \in DOMAIN rows}, value : Int \union {NaN}])

IsCompetition(c) ==
  /\ c.metric \in Metrics /\ c.hasId \in BOOLEAN
  /\ IsTable(c.truth) /\ c.public \in SplitMasks(Len(c.truth))

IsFile(s) ==
  /\ s \in [hasId : BOOLEAN, hasTarget : BOOLEAN, others : {s.others}, rows : {s.rows}]
  /\ IsTable(s.rows)

ASSUME ScoreboardAssumption ==
  /\ NaN \notin Int /\ Scale \in Nat \ {0} /\ Float32Limit \in Int
  /\ Rejected \notin Score
  /\ \A c \in Competitions : IsCompetition(c)
  /\ \A s \in Submissions : IsFile(s)

\* The outcome of a file for the leaderboard.
StandaloneOutcome == [p \in {q : q \in Competitions \X Files} |-> Standalone(p[1], p[2])]

\* The file with its rows in the order of the truth, when it has them all once.
CoversTruth(c, s) ==
  /\ c.hasId /\ Len(s.rows) = Len(c.truth)
  /\ {s.rows[i].id : i \in DOMAIN s.rows} = {c.truth[i].id : i \in DOMAIN c.truth}

InTruthOrder(c, s) ==
  [s EXCEPT !.rows = [k \in DOMAIN c.truth |->
     CHOOSE row \in ToSet(s.rows) : row.id = c.truth[k].id]]

\* The file with the same value in every private row.
Hidden(c, s) ==
  [s EXCEPT !.rows = [i \in DOMAIN s.rows |->
     IF TruthIndex(c, s, i) \in c.public THEN s.rows[i] ELSE [s.rows[i] EXCEPT !.value = 0]]]

\* A positive and a negative of equal prediction in the same part.
Tied(c, s) ==
  \E part \in {c.public, DOMAIN c.truth \ c.public} :
    LET fed == Fed(c, s, part)
    IN  \E i, j \in DOMAIN fed : /\ fed[i].actual = 1 /\ fed[j].actual # 1
                                 /\ fed[i].predicted = fed[j].predicted

ExactLabels(c) == \A v \in Values(c.truth) : v # NaN => Float32(v) = v

\* The competitions in which some file sets the two copies apart, changes its
\* score with its rows' order, or shows private rows in its public score.
DisagreeIn ==
  {p[1] : p \in {p \in Competitions \X Submissions : LET c == p[1] s == p[2] IN
     /\ ExactLabels(c) /\ TruthIndexed(c)
     /\ c.others \subseteq s.others
     /\ c.hasId => CoversTruth(c, s) /\ InTruthOrder(c, s) = s
     /\ c.metric = "AUC_ROC" => Standalone(c, s) = Rejected \/ ~Tied(c, s)
     /\ Standalone(c, s) # Inline(c, s)}}

OrderMattersIn ==
  {p[1] : p \in {p \in Competitions \X Submissions : LET c == p[1] s == p[2] IN
     /\ c.metric # "F1_SCORE" /\ CoversTruth(c, s)
     /\ Standalone(c, s) # Standalone(c, InTruthOrder(c, s))}}

PrivateShowsIn ==
  {p[1] : p \in {p \in Competitions \X Submissions : LET c == p[1] s == p[2] IN
     /\ Standalone(c, s) # Rejected
     /\ Standalone(c, s).pub # Standalone(c, Hidden(c, s)).pub}}

\* With the truth's ids in the truth's order, every column of the truth besides
\* the id and the target, labels a 32-bit float holds and no tie under AUC, both
\* copies of processScoring give the file the same two scores, or both refuse
\* it: the single-pass scorers compute what the batch ones define, the two ways
\* to split coincide, and so do the two ways to look for the id and the target
\* (worker/src/processor.ts, backend/src/worker/processor.ts).
WorkersAgree == comp \notin DisagreeIn

\* Which rows are private follows the truth and not the file: the order in
\* which a participant writes the rows does not change the scores of the
\* scoring container, except under F1, whose positive class is the second
\* class met, and the public score is that of any file that differs in private
\* rows only (buildSplitMask by truth index, the row loop of processScoring).
SplitFollowsTruth == comp \notin OrderMattersIn \union PrivateShowsIn

\* "AUC_ROC matches batch exactly" (streaming.test.ts): on every file.
AucParity ==
  \A s \in Submissions : comp.metric = "AUC_ROC" /\ Standalone(comp, s) # Rejected =>
    LET fed == Fed(comp, s, comp.public) IN AucRocScorer(fed) = aucRoc(fed)
=============================================================================
