----------------------------- MODULE MCScoreboard -----------------------------
(* Instances of Scoreboard: four truth rows, two of them public. *)
EXTENDS Scoreboard, TLC

Rows(ids, values) == [i \in DOMAIN ids |-> [id |-> ids[i], value |-> values[i]]]
Ids == <<1, 2, 3, 4>>

Competition(metrics, hasId, values, masks) ==
  [metric : metrics, hasId : {hasId}, others : {{}}, truth : {Rows(Ids, values)}, public : masks]

\* Two classes, three classes, a label no float holds, a repeated id, and a
\* truth with a third column.
MCCompetitions ==
  Competition(Metrics, TRUE, <<1, 0, 0, 1>>, {{1, 2}})
  \union Competition({"AUC_ROC"}, TRUE, <<1, 0, 0, 1>>, {{2, 4}})
  \union Competition({"F1_SCORE", "RMSE"}, TRUE, <<0, 1, 2, 1>>, {{1, 3}})
  \union Competition({"F1_SCORE"}, FALSE, <<0, 1, 2, 1>>, {{1, 3}})
  \union Competition({"ACCURACY"}, TRUE, <<1, 3, 0, 1>>, {{3, 4}})
  \union {[metric |-> "ACCURACY", hasId |-> TRUE, others |-> {}, public |-> {1, 2},
           truth |-> Rows(<<1, 2, 2, 4>>, <<1, 0, 0, 1>>)],
          [metric |-> "RMSE", hasId |-> TRUE, others |-> {"usage"}, public |-> {1, 4},
           truth |-> Rows(Ids, <<2, 0, 1, 1>>)]}

File(ids, values) ==
  [hasId |-> TRUE, hasTarget |-> TRUE, others |-> {}, rows |-> Rows(ids, values)]

Permuted == {p \in [1..4 -> 1..4] : \A i, j \in 1..4 : p[i] = p[j] => i = j}

MCSubmissions ==
  {File(p, v) : p \in Permuted, v \in {<<1, 0, 0, 1>>, <<0, 1, 0, 1>>, <<1, 1, 0, 0>>, <<2, 1, 0, 1>>}}
  \union {File(Ids, v) : v \in [1..4 -> 0..2]}
  \union {File(<<1, 1, 2, 3>>, <<1, 1, 0, 0>>), File(<<1, 2, 3, 9>>, <<1, 1, 0, 0>>),
          File(<<1, 2, 3>>, <<1, 1, 0>>), File(Ids, <<1, NaN, 0, 1>>),
          [File(Ids, <<1, 1, 0, 0>>) EXCEPT !.hasId = FALSE],
          [File(Ids, <<1, 1, 0, 0>>) EXCEPT !.hasTarget = FALSE],
          [File(Ids, <<1, 1, 0, 0>>) EXCEPT !.others = {"usage"}],
          [File(Ids, <<1, 0, 2, 1>>) EXCEPT !.others = {"usage"}]}

MCFiles == {File(Ids, <<1, 0, 0, 1>>), File(Ids, <<0, 1, 2, 1>>), File(<<2, 1, 3, 4>>, <<1, 0, 0, 0>>)}
=============================================================================
