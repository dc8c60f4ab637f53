--------------------------- MODULE RankingMetrics ---------------------------
(***************************************************************************)
(* The offline evaluation of ranking scores                                *)
(* (ranking/infrastructure/training/ranking_evaluator.py).                 *)
(*                                                                         *)
(* Scores and labels are whole parts of One.  A row keeps the weighted sum *)
(* of its eight positive features (merit), its penalty, its label and the  *)
(* recommendation request it was shown in.  Means over requests are kept   *)
(* as the function they are the mean of, and quotients as [num, den].      *)
(***************************************************************************)
EXTENDS Integers, Sequences, FiniteSetsExt

CONSTANTS
    One,         \* the score 1.0
    Discount,    \* Discount[i]: 1 / log2(i + 1), scaled to a whole number
    RequestIds,  \* recommendation requests
    NoRequest,   \* rows of older datasets name no request
    MaxRows      \* bound: rows of an evaluation

ASSUME MetricsAssumption ==
    /\ One \in Nat \ {0}
    /\ MaxRows \in Nat /\ 1..MaxRows \subseteq DOMAIN Discount
    /\ DOMAIN Discount \subseteq Nat \ {0}
    /\ \A i \in DOMAIN Discount : Discount[i] \in Nat
    /\ \A i, j \in DOMAIN Discount : i <= j => Discount[i] >= Discount[j]

Undefined == [num |-> 0, den |-> 0]
Clamp(score, top) == Max({0, Min({top, score})})

-----------------------------------------------------------------------------
(* binary_auc: the rank sum of the positive rows, ties sharing their mean  *)
(* rank.  Ranks are doubled to stay whole.                                 *)

Positives(rows) == {i \in DOMAIN rows : rows[i].label > 0}
Negatives(rows) == DOMAIN rows \ Positives(rows)

\* Seeded fault: rows with equal scores all get the lowest of their ranks.
LowestRankTwice(predictions, i) ==
    2 * (Cardinality({k \in DOMAIN predictions : predictions[k] < predictions[i]}) + 1)

\* The run of equal scores around i takes the ranks cursor + 1 .. end.
AverageRankTwice(predictions, i) ==
    LET cursor == Cardinality({k \in DOMAIN predictions : predictions[k] < predictions[i]})
        end    == Cardinality({k \in DOMAIN predictions : predictions[k] <= predictions[i]})
    IN  cursor + 1 + end

BinaryAuc(rows, predictions) ==
    LET positives == Cardinality(Positives(rows))
        negatives == Cardinality(Negatives(rows))
        rankSum   == SumFunction([i \in Positives(rows) |-> AverageRankTwice(predictions, i)])
    IN  IF positives = 0 \/ negatives = 0 THEN Undefined
        ELSE [num |-> rankSum - positives * (positives + 1), den |-> 2 * positives * negatives]

-----------------------------------------------------------------------------
(* ndcg_at_k and mean_reciprocal_rank: one ranking per request.            *)

Requests(rows) == {rows[i].request : i \in DOMAIN rows} \ {NoRequest}
Group(rows, request) == {i \in DOMAIN rows : rows[i].request = request}

\* Python's sort is stable: of equal scores the earlier row comes first.
PositionBy(key, group, i) ==
    1 + Cardinality({k \in group : key[k] > key[i] \/ (key[k] = key[i] /\ k < i)})
Labels(rows) == [i \in DOMAIN rows |-> rows[i].label]

\* The label of every row among the first k, discounted by its position.
Gain(rows, key, group, k) ==
    SumFunction([i \in {j \in group : PositionBy(key, group, j) <= k} |->
                     rows[i].label * Discount[PositionBy(key, group, i)]])

\* A request without a positive row has den = 0 and counts as score 0.
NdcgAtK(rows, predictions, k) ==
    [request \in Requests(rows) |->
        [num |-> Gain(rows, predictions, Group(rows, request), k),
         den |-> Gain(rows, Labels(rows), Group(rows, request), k)]]

\* The position of the first positive row; requests without one do not count.
FirstPositive(rows, predictions) ==
    [request \in {r \in Requests(rows) : Group(rows, r) \cap Positives(rows) # {}} |->
        LET group == Group(rows, request) IN
        Min({PositionBy(predictions, group, i) : i \in group \cap Positives(rows)})]

EvaluatePredictions(rows, predictions, cutoffs) ==
    [auc  |-> BinaryAuc(rows, predictions),
     ndcg |-> [k \in cutoffs |-> NdcgAtK(rows, predictions, k)],
     mrr  |-> FirstPositive(rows, predictions)]

-----------------------------------------------------------------------------
(* standard_ranking_predictions and blended_ranking_predictions.           *)

StandardRankingPredictions(rows) ==
    [i \in DOMAIN rows |-> Clamp(rows[i].merit - rows[i].penalty, One)]

\* Seeded fault: the share of the model is not limited.
UnboundedBlend(blend) == Clamp(blend, 10)

\* The share of the model, in tenths: at most one half.
BoundedBlend(blend) == Clamp(blend, 5)

\* In tenths of a score.
BlendedRankingPredictions(standard, model, blend) ==
    LET share == BoundedBlend(blend) IN
    [i \in DOMAIN standard |-> Clamp(standard[i] * (10 - share) + model[i] * share, 10 * One)]
=============================================================================
