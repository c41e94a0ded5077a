---------------------------- MODULE UpdateAggregation ----------------------------
(***************************************************************************)
(* How submitted updates are judged and aggregated: the baselines that     *)
(* score local models and accuse the low scores, and the methods that      *)
(* select updates for an aggregate, by distance, by a trusted update, by   *)
(* replay or by a trusted loss.                                            *)
(*                                                                         *)
(* A model is a point <<x, y>> relative to the anchor, an average <<sum of *)
(* x, sum of y, weight>>; accuracy and loss are functions of an average.   *)
(* What is compared between updates is exact: points whose distances are   *)
(* used have whole distances.                                              *)
(***************************************************************************)
EXTENDS Integers, Sequences, FiniteSets, SequencesExt, FiniteSetsExt, Functions

CONSTANTS
  Aggregations,      (* [method, updates, weights, root, replays, losses]   *)
  Verifications,     (* [method, updates, replays, truth]                   *)
  Averages,          (* [updates, excluded]                                 *)
  SampleCount, Accuracy(_), Loss(_),
  Nonfinite          (* a loss that is not a number                         *)

AggregationAssumption == SampleCount \in Nat \ {0}

VARIABLES round, orders, outcome
vars == <<round, orders, outcome>>
Open == [open |-> TRUE]
Raised == [raised |-> TRUE]

Updates(r) == DOMAIN r.updates
(* weight: of each update that takes part.                                 *)
Weighed(r, weight) ==
  LET S == DOMAIN weight
      total == MapThenSumSet(LAMBDA i : weight[i], S)
  IN IF total <= 0 THEN Raised
     ELSE <<MapThenSumSet(LAMBDA i : weight[i] * r.updates[i][1], S),
            MapThenSumSet(LAMBDA i : weight[i] * r.updates[i][2], S), total>>
Anchor == <<0, 0, 1>>
Selected(accused, selected, aggregate) ==
  IF aggregate = Raised THEN Raised
  ELSE [accused |-> accused, selected |-> selected, aggregate |-> aggregate]

-------------------------------------------------------------------------------
(* Distances                                                               *)

Dot(u, v) == u[1] * v[1] + u[2] * v[2]
Minus(u, v) == <<u[1] - v[1], u[2] - v[2]>>
Root(n) == CHOOSE d \in 0..n : d * d = n
Distance(u, v) == Root(Dot(Minus(u, v), Minus(u, v)))
(* The sum of the distances to the closest others.                         *)
\* Mutant: an update is among its own closest.
KrumScoreWithSelf(r, i, closest) ==
  LET near == SortSeq([j \in Updates(r) |-> Distance(r.updates[i], r.updates[j])], <)
      sum[k \in 0..closest] == IF k = 0 THEN 0 ELSE sum[k - 1] + near[k]
  IN sum[closest]
KrumScore(r, i, closest) ==
  LET near == SortSeq([j \in 1..(Len(r.updates) - 1) |->
                Distance(r.updates[i], r.updates[IF j < i THEN j ELSE j + 1])], <)
      sum[k \in 0..closest] == IF k = 0 THEN 0 ELSE sum[k - 1] + near[k]
  IN sum[closest]

-------------------------------------------------------------------------------
(* Aggregation                                                             *)

All(r) == Selected({}, Updates(r), Weighed(r, r.weights))

Closest(r) == Len(r.updates) - (4 * Len(r.updates)) \div 10 - 2
Ahead(scores, i) == {j \in DOMAIN scores : scores[j] < scores[i] \/ (scores[j] = scores[i] /\ j < i)}
MultiKrum(r) ==
  LET scores == [i \in Updates(r) |-> KrumScore(r, i, Closest(r))]
      selected == {i \in Updates(r) : Cardinality(Ahead(scores, i)) < Closest(r)}
  IN IF Closest(r) <= 0 THEN Raised
     ELSE Selected(Updates(r) \ selected, selected, Weighed(r, [i \in selected |-> 1]))

(* Trust is the cosine with the trusted update, never negative; weighed by *)
(* trust * |root| / |update|, which is proportional to the quotient of the *)
(* product with the root and the square of the update.                     *)
Square(r, i) == Dot(r.updates[i], r.updates[i])
\* Mutant: trust may be negative.
ProjectionSigned(r, i) == Dot(r.updates[i], r.root)
Projection(r, i) == Max({0, Dot(r.updates[i], r.root)})
OtherSquares(r, i) ==
  LET product[k \in 0..Len(r.updates)] ==
        IF k = 0 THEN 1
        ELSE product[k - 1] * (IF k = i \/ Square(r, k) = 0 THEN 1 ELSE Square(r, k))
  IN product[Len(r.updates)]
FLTrust(r) ==
  LET trusted == {i \in Updates(r) : Projection(r, i) > 0}
      weight == [i \in Updates(r) |-> IF Square(r, i) = 0 THEN 0 ELSE Projection(r, i) * OtherSquares(r, i)]
      hopeless == \A i \in Updates(r) : Projection(r, i) = 0
  IN Selected(Updates(r) \ trusted, IF hopeless THEN {} ELSE trusted,
       IF hopeless THEN Anchor ELSE Weighed(r, weight))

(* Those a check leaves, each with its own weight; the anchor if none.     *)
\* Mutant: the weights are taken from the front of the list.
RemainingFront(r, selected) ==
  IF selected = {} THEN Anchor
  ELSE Weighed(r, [i \in selected |-> r.weights[Cardinality({j \in selected : j <= i})]])
Remaining(r, selected) ==
  IF selected = {} THEN Anchor ELSE Weighed(r, [i \in selected |-> r.weights[i]])
ReplayChecked(r) ==
  LET passed == {i \in Updates(r) : r.replays[i] = "passes"}
  IN Selected(Updates(r) \ passed, passed, Remaining(r, passed))

\* Mutant: a loss that is not a number counts as the smallest one.
FiniteOfAll(r) == Updates(r)
Finite(r) == {i \in Updates(r) : r.losses[i] # Nonfinite}
(* Twice the median less the smallest.                                     *)
LossBound(ordered) ==
  LET middle == Len(ordered) \div 2
  IN (IF Len(ordered) % 2 = 1 THEN 2 * ordered[middle + 1] ELSE ordered[middle] + ordered[middle + 1])
       - ordered[1]
Within(r, losses) == {i \in Finite(r) : losses # <<>> /\ r.losses[i] <= LossBound(losses)}
LossAudited(r) ==
  LET ordered == SortSeq(SelectSeq(r.losses, LAMBDA l : l # Nonfinite), <)
      selected == Within(r, ordered)
  IN Selected(Updates(r) \ selected, selected, Remaining(r, selected))

Decision(r) ==
  CASE r.method = "none" -> All(r)
    [] r.method = "multi-krum" -> MultiKrum(r)
    [] r.method = "fltrust" -> FLTrust(r)
    [] r.method = "sevc-ctiv-registered-v1" -> ReplayChecked(r)
    [] r.method = "refiner-update-audit-style" -> LossAudited(r)
AggregateSubmissions ==
  /\ outcome = Open /\ round \in Aggregations
  /\ outcome' = Decision(round)
  /\ UNCHANGED <<round, orders>>

(* The plain average of a training round.                                  *)
AverageModels(r) ==
  IF \A i \in Updates(r) : r.excluded[i] THEN Raised
  ELSE [aggregate |-> Weighed(r, [i \in {j \in Updates(r) : ~r.excluded[j]} |-> 1])]
AverageRound ==
  /\ outcome = Open /\ round \in Averages
  /\ outcome' = AverageModels(round)
  /\ UNCHANGED <<round, orders>>

-------------------------------------------------------------------------------
(* Verification                                                            *)

AverageOf(r, S) == Weighed(r, [i \in S |-> 1])
Alone(r, i) == <<r.updates[i][1], r.updates[i][2], 1>>

(* Marginal accuracies along the sampled orders.                           *)
Prefix(order, k) == {order[l] : l \in 1..k}
\* Mutant: the accuracy before a model joined is not carried along.
MarginalUncarried(r, order, k) == Accuracy(AverageOf(r, Prefix(order, k)))
Marginal(r, order, k) ==
  Accuracy(AverageOf(r, Prefix(order, k)))
    - (IF k = 1 THEN 0 ELSE Accuracy(AverageOf(r, Prefix(order, k - 1))))
Shapley(r, sampled) ==
  [i \in Updates(r) |->
     MapThenSumSet(LAMBDA s : Marginal(r, sampled[s], CHOOSE k \in Updates(r) : sampled[s][k] = i),
                   DOMAIN sampled)]
\* Mutant: the sum without a model is still divided by all.
WithoutOfAll(r, i) ==
  LET all == AverageOf(r, Updates(r))
  IN <<all[1] - r.updates[i][1], all[2] - r.updates[i][2], all[3]>>
Without(r, i) ==
  LET all == AverageOf(r, Updates(r))
  IN <<all[1] - r.updates[i][1], all[2] - r.updates[i][2], all[3] - 1>>
Influence(r) ==
  [i \in Updates(r) |->
     IF Len(r.updates) = 1 THEN 0 ELSE Loss(Without(r, i)) - Loss(AverageOf(r, Updates(r)))]
AssumedClosest(r) == Max({0, Len(r.updates) - ((Len(r.updates) + 1) \div 2 - 1) - 2})
(* The distance from the mean, in parts of the number of models.           *)
FromMean(r, i) ==
  LET mean == AverageOf(r, Updates(r))
  IN Distance(<<mean[3] * r.updates[i][1], mean[3] * r.updates[i][2]>>, mean)
Scores(r, sampled) ==
  CASE r.method = "test-acc" -> [i \in Updates(r) |-> Accuracy(Alone(r, i)) - Accuracy(Anchor)]
    [] r.method = "sampled-shapley" -> Shapley(r, sampled)
    [] r.method = "influence" -> Influence(r)
    [] r.method = "multi-krum" -> [i \in Updates(r) |-> -KrumScore(r, i, AssumedClosest(r))]
    [] r.method = "update-significance" -> [i \in Updates(r) |-> FromMean(r, i)]

(* Scores at most one standard deviation below the mean are accused.       *)
\* Mutant: scores at most the mean are accused.
AccusedBelowMean(scores) ==
  LET n == Cardinality(DOMAIN scores)
      sum == MapThenSumSet(LAMBDA i : scores[i], DOMAIN scores)
  IN {i \in DOMAIN scores : sum - n * scores[i] >= 0}
Accused(scores) ==
  LET n == Cardinality(DOMAIN scores)
      sum == MapThenSumSet(LAMBDA i : scores[i], DOMAIN scores)
      squares == MapThenSumSet(LAMBDA i : scores[i] * scores[i], DOMAIN scores)
      below(i) == sum - n * scores[i]
  IN {i \in DOMAIN scores : below(i) >= 0 /\ below(i) * below(i) >= n * squares - sum * sum}
(* [right, f1], of the accused against the truth.                          *)
Metrics(truth, accused) ==
  LET TP == Cardinality({i \in accused : truth[i]})
      FP == Cardinality(accused) - TP
      FN == Cardinality({i \in DOMAIN truth \ accused : truth[i]})
  IN [right |-> Len(truth) - FP - FN,
      f1 |-> IF 2 * TP + FP + FN = 0 THEN <<0, 1>> ELSE <<2 * TP, 2 * TP + FP + FN>>]
Judged(r, scores, accused) ==
  [scores |-> scores, accused |-> accused, metrics |-> Metrics(r.truth, accused)]
Verification(r, sampled) ==
  CASE r.method = "none" -> Judged(r, <<>>, {})
    [] r.method = "reproduction-oracle" -> Judged(r, <<>>, {i \in Updates(r) : r.truth[i]})
    [] r.method = "trajectory-replay" -> Judged(r, <<>>, {i \in Updates(r) : r.replays[i] # "passes"})
    [] OTHER -> LET scores == Scores(r, sampled) IN Judged(r, scores, Accused(scores))
RunVerification ==
  /\ outcome = Open /\ round \in Verifications
  /\ \E sampled \in [1..SampleCount -> {p \in [Updates(round) -> Updates(round)] : IsInjective(p)}] :
       /\ round.method # "sampled-shapley" => \A s \in 1..SampleCount : \A i \in Updates(round) : sampled[s][i] = i
       /\ orders' = sampled
       /\ outcome' = Verification(round, sampled)
  /\ UNCHANGED round

-------------------------------------------------------------------------------
Init ==
  /\ round \in Aggregations \cup Verifications \cup Averages
  /\ orders = <<>> /\ outcome = Open
Judgement == outcome # Open /\ UNCHANGED vars
Next == AggregateSubmissions \/ AverageRound \/ RunVerification \/ Judgement

-------------------------------------------------------------------------------
(* Properties                                                              *)

Same(a, b) == a[1] * b[3] = b[1] * a[3] /\ a[2] * b[3] = b[2] * a[3]
Swapped(values, i, j) ==
  [values EXCEPT ![i] = values[j], ![j] = values[i]]
Swap(r, i, j) ==
  [r EXCEPT !.updates = Swapped(@, i, j), !.weights = Swapped(@, i, j),
            !.replays = Swapped(@, i, j), !.losses = Swapped(@, i, j)]
KrumTied(r) == \E i, j \in Updates(r) : i # j /\ KrumScore(r, i, Closest(r)) = KrumScore(r, j, Closest(r))
Agrees(d, e) == IF d = Raised \/ e = Raised THEN d = e ELSE Same(d.aggregate, e.aggregate)

(* Neither the order of the submissions nor an update that is left out has *)
(* any part in the aggregate, which lies between the selected updates, on  *)
(* the side of the trusted one where there is one.                         *)
AggregateOfSelected ==
  round \in Aggregations /\ outcome # Open /\ outcome # Raised =>
    /\ outcome.accused = Updates(round) \ outcome.selected
    /\ outcome.selected = {} => outcome.aggregate = Anchor
    /\ outcome.selected # {} => \A axis \in {1, 2} :
         LET on == {round.updates[i][axis] : i \in outcome.selected}
         IN /\ Min(on) * outcome.aggregate[3] <= outcome.aggregate[axis]
            /\ outcome.aggregate[axis] <= Max(on) * outcome.aggregate[3]
    /\ round.method = "fltrust" => Dot(outcome.aggregate, round.root) >= 0
OrderIrrelevant ==
  round \in Aggregations /\ outcome # Open /\ ~(round.method = "multi-krum" /\ outcome # Raised /\ KrumTied(round)) =>
    \A j \in Updates(round) \ {1} : Agrees(outcome, Decision(Swap(round, 1, j)))

(* An update further from each other one than those are from each other is *)
(* not selected by distance; by loss the best is, and at least half are.   *)
LoneUpdate(i) ==
  \A j, k, l \in Updates(round) \ {i} : Distance(round.updates[i], round.updates[j])
                                          > Distance(round.updates[k], round.updates[l])
SelectsReasonably ==
  round \in Aggregations /\ outcome # Open /\ outcome # Raised =>
    /\ round.method = "multi-krum" =>
         /\ Cardinality(outcome.selected) = Closest(round)
         /\ \A i \in outcome.selected : ~LoneUpdate(i)
    /\ round.method = "refiner-update-audit-style" =>
         LET numbers == {i \in Updates(round) : round.losses[i] # Nonfinite}
         IN /\ outcome.selected \subseteq numbers
            /\ 2 * Cardinality(outcome.selected) >= Cardinality(numbers)
            /\ \A i \in outcome.selected : \A j \in numbers :
                 round.losses[j] <= round.losses[i] => j \in outcome.selected

(* Scores never accuse more than half of the models unless all are equal,  *)
(* when all are accused; sampled contributions add up to the accuracy of   *)
(* the average; with a loss that is linear a model raises it by being      *)
(* above the mean.                                                         *)
AccusesFew ==
  round \in Verifications /\ outcome # Open /\ outcome.scores # <<>> =>
    LET tied == \A i, j \in Updates(round) : outcome.scores[i] = outcome.scores[j]
    IN IF tied THEN outcome.accused = Updates(round)
       ELSE 2 * Cardinality(outcome.accused) <= Len(round.updates)
ScoresAddUp ==
  round \in Verifications /\ outcome # Open =>
    /\ round.method = "sampled-shapley" =>
         MapThenSumSet(LAMBDA i : outcome.scores[i], Updates(round))
           = SampleCount * Accuracy(AverageOf(round, Updates(round)))
    /\ round.method = "influence" =>
         MapThenSumSet(LAMBDA i : outcome.scores[i], Updates(round)) = 0

AggregationSound ==
  AggregateOfSelected /\ OrderIrrelevant /\ SelectsReasonably /\ AccusesFew /\ ScoresAddUp
================================================================================
