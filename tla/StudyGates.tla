------------------------------ MODULE StudyGates ------------------------------
(***************************************************************************)
(* The statistics and gates a replay study is judged by: exact binomial    *)
(* bounds on what probes detect, utilities of the five actions, overhead   *)
(* ratios and their whole-block bootstrap, the family of cheap selectors   *)
(* that try to tell probes from production, and the verdicts.              *)
(*                                                                         *)
(* A mean over blocks is its sum, a probability a multiple of 1 / Scale, a *)
(* percentage a number.                                                    *)
(***************************************************************************)
EXTENDS Integers, Sequences, FiniteSets, SequencesExt, FiniteSetsExt, Functions

CONSTANTS
  Evidences,        (* what a study hands to a gate: records with a kind    *)
  FeePercent, BondPercent, LiquidityPercent,
  ScreenBlocks,     (* of the conditional screen: six                      *)
  AuthorizedBlocks, (* of the compiler authorization: twenty               *)
  BlockRows,        (* of a recognizability block: [probes, production]    *)
  Folds

Deviations == {"L", "C+", "C-", "D"}
Scale == 10000000

GateAssumption ==
  /\ FeePercent \in Nat /\ BondPercent \in Nat /\ LiquidityPercent \in Nat
  /\ ScreenBlocks \in Nat \ {0} /\ AuthorizedBlocks \in Nat \ {0} /\ Folds \in Nat \ {0}

VARIABLES
  evidence,
  result
vars == <<evidence, result>>
Pending == [pending |-> TRUE]
Refused == [refused |-> TRUE]

-------------------------------------------------------------------------------
(* Ratios of sums over blocks and the quantiles of their bootstraps.  A    *)
(* ratio is a pair <<numerator, denominator>>; the draws of a bootstrap    *)
(* are sequences of block positions.                                       *)
Below(a, b) == a[1] * b[2] < b[1] * a[2]
AtMostRatio(a, b) == a[1] * b[2] <= b[1] * a[2]
Total(values) ==
  LET sum[i \in 0..Len(values)] == IF i = 0 THEN 0 ELSE sum[i - 1] + values[i]
  IN sum[Len(values)]
Drawn(values, draw) == Total([i \in DOMAIN draw |-> values[draw[i]]])
Size(i) == IF i < 0 THEN -i ELSE i
Largest(S) == Max(S)
Complement(alpha) == <<alpha[2] - alpha[1], alpha[2]>>

(* The quantile of the sample that numpy's method "higher" takes.          *)
RankHigher(count, q) == 1 - ((-(q[1] * (count - 1))) \div q[2])
QuantileHigher(values, q) == SortSeq(values, <)[RankHigher(Len(values), q)]
Field(rows, name) == [i \in DOMAIN rows |-> rows[i][name]]
LargestRatio(S) == CHOOSE r \in S : \A other \in S : AtMostRatio(other, r)
RatioQuantile(ratios, q) == SortSeq(ratios, Below)[RankHigher(Len(ratios), q)]

-------------------------------------------------------------------------------
(* Exact binomial bounds: a bound is compared with a threshold through the *)
(* tail it inverts.                                                        *)

(* The probability of at most `most` successes of probability t percent.   *)
BinomialTail(trials, most, t) ==
  LET row[n \in 0..trials] ==
        IF n = 0 THEN [j \in -1..most |-> IF j < 0 THEN 0 ELSE Scale]
        ELSE LET before == row[n - 1]
             IN [j \in -1..most |->
                   IF j < 0 THEN 0 ELSE (before[j] * (100 - t) + before[j - 1] * t) \div 100]
  IN row[trials][most]

UpperAtMost(successes, trials, t, alpha) ==
  /\ successes # trials
  /\ BinomialTail(trials, successes, t) <= alpha
\* Mutant: the beta parameters of the lower bound are those of the upper one.
LowerShifted(successes, trials, t, alpha) ==
  /\ successes # 0
  /\ trials = successes \/ BinomialTail(trials, trials - successes - 1, 100 - t) <= alpha
LowerAtLeast(successes, trials, t, alpha) ==
  /\ successes # 0
  /\ BinomialTail(trials, trials - successes, 100 - t) <= alpha

-------------------------------------------------------------------------------
(* Actions and utilities of a block: [false, detected, cost, costs]        *)

ActionGate(rows, alpha) ==
  LET honest == Cardinality({i \in DOMAIN rows : rows[i].false})
      found == [a \in Deviations |-> Cardinality({i \in DOMAIN rows : a \in rows[i].detected})]
      each == (alpha[1] * Scale) \div (Cardinality(Deviations) * alpha[2])
  IN [blocks |-> Len(rows), falseCount |-> honest, detected |-> found,
      falseAtMost |-> [t \in {5, 10} |-> UpperAtMost(honest, Len(rows), t, (alpha[1] * Scale) \div alpha[2])],
      detectedOften |-> [a \in Deviations |-> LowerAtLeast(found[a], Len(rows), 80, each)]]

Fee(row) == (FeePercent * row.cost) \div 100
Bond(row) == (BondPercent * row.cost) \div 100
Participation(row) == Fee(row) - row.cost - (LiquidityPercent * Bond(row)) \div 100
Bit(p) == IF p THEN 1 ELSE 0
\* Mutant: the bond of a detected deviation is paid out.
MarginBondReturned(row, a) ==
  ((1 - Bit(row.false)) - (1 - Bit(a \in row.detected))) * Fee(row)
    - (Bit(a \in row.detected) - Bit(row.false)) * Bond(row) - (row.cost - row.costs[a])
Margin(row, a) ==
  ((1 - Bit(row.false)) - (1 - Bit(a \in row.detected))) * Fee(row)
    + (Bit(a \in row.detected) - Bit(row.false)) * Bond(row) - (row.cost - row.costs[a])

(* A bound on the mean of each key that all hold at once.                  *)
\* Mutant: each key is corrected by its own shortfall.
PointwiseLower(values, draws, alpha) ==
  [key \in DOMAIN values |->
     Total(values[key])
       - QuantileHigher([d \in DOMAIN draws |-> Total(values[key]) - Drawn(values[key], draws[d])],
                        Complement(alpha))]
SimultaneousLower(values, draws, alpha) ==
  LET shortfall(d) ==
        Largest({Total(values[key]) - Drawn(values[key], draws[d]) : key \in DOMAIN values})
      correction == QuantileHigher([d \in DOMAIN draws |-> shortfall(d)], Complement(alpha))
  IN IF \A key \in DOMAIN values : Cardinality(Range(values[key])) = 1
     THEN [key \in DOMAIN values |-> Total(values[key])]
     ELSE [key \in DOMAIN values |-> Total(values[key]) - correction]
OneSidedLower(values, draws, alpha) ==
  IF Cardinality(Range(values)) = 1 THEN Total(values)
  ELSE QuantileHigher([d \in DOMAIN draws |-> Drawn(values, draws[d])], alpha)
UtilityGate(rows, draws, alpha) ==
  [participation |-> OneSidedLower([i \in DOMAIN rows |-> Participation(rows[i])], draws, alpha),
   margins |-> SimultaneousLower(
     [a \in Deviations |-> [i \in DOMAIN rows |-> Margin(rows[i], a)]], draws, alpha)]

-------------------------------------------------------------------------------
(* Verdicts.  Costs are normalised to 100 and `flaw` is what else the      *)
(* study reports wrong.                                                    *)

Holding(named) == {c[1] : c \in {c \in named : c[2]}}

\* Mutant: a false settlement of the honest replay does not stop the screen.
ScreenForgiving(e, action, utility) ==
  Holding({<<"violation", e.flaw \in {"violation", "witness"}>>, <<"blocks", action.blocks # ScreenBlocks>>,
    <<"detection", \E a \in Deviations : action.detected[a] # ScreenBlocks>>,
    <<"participation", utility.participation < 10 * action.blocks>>,
    <<"margins", \E a \in Deviations : utility.margins[a] <= 5 * action.blocks>>})
ScreenReasons(e, action, utility) ==
  Holding({
    <<"violation", e.flaw = "violation">>,
    <<"blocks", action.blocks # ScreenBlocks>>,
    <<"honest", action.falseCount # 0>>,
    <<"detection", \E a \in Deviations : action.detected[a] # ScreenBlocks>>,
    <<"atoms", e.flaw = "atoms">>,
    <<"witness", e.flaw = "witness">>,
    <<"participation", utility.participation < 10 * action.blocks>>,
    <<"margins", \E a \in Deviations : utility.margins[a] <= 5 * action.blocks>>,
    <<"repetition", e.flaw = "repetition">>,
    <<"environment", e.flaw = "environment">>,
    <<"auditor", e.flaw = "auditor">>})

SelectorsRecognise(e) == e.flaw \in {"lambda", "auc"}
T2Reasons(e, action) ==
  Holding({
    <<"certificate", e.flaw \in {"violation", "witness"}>>,
    <<"separation", \E a \in Deviations : ~action.detectedOften[a]>>,
    <<"honest", ~action.falseAtMost[5]>>,
    <<"recognition", SelectorsRecognise(e) \/ e.flaw \in {"runtime", "coverage"}>>,
    <<"overhead", e.flaw = "overhead">>})
T2Verdict(reasons) ==
  IF reasons = {} THEN "PASS"
  ELSE IF "recognition" \in reasons THEN "RECOGNIZABILITY_OR_COVERAGE_FAILED"
  ELSE "PROBE_CERTIFICATE_INVALID"
FormalReasons(e, action, utility) ==
  Holding({
    <<"honest", ~action.falseAtMost[10]>>,
    <<"separation", \E a \in Deviations : ~action.detectedOften[a]>>,
    <<"recognition", SelectorsRecognise(e)>>,
    <<"participation", utility.participation < 0>>,
    <<"margins", \E a \in Deviations : utility.margins[a] <= 0>>,
    <<"attack", e.flaw = "attack">>,
    <<"overhead", e.flaw = "overhead">>,
    <<"violation", e.flaw = "violation">>})
Verdicts(e) ==
  LET action == ActionGate(e.rows, e.alpha)
      utility == UtilityGate(e.rows, e.draws, e.alpha)
      t2 == T2Reasons(e, action)
  IN [screen |-> ScreenReasons(e, action, utility) = {}, t2 |-> T2Verdict(t2), t2Reasons |-> t2,
      formal |-> FormalReasons(e, action, utility), margins |-> utility.margins]

-------------------------------------------------------------------------------
(* Overhead of probing: block rows [seed, online, allin, den] in the order *)
(* of the ledger, and the repetitions [seed, repetition, online, allin,    *)
(* den] they are sums of                                                   *)

Pooled(rows, name) == <<Total(Field(rows, name)), Total(Field(rows, "den"))>>
InSeedOrder(rows) == SortSeq(rows, LAMBDA a, b : a.seed < b.seed)
\* Mutant: numerators are resampled and denominators are not.
UnpairedUpper(ordered, draws, alpha) ==
  RatioQuantile([d \in DOMAIN draws |-> <<Drawn(Field(ordered, "online"), draws[d]),
                                          Total(Field(ordered, "den"))>>], Complement(alpha))
PairedUpper(ordered, draws, alpha) ==
  RatioQuantile([d \in DOMAIN draws |-> <<Drawn(Field(ordered, "online"), draws[d]),
                                          Drawn(Field(ordered, "den"), draws[d])>>], Complement(alpha))
RowsValid(rows) ==
  /\ rows # <<>>
  /\ Cardinality(Range(Field(rows, "seed"))) = Len(rows)
  /\ \A i \in DOMAIN rows :
       rows[i].online >= 0 /\ rows[i].allin >= rows[i].online /\ rows[i].den > 0
ProbeOverhead(rows, draws, alpha) ==
  IF ~RowsValid(rows) THEN Refused
  ELSE [online |-> Pooled(rows, "online"), allin |-> Pooled(rows, "allin"),
        upper |-> PairedUpper(InSeedOrder(rows), draws, alpha)]
CompilerAuthorization(rows, compiled, draws, alpha, required) ==
  IF Len(rows) # required \/ ~RowsValid(rows) \/ \E i \in DOMAIN compiled : compiled[i].baseline <= 0
  THEN Refused
  ELSE [reduced |-> <<Total(Field(compiled, "baseline")) - Total(Field(compiled, "optimized")),
                      Total(Field(compiled, "baseline"))>>,
        overhead |-> ProbeOverhead(rows, draws, alpha)]
\* Mutant: the repetitions are only counted.
RepeatsCounted(rows, repeats, repetitions) ==
  Len(repeats) = Len(rows) * Cardinality(repetitions)
RepeatsComplete(rows, repeats, repetitions) ==
  /\ {<<repeats[i].seed, repeats[i].repetition>> : i \in DOMAIN repeats}
       = Range(Field(rows, "seed")) \X repetitions
  /\ Len(repeats) = Len(rows) * Cardinality(repetitions)
OverheadScreen(rows, repeats, repetitions, draws, alpha) ==
  IF ~RowsValid(rows) \/ ~RepeatsComplete(rows, repeats, repetitions) THEN Refused
  ELSE [overall |-> ProbeOverhead(rows, draws, alpha),
        each |-> [r \in repetitions |->
          LET selected == SelectSeq(repeats, LAMBDA row : row.repetition = r)
          IN Pooled(selected, "online")]]

-------------------------------------------------------------------------------
(* Recognizability.  Of frozen predictions: per block its rows [probe,     *)
(* decides, scores], the last two per selector.                            *)

Probes(rows) == {i \in DOMAIN rows : rows[i].probe}
Productions(rows) == {i \in DOMAIN rows : ~rows[i].probe}
(* Decided probes minus decided productions, over a common denominator.    *)
Contribution(rows, k) ==
  Cardinality({i \in Probes(rows) : k \in rows[i].decides}) * BlockRows[2]
    - Cardinality({i \in Productions(rows) : k \in rows[i].decides}) * BlockRows[1]
(* Twice the pairs of a probe and a production that scores order rightly.  *)
RankedPairs(rows, k) ==
  LET pairs == Probes(rows) \X Productions(rows)
      better == {p \in pairs : rows[p[1]].scores[k] > rows[p[2]].scores[k]}
      tied == {p \in pairs : rows[p[1]].scores[k] = rows[p[2]].scores[k]}
  IN 2 * Cardinality(better) + Cardinality(tied)

(* The largest deviation of any selector's resampled mean from its own.    *)
\* Mutant: resampled means are compared with zero and not with the mean.
UncenteredCorrection(values, draws, alpha) ==
  QuantileHigher([d \in DOMAIN draws |->
    Largest({Drawn(values[k], draws[d]) - Total(values[k]) : k \in DOMAIN values})], Complement(alpha))
CenteredCorrection(values, draws, alpha) ==
  QuantileHigher([d \in DOMAIN draws |->
    Largest({Size(Drawn(values[k], draws[d]) - Total(values[k])) : k \in DOMAIN values})],
    Complement(alpha))
SelectorValues(blocks, selectors) ==
  [advantage |-> [k \in selectors |-> [b \in DOMAIN blocks |-> Contribution(blocks[b], k)]],
   ranked |-> [k \in selectors |-> [b \in DOMAIN blocks |->
                 RankedPairs(blocks[b], k) - BlockRows[1] * BlockRows[2]]]]
FixedRecognizability(blocks, selectors, draws, alpha) ==
  LET whole == BlockRows[1] * BlockRows[2] * Len(blocks)
      values == SelectorValues(blocks, selectors)
      upper(of) ==
        LET correction == CenteredCorrection(values[of], draws, alpha)
        IN [k \in selectors |-> Min({whole, Size(Total(values[of][k])) + correction})]
  IN IF \E b \in DOMAIN blocks : /\ Cardinality(Probes(blocks[b])) # BlockRows[1]
                                 \/ Len(blocks[b]) # BlockRows[1] + BlockRows[2]
     THEN Refused
     ELSE [advantage |-> upper("advantage"), ranked |-> upper("ranked")]

(* Of a family fitted on other blocks: rows [block, probe, value, hash]    *)

Buckets == {<<"bucket", i>> : i \in 0..1}
Decides(selector, row) ==
  CASE selector[1] = "le" -> row.value <= selector[2]
    [] selector[1] = "ge" -> row.value >= selector[2]
    [] selector[1] = "bucket" -> row.hash % 2 = selector[2]
Labels(rows, S) == {rows[i].probe : i \in S}
(* Over one set of rows, advantages share their denominator.               *)
Counted(rows, S, selector) ==
  [p \in BOOLEAN |-> [all |-> Cardinality({i \in S : rows[i].probe = p}),
                      hit |-> Cardinality({i \in S : rows[i].probe = p /\ Decides(selector, rows[i])})]]
Advantage(rows, S, selector) ==
  LET c == Counted(rows, S, selector)
  IN Size(c[TRUE].hit * c[FALSE].all - c[FALSE].hit * c[TRUE].all)
(* The first candidate that no later one beats.                            *)
FitThreshold(rows, train, direction) ==
  LET candidates == {rows[i].value : i \in train}
      best == Largest({Advantage(rows, train, <<direction, t>>) : t \in candidates})
  IN Min({t \in candidates : Advantage(rows, train, <<direction, t>>) = best})
FitFamily(rows, train) ==
  [key \in {"le", "ge", "even", "odd"} |->
     CASE key \in {"le", "ge"} -> <<key, FitThreshold(rows, train, key)>>
       [] key = "even" -> <<"bucket", 0>>
       [] key = "odd" -> <<"bucket", 1>>]
Predicted(family, row) == {key \in DOMAIN family : Decides(family[key], row)}
(* Blocks are dealt to the folds in turn.                                  *)
FoldOf(block) == (block - 1) % Folds
TrainOf(rows, fold) == {i \in DOMAIN rows : FoldOf(rows[i].block) # fold}
\* Mutant: the family is fitted once, on every row.
CrossFitInSample(rows, frozen) ==
  [i \in DOMAIN rows |-> Predicted(FitFamily(rows, DOMAIN rows), rows[i])]
CrossFit(rows, frozen) ==
  IF \/ Labels(rows, DOMAIN rows) # BOOLEAN
     \/ Cardinality(Range(Field(rows, "block"))) # frozen
     \/ \E fold \in 0..(Folds - 1) : Labels(rows, TrainOf(rows, fold)) # BOOLEAN
  THEN Refused
  ELSE LET families == [fold \in 0..(Folds - 1) |-> FitFamily(rows, TrainOf(rows, fold))]
       IN [i \in DOMAIN rows |-> Predicted(families[FoldOf(rows[i].block)], rows[i])]

(* Of the cheap family: one split whose thresholds come from every row and *)
(* whose choice comes from the training rows, and the buckets.             *)
BestSplit(rows, train) ==
  LET candidates == {rows[i].value : i \in DOMAIN rows}
      gained(s) == Advantage(rows, train, s)
      best == Largest({gained(<<d, t>>) : d \in {"le", "ge"}, t \in candidates})
      first == Min({t \in candidates : \E d \in {"le", "ge"} : gained(<<d, t>>) = best})
  IN IF gained(<<"le", first>>) = best THEN <<"le", first>> ELSE <<"ge", first>>
CheapPredictions(rows) ==
  [key \in {"split", "even", "odd"} |->
     IF key = "split"
     THEN LET splits == [fold \in 0..(Folds - 1) |-> BestSplit(rows, TrainOf(rows, fold))]
          IN {i \in DOMAIN rows : Decides(splits[FoldOf(rows[i].block)], rows[i])}
     ELSE {i \in DOMAIN rows : rows[i].hash % 2 = (IF key = "even" THEN 0 ELSE 1)}]
(* On a draw of whole blocks.                                              *)
DrawnAdvantage(rows, decided, draw) ==
  LET count(p, S) == Total([d \in DOMAIN draw |->
        Cardinality({i \in S : rows[i].block = draw[d] /\ rows[i].probe = p})])
      all == DOMAIN rows
  IN <<Size(count(TRUE, decided) * count(FALSE, all) - count(FALSE, decided) * count(TRUE, all)),
       count(TRUE, all) * count(FALSE, all)>>
Registered(runtimes, budget) == {key \in DOMAIN runtimes : runtimes[key] <= budget}
BootstrapUpper(rows, predictions, keys, draws, alpha) ==
  LET point == LargestRatio({DrawnAdvantage(rows, predictions[k], SetToSeq(Range(Field(rows, "block")))) : k \in keys})
      usable == SelectSeq(draws, LAMBDA draw :
        Labels(rows, {i \in DOMAIN rows : rows[i].block \in Range(draw)}) = BOOLEAN)
      largest == [d \in DOMAIN usable |->
        LargestRatio({DrawnAdvantage(rows, predictions[k], usable[d]) : k \in keys})]
  IN IF usable = <<>> THEN Refused
     ELSE LargestRatio({point, RatioQuantile(largest, Complement(alpha))})
Recognizability(e) ==
  LET predictions == CheapPredictions(e.rows)
      keys == Registered(e.runtimes, e.budget)
  IN IF keys = {} THEN Refused
     ELSE [predictions |-> predictions, registered |-> keys,
           upper |-> BootstrapUpper(e.rows, predictions, keys, e.draws, e.alpha)]

-------------------------------------------------------------------------------
(* Features of a public envelope, and what a frozen selector reads of it.  *)
(* A view holds the compact envelope and, computed when asked for, what    *)
(* the full one would have said.                                           *)

ProofFeatures == {"nibble", "summary", "sketch"}
CompactFeatures(view) == [tensors |-> view.tensors, length |-> view.compact.length, nibble |-> view.compact.nibble]
FullFeatures(view) ==
  [tensors |-> view.tensors, length |-> view.full.length, nibble |-> view.full.nibble,
   summary |-> view.summary, sketch |-> view.sketch]
AllNames == {"tensors", "length", "nibble", "summary", "sketch"}
\* Mutant: the bytes of the compact envelope stand for those of the full one.
ViewCompactBytes(view, required) ==
  IF ~view.addressed THEN Refused
  ELSE [name \in required \cup {"tensors", "length"} |->
         IF name \in {"summary", "sketch"} THEN FullFeatures(view)[name] ELSE CompactFeatures(view)[name]]
ViewFeatures(view, required) ==
  IF ~view.addressed THEN Refused
  ELSE IF required \cap ProofFeatures = {} THEN CompactFeatures(view)
  ELSE [name \in AllNames |->
         IF name = "length" THEN CompactFeatures(view)[name] ELSE FullFeatures(view)[name]]
TreeFeatures(tree) == {tree[n].feature : n \in {m \in DOMAIN tree : tree[m].left # tree[m].right}}
Required(selector) ==
  CASE selector.kind = "threshold" -> {selector.feature}
    [] selector.kind = "bucket" -> {}
    [] selector.kind = "tree" -> TreeFeatures(selector.tree)
    [] selector.kind = "logistic" -> AllNames
DecidesFrom(features, hash, selector) ==
  CASE selector.kind = "threshold" ->
         IF selector.direction = "le" THEN features[selector.feature] <= selector.threshold
         ELSE features[selector.feature] >= selector.threshold
    [] selector.kind = "bucket" -> hash % selector.modulus = selector.bucket
    [] selector.kind = "logistic" ->
         Total([i \in DOMAIN selector.weights |->
                  selector.weights[i][2] * features[selector.weights[i][1]]]) >= selector.offset
    [] selector.kind = "tree" ->
         LET walk[n \in DOMAIN selector.tree] ==
               LET node == selector.tree[n]
               IN IF node.left = node.right THEN 2 * node.probes >= node.rows /\ node.rows > 0
                  ELSE IF features[node.feature] <= node.threshold THEN walk[node.left] ELSE walk[node.right]
         IN walk[1]
EvaluateFrozen(view, selector) ==
  LET features == ViewFeatures(view, Required(selector))
  IN IF features = Refused THEN Refused
     ELSE [decision |-> DecidesFrom(features, view.hash, selector)]

-------------------------------------------------------------------------------
Init == evidence \in Evidences /\ result = Pending
Answer(kind, value) ==
  /\ evidence.kind = kind /\ result = Pending
  /\ result' = value
  /\ UNCHANGED evidence
CountTrials ==
  Answer("trials",
    [lower |-> {k \in 0..evidence.trials :
       LowerAtLeast(k, evidence.trials, 80, (evidence.alpha[1] * Scale) \div (4 * evidence.alpha[2]))},
     upper |-> {k \in 0..evidence.trials :
       UpperAtMost(k, evidence.trials, 10, (evidence.alpha[1] * Scale) \div evidence.alpha[2])}])
JudgeStudy == Answer("study", Verdicts(evidence))
MeasureOverhead ==
  Answer("overhead",
    [screen |-> OverheadScreen(evidence.rows, evidence.repeats, evidence.repetitions, evidence.draws, evidence.alpha),
     authorization |-> CompilerAuthorization(evidence.rows, evidence.compiled, evidence.draws, evidence.alpha,
       AuthorizedBlocks)])
MeasureSelectors ==
  Answer("selectors", FixedRecognizability(evidence.blocks, evidence.selectors, evidence.draws, evidence.alpha))
CrossFitSelectors == Answer("crossfit", CrossFit(evidence.rows, evidence.frozen))
MeasureRecognizability == Answer("cheap", Recognizability(evidence))
InspectView == Answer("view", EvaluateFrozen(evidence.view, evidence.selector))
Judged == result # Pending /\ UNCHANGED vars
Next ==
  \/ CountTrials
  \/ JudgeStudy
  \/ MeasureOverhead
  \/ MeasureSelectors
  \/ CrossFitSelectors
  \/ MeasureRecognizability
  \/ InspectView
  \/ Judged

-------------------------------------------------------------------------------
(* Properties                                                              *)

(* A screen worth continuing means that every block, and not their mean    *)
(* alone, pays honest work, and pays it more than any deviation.           *)
Utility(row, a) ==
  LET passes == IF a = "H" THEN ~row.false ELSE a \notin row.detected
  IN (IF passes THEN Fee(row) ELSE -Bond(row)) - (IF a = "H" THEN row.cost ELSE row.costs[a])
(* Bounds on utility margins hold together on all but a share alpha of the *)
(* draws, and actions that pass T2 pass the formal gate.                   *)
FewDraws(draws, bad, alpha) == Cardinality(bad) * alpha[2] <= alpha[1] * Len(draws)
StudySound(e, r) ==
  /\ r.screen =>
       \A i \in DOMAIN e.rows : \A a \in Deviations :
         Utility(e.rows[i], "H") > 0 /\ Utility(e.rows[i], "H") > Utility(e.rows[i], a)
  /\ LET gain(d, a) == Total([i \in DOMAIN e.draws[d] |->
           LET row == e.rows[e.draws[d][i]] IN Utility(row, "H") - Utility(row, a)])
     IN FewDraws(e.draws, {d \in DOMAIN e.draws : \E a \in Deviations : gain(d, a) < r.margins[a]}, e.alpha)
  /\ r.t2Reasons \cap {"separation", "honest"} = {} => r.formal \cap {"separation", "honest"} = {}

(* A deviation detected exactly as often as the threshold passes it, and   *)
(* an honest replay that fails exactly that often, with probability alpha  *)
(* at most: every outcome of the trials is weighed.                        *)
Power(base, n) == LET p[i \in 0..n] == IF i = 0 THEN 1 ELSE base * p[i - 1] IN p[n]
Ways(n, k) == Cardinality(kSubset(k, 1..n))
ErrorsControlled(e, r) ==
  LET weight(passing, hit, miss) ==
        Total([k \in 1..(e.trials + 1) |->
          IF k - 1 \in passing THEN Ways(e.trials, k - 1) * Power(hit, k - 1) * Power(miss, e.trials - k + 1)
          ELSE 0])
  IN /\ weight(r.lower, 4, 1) <= (Power(5, e.trials) \div (4 * e.alpha[2])) * e.alpha[1]
     /\ weight(r.upper, 1, 9) <= (Power(10, e.trials) \div e.alpha[2]) * e.alpha[1]

(* A screen is refused exactly when a block lacks one row of a repetition  *)
(* or has two; otherwise no bound leaves the range of the blocks' ratios,  *)
(* the whole lies between its repetitions, and the order of the ledger     *)
(* does not matter.                                                        *)
OverheadSound(e, r) ==
  LET seeds == Range(Field(e.rows, "seed"))
      rowsOf(s, k) == {i \in DOMAIN e.repeats : e.repeats[i].seed = s /\ e.repeats[i].repetition = k}
      complete == /\ Cardinality(seeds) = Len(e.rows)
                  /\ \A s \in seeds, k \in e.repetitions : Cardinality(rowsOf(s, k)) = 1
                  /\ \A i \in DOMAIN e.repeats :
                       e.repeats[i].seed \in seeds /\ e.repeats[i].repetition \in e.repetitions
      within(ratio, ratios) ==
        (\E x \in ratios : AtMostRatio(x, ratio)) /\ (\E x \in ratios : AtMostRatio(ratio, x))
      blocks == {<<e.rows[i].online, e.rows[i].den>> : i \in DOMAIN e.rows}
      reordered == OverheadScreen(Reverse(e.rows), Reverse(e.repeats), e.repetitions, e.draws, e.alpha)
  IN /\ (r.screen = Refused) = ~complete
     /\ r.screen = reordered
     /\ r.screen # Refused =>
          LET whole == r.screen.overall
          IN /\ within(whole.upper, blocks) /\ within(whole.online, blocks)
             /\ within(whole.online, Range(r.screen.each))
             /\ AtMostRatio(whole.online, whole.allin)
             /\ r.authorization # Refused => r.authorization.overhead = whole

(* All bounds of a family of selectors hold together on all but a share    *)
(* alpha of the draws.                                                     *)
SelectorsSound(e, r) ==
  LET values == SelectorValues(e.blocks, e.selectors)
      bad(of) == {d \in DOMAIN e.draws : \E k \in e.selectors :
                    Size(Drawn(values[of][k], e.draws[d])) > r[of][k]}
  IN r # Refused =>
       FewDraws(e.draws, bad("advantage"), e.alpha) /\ FewDraws(e.draws, bad("ranked"), e.alpha)

(* What is predicted of a block does not depend on the labels of the block.*)
Relabelled(rows, b) ==
  [i \in DOMAIN rows |-> [rows[i] EXCEPT !.probe = IF rows[i].block = b THEN ~@ ELSE @]]
CrossFitSound(e, r) ==
  \A b \in Range(Field(e.rows, "block")) :
    LET other == CrossFit(Relabelled(e.rows, b), e.frozen)
    IN r # Refused /\ other # Refused =>
         \A i \in DOMAIN e.rows : e.rows[i].block = b => r[i] = other[i]
CheapSound(e, r) ==
  r # Refused =>
    /\ \A b \in Range(Field(e.rows, "block")) :
         LET other == CheapPredictions(Relabelled(e.rows, b))
         IN \A i \in DOMAIN e.rows : \A key \in DOMAIN other :
              e.rows[i].block = b => (i \in r.predictions[key]) = (i \in other[key])
    /\ r.upper # Refused =>
         LET above(d) == LET on(k) == DrawnAdvantage(e.rows, r.predictions[k], e.draws[d])
                         IN \E k \in r.registered : on(k)[2] # 0 /\ Below(r.upper, on(k))
             usable == SelectSeq(e.draws, LAMBDA draw :
               DrawnAdvantage(e.rows, {}, draw)[2] # 0)
         IN FewDraws(usable, {d \in DOMAIN e.draws : above(d)}, e.alpha)

(* A selector decides from the features it asks for as it would from those *)
(* of the full envelope, but for the compact length.                       *)
ViewSound(e, r) ==
  LET features == [FullFeatures(e.view) EXCEPT !.length = e.view.compact.length]
  IN /\ (r = Refused) = ~e.view.addressed
     /\ r # Refused => r.decision = DecidesFrom(features, e.view.hash, e.selector)

GatesSound ==
  result # Pending =>
    CASE evidence.kind = "study" -> StudySound(evidence, result)
      [] evidence.kind = "trials" -> ErrorsControlled(evidence, result)
      [] evidence.kind = "overhead" -> OverheadSound(evidence, result)
      [] evidence.kind = "selectors" -> SelectorsSound(evidence, result)
      [] evidence.kind = "crossfit" -> CrossFitSound(evidence, result)
      [] evidence.kind = "cheap" -> CheapSound(evidence, result)
      [] evidence.kind = "view" -> ViewSound(evidence, result)
================================================================================
