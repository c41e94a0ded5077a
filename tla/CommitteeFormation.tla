--------------------------- MODULE CommitteeFormation ---------------------------
(***************************************************************************)
(* How committees are formed from the reliabilities of identities, greedily *)
(* by size, in the historical order, or by a genetic search, and how the   *)
(* completion of a roster is predicted from the responses seen so far.     *)
(*                                                                         *)
(* A reliability is a number of Parts; the probability that a majority of  *)
(* a committee succeeds is exact, in parts of Parts^Len(probabilities).  A *)
(* prediction is a pair <<numerator, denominator>>.                        *)
(***************************************************************************)
EXTENDS Integers, Sequences, FiniteSets, SequencesExt, FiniteSetsExt, Functions

CONSTANTS
  Parts,
  Formations,      (* [variant, probabilities, threshold, count], the       *)
                   (* threshold a number of Parts                           *)
  PopulationSize, Generations, MaxMutations, Founders(_), (* of the search  *)
  Predictions,     (* [clusters, roster, usage, capacity, threshold,        *)
                   (* enforced], the clusters sequences of BOOLEAN          *)
  MeanFloor, IccFloor, IccCeiling  (* 1e-9, 1e-6 and 0.95 in the code       *)

FormationAssumption ==
  /\ Parts \in Nat \ {0} /\ PopulationSize \in Nat \ {0, 1} /\ Generations \in Nat \ {0}
  /\ MaxMutations \in Nat
  /\ \A f \in Formations : f.count > 0 /\ \A i \in DOMAIN f.probabilities : f.probabilities[i] \in 0..Parts

VARIABLES
  request,     (* of Formations or of Predictions                           *)
  formed,      (* committees, in the order they were formed                 *)
  remaining,   (* identities no greedy committee has taken                  *)
  population, generation, founders, (* of the search                        *)
  prior,       (* what a prediction starts from                             *)
  observed,    (* member -> BOOLEAN, of a prediction                        *)
  stage        (* "forming", "searching", "fitting", "predicting", "done"   *)
vars == <<request, formed, remaining, population, generation, founders, prior, observed, stage>>

NoPrior == [fitted |-> FALSE]

-------------------------------------------------------------------------------
(* The probability of a majority                                           *)

Enrolled == DOMAIN request.probabilities
Whole == Parts ^ Len(request.probabilities)

(* After each member, distribution[s] is the probability of s successes.   *)
\* Mutant: the distribution is updated in place from its lower end.
AfterMemberAscending(distribution, p) ==
  LET updated[s \in DOMAIN distribution] ==
        distribution[s] * (Parts - p) + (IF s = 0 THEN 0 ELSE updated[s - 1] * p)
  IN updated
AfterMember(distribution, p) ==
  [s \in DOMAIN distribution |->
     distribution[s] * (Parts - p) + (IF s = 0 THEN 0 ELSE distribution[s - 1] * p)]
MajoritySuccess(members) ==
  LET n == Len(members)
      after[i \in 0..n] ==
        IF i = 0 THEN [s \in 0..n |-> IF s = 0 THEN 1 ELSE 0]
        ELSE AfterMember(after[i - 1], request.probabilities[members[i]])
      last == after[n]
  IN IF n = 0 THEN 0
     ELSE MapThenSumSet(LAMBDA s : last[s], (n \div 2 + 1)..n) * Parts ^ (Len(request.probabilities) - n)
Needed == request.threshold * (Whole \div Parts)
Committee(members) == [members |-> members, reliability |-> MajoritySuccess(members)]

-------------------------------------------------------------------------------
(* Greedy formations                                                       *)

\* Mutant: identities are taken in the order they are listed.
ByIndex(S) == SetToSortSeq(S, <)
ByReliability(S) ==
  SetToSortSeq(S, LAMBDA i, j : \/ request.probabilities[i] > request.probabilities[j]
                                \/ request.probabilities[i] = request.probabilities[j] /\ i < j)
GreedyMinimal ==
  LET order == ByReliability(remaining)
      enough == {k \in 1..Len(order) : MajoritySuccess(SubSeq(order, 1, k)) >= Needed}
      taken == SubSeq(order, 1, Min(enough))
  IN IF enough = {} THEN remaining' = {} /\ stage' = "done" /\ UNCHANGED formed
     ELSE /\ formed' = Append(formed, Committee(taken))
          /\ remaining' = remaining \ Range(taken)
          /\ stage' = IF Len(formed') = request.count THEN "done" ELSE stage

(* The first identity that is enough alone; else the pair that is enough   *)
(* with the largest sum, the first of those.                               *)
LegacyGreedy ==
  LET alone == {i \in remaining : MajoritySuccess(<<i>>) >= Needed}
      pairs == {p \in remaining \X remaining : p[1] < p[2] /\ MajoritySuccess(p) >= Needed}
      sum(p) == request.probabilities[p[1]] + request.probabilities[p[2]]
      best == {p \in pairs : \A q \in pairs : sum(q) <= sum(p)}
      taken == IF alone # {} THEN <<Min(alone)>>
               ELSE CHOOSE p \in best : \A q \in best : p[1] < q[1] \/ (p[1] = q[1] /\ p[2] <= q[2])
  IN IF alone = {} /\ pairs = {} THEN stage' = "done" /\ UNCHANGED <<formed, remaining>>
     ELSE /\ formed' = Append(formed, Committee(taken))
          /\ remaining' = remaining \ Range(taken)
          /\ stage' = IF Len(formed') = request.count THEN "done" ELSE stage
FormCommittee ==
  /\ stage = "forming"
  /\ \/ request.variant = "greedy-minimal" /\ GreedyMinimal
     \/ request.variant = "legacy-greedy" /\ LegacyGreedy
  /\ UNCHANGED <<request, population, generation, founders, prior, observed>>

-------------------------------------------------------------------------------
(* The genetic search: an individual gives each identity a committee or    *)
(* none.                                                                   *)

Unassigned == request.count
Decode(individual) ==
  LET group(c) == ByIndex({i \in Enrolled : individual[i] = c})
  IN SelectSeq([c \in 1..request.count |-> Committee(group(c - 1))], LAMBDA c : c.members # <<>>)
Reliable(committees) == SelectSeq(committees, LAMBDA c : c.reliability > Needed)
Members(committees) == [c \in DOMAIN committees |-> Len(committees[c].members)]
Added(values) ==
  LET sum[k \in 0..Len(values)] == IF k = 0 THEN 0 ELSE sum[k - 1] + values[k]
  IN sum[Len(values)]
Fitness(individual) ==
  LET all == Decode(individual)
      valid == Reliable(all)
  IN <<Len(valid), -Added(Members(valid)), Added([c \in DOMAIN all |-> all[c].reliability])>>
Fitter(f, g) == \E k \in 1..3 : f[k] > g[k] /\ \A l \in 1..(k - 1) : f[l] = g[l]
(* The fittest first, equals as they stood.                                *)
Ranked ==
  LET fitness == [k \in DOMAIN population |-> Fitness(population[k])]
      place(k) == 1 + Cardinality({l \in DOMAIN population :
                        \/ Fitter(fitness[l], fitness[k])
                        \/ fitness[l] = fitness[k] /\ l < k})
  IN [r \in DOMAIN population |-> population[CHOOSE k \in DOMAIN population : place(k) = r]]
\* Mutant: the population is not ranked first.
SurvivorsUnranked == SubSeq(population, 1, Max({2, PopulationSize \div 4}))
Survivors == SubSeq(Ranked, 1, Max({2, PopulationSize \div 4}))
Crossings(survivors) ==
  {[i \in Enrolled |-> IF i <= point THEN survivors[a][i] ELSE survivors[b][i]] :
     a, b \in DOMAIN survivors, point \in 1..Max({1, Len(request.probabilities) - 1})}
Children(survivors) ==
  {child \in [Enrolled -> 0..Unassigned] :
     \E crossed \in Crossings(survivors) :
       Cardinality({i \in Enrolled : child[i] # crossed[i]}) <= MaxMutations}
Offspring ==
  LET survivors == Survivors
  IN \E children \in [1..(PopulationSize - Len(survivors)) -> Children(survivors)] :
       population' = survivors \o children
Breed ==
  /\ stage = "searching" /\ generation < Generations
  /\ Offspring
  /\ generation' = generation + 1
  /\ UNCHANGED <<request, formed, remaining, founders, prior, observed, stage>>
TakeBest ==
  /\ stage = "searching" /\ generation = Generations
  /\ formed' = Reliable(Decode(Ranked[1]))
  /\ stage' = "done"
  /\ UNCHANGED <<request, remaining, population, generation, founders, prior, observed>>

-------------------------------------------------------------------------------
(* Predictions                                                             *)

Clip(r, low, high) ==
  IF r[1] * low[2] < low[1] * r[2] THEN low
  ELSE IF r[1] * high[2] > high[1] * r[2] THEN high ELSE r
Yes(cluster) == Cardinality({k \in DOMAIN cluster : cluster[k]})
(* The prior of clusters of m responses each: the mean rate, and the share *)
(* of its variance that is between clusters; alpha and beta in parts of a  *)
(* common unit.                                                            *)
Mean(total, count) == Clip(<<total, count>>, MeanFloor, <<MeanFloor[2] - MeanFloor[1], MeanFloor[2]>>)
\* variance = spread / (n^2 m^2 (n - 1)), over mean (1 - mean)
Over(spread, n, m, mean) ==
  <<spread * mean[2] ^ 2, (n * m) ^ 2 * (n - 1) * mean[1] * (mean[2] - mean[1])>>
Icc(over, m) == Clip(<<m * over[1] - over[2], (m - 1) * over[2]>>, IccFloor, IccCeiling)
BetaOf(mean, icc) ==
  [unit |-> mean[2] * icc[1], independent |-> icc = IccFloor,
   alpha |-> mean[1] * (icc[2] - icc[1]), beta |-> (mean[2] - mean[1]) * (icc[2] - icc[1])]
FittedPrior(clusters, n, m, total) ==
  LET spread == MapThenSumSet(LAMBDA c : (n * Yes(clusters[c]) - total) ^ 2, 1..n)
      mean == Mean(total, n * m)
  IN BetaOf(mean, Icc(Over(spread, n, m, mean), m))
FitPrior ==
  /\ stage = "fitting"
  /\ LET clusters == request.clusters
     IN prior' = FittedPrior(clusters, Len(clusters), Len(clusters[1]),
                             MapThenSumSet(LAMBDA c : Yes(clusters[c]), DOMAIN clusters))
  /\ stage' = "predicting"
  /\ UNCHANGED <<request, formed, remaining, population, generation, founders, observed>>

Rising(a, unit, k) ==
  LET product[i \in 0..k] == IF i = 0 THEN 1 ELSE product[i - 1] * (a + (i - 1) * unit)
  IN product[k]
Choose(n, k) == Cardinality({S \in SUBSET (1..n) : Cardinality(S) = k})
(* At least `needed` of `size` respond; with a unit of 0 they respond      *)
(* independently, alpha times in alpha + beta.                             *)
CompletionTail(size, needed, alpha, beta, unit) ==
  IF needed <= 0 THEN <<1, 1>>
  ELSE IF needed > size THEN <<0, 1>>
  ELSE <<MapThenSumSet(LAMBDA k : Choose(size, k) * Rising(alpha, unit, k) * Rising(beta, unit, size - k),
                       needed..size),
         Rising(alpha + beta, unit, size)>>
EligibleMembers ==
  {v \in Range(request.roster) : ~request.enforced \/ request.usage[v] < request.capacity}
Responded(S, seen) == Cardinality({v \in S \cap DOMAIN seen : seen[v]})
\* Mutant: a member without capacity that responded is counted as done.
CountedAll(seen) == Responded(DOMAIN seen, seen)
Counted(seen) == Responded(EligibleMembers, seen)
Posterior(seen) ==
  LET said == Responded(DOMAIN seen, seen)
  IN CompletionTail(Cardinality(EligibleMembers \ DOMAIN seen), request.threshold - Counted(seen),
       prior.alpha + said * prior.unit, prior.beta + (Cardinality(DOMAIN seen) - said) * prior.unit,
       IF prior.independent THEN 0 ELSE prior.unit)
Observe(v, responds) ==
  /\ stage = "predicting" /\ v \notin DOMAIN observed
  /\ observed' = (v :> responds) @@ observed
  /\ stage' = IF DOMAIN observed' = DOMAIN request.usage THEN "done" ELSE stage
  /\ UNCHANGED <<request, formed, remaining, population, generation, founders, prior>>

-------------------------------------------------------------------------------
Init ==
  /\ formed = <<>> /\ generation = 0 /\ observed = <<>> /\ prior = NoPrior
  /\ \/ /\ request \in Formations /\ request.variant # "genetic"
        /\ remaining = DOMAIN request.probabilities
        /\ population = <<>> /\ stage = "forming"
     \/ /\ request \in Formations /\ request.variant = "genetic"
        /\ remaining = DOMAIN request.probabilities
        /\ population \in Founders(request) /\ stage = "searching"
     \/ /\ request \in Predictions
        /\ remaining = {} /\ population = <<>> /\ stage = "fitting"
  /\ founders = population
Formed == stage = "done" /\ UNCHANGED vars
Next ==
  \/ FormCommittee
  \/ Breed
  \/ TakeBest
  \/ FitPrior
  \/ stage = "predicting" /\ \E v \in DOMAIN request.usage, responds \in BOOLEAN : Observe(v, responds)
  \/ Formed

-------------------------------------------------------------------------------
(* Properties                                                              *)

(* Committees share no identity, and the reliability of one is the sum     *)
(* over the sets of its members that are a majority.                       *)
CommitteesDisjoint ==
  \A a, b \in DOMAIN formed : a # b => Range(formed[a].members) \cap Range(formed[b].members) = {}
ReliabilityExact ==
  \A c \in DOMAIN formed :
    LET members == Range(formed[c].members)
        n == Cardinality(members)
        chance(S) == MapThenFoldSet(LAMBDA a, b : a * b, 1, LAMBDA v : IF v \in S THEN request.probabilities[v]
                                                       ELSE Parts - request.probabilities[v],
                                    LAMBDA T : CHOOSE v \in T : TRUE, members)
    IN formed[c].reliability
         = MapThenSumSet(chance, {S \in SUBSET members : 2 * Cardinality(S) > n})
             * Parts ^ (Len(request.probabilities) - n)

(* No smaller committee of those an earlier one left would do, and the     *)
(* formation stops early only if none would.  A historical committee is a  *)
(* single identity: a pair must both succeed, so one that is enough has a  *)
(* member that is.                                                         *)
FormationMinimal ==
  LET before(c) == Enrolled \ UNION {Range(formed[k].members) : k \in 1..(c - 1)}
      sufficient(S) == {T \in SUBSET S : MajoritySuccess(ByIndex(T)) >= Needed}
  IN request \in Formations =>
       /\ request.variant = "greedy-minimal" =>
            /\ \A c \in DOMAIN formed : \A T \in sufficient(before(c)) :
                 Cardinality(T) >= Len(formed[c].members)
            /\ stage = "done" => Len(formed) = request.count \/ sufficient(before(Len(formed) + 1)) = {}
       /\ request.variant = "legacy-greedy" =>
            \A c \in DOMAIN formed : Len(formed[c].members) = 1

(* The search loses nothing it has found: its answer is as fit as each     *)
(* individual it started from.                                             *)
SearchKeepsBest ==
  stage = "done" /\ request \in Formations /\ request.variant = "genetic" =>
    /\ \A c \in DOMAIN formed : formed[c].reliability > Needed
    /\ \A k \in DOMAIN founders :
         LET valid == Reliable(Decode(founders[k]))
         IN \/ Len(formed) > Len(valid)
            \/ /\ Len(formed) = Len(valid)
               /\ Added(Members(formed)) <= Added(Members(valid))

(* In lowest terms.                                                        *)
Lowest(r) ==
  LET gcd[p \in Nat \X Nat] == IF p[2] = 0 THEN p[1] ELSE gcd[<<p[2], p[1] % p[2]>>]
      shared == gcd[r]
  IN <<r[1] \div shared, r[2] \div shared>>

(* A prediction is the average of what the next response will make of it,  *)
(* unless responses are independent, and is settled once all who count     *)
(* have been seen.                                                         *)
Averages(now, good, bad, chance) ==
  now[1] * (chance[1] + chance[2]) * good[2] * bad[2]
    = now[2] * (chance[1] * good[1] * bad[2] + chance[2] * bad[1] * good[2])
Settled(now) ==
  now = IF Responded(EligibleMembers, observed) >= request.threshold THEN <<1, 1>> ELSE <<0, 1>>
PredictionsCoherent ==
  prior # NoPrior =>
    LET said == Responded(DOMAIN observed, observed)
        after(v, r) == Lowest(Posterior((v :> r) @@ observed))
    IN /\ EligibleMembers \subseteq DOMAIN observed => Settled(Posterior(observed))
       /\ ~prior.independent => \A v \in DOMAIN request.usage \ DOMAIN observed :
            Averages(Lowest(Posterior(observed)), after(v, TRUE), after(v, FALSE),
              Lowest(<<prior.alpha + said * prior.unit,
                       prior.beta + (Cardinality(DOMAIN observed) - said) * prior.unit>>))

FormationSound ==
  CommitteesDisjoint /\ ReliabilityExact /\ FormationMinimal /\ SearchKeepsBest /\ PredictionsCoherent
================================================================================
