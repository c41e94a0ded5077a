--------------------------- MODULE RosterCertification ---------------------------
(***************************************************************************)
(* verifier_roster_certification.py: before any behaviour is observed, the *)
(* smallest roster is chosen for which a public certificate holds.  For    *)
(* one job it bounds the probability that the responding identities form a *)
(* reliable committee; for several jobs it shows that every responding     *)
(* subset large enough has an assignment to all of them.                   *)
(*                                                                         *)
(* A certificate is computed in one call from one request, so a behaviour  *)
(* is the rosters built and the certificate chosen: what makes the module  *)
(* worth checking is that what it answers is compared with the thing it    *)
(* certifies, set by set.                                                  *)
(* The fractions of a request are the counts they are rounded to.          *)
(***************************************************************************)
EXTENDS ReserveRoster

CONSTANT Requests
VARIABLES
  request,   (* the arguments; no step changes them                        *)
  phase,     (* whether the call has returned or raised                    *)
  rosters,   (* the roster of each size asked about                        *)
  answer     (* the row of the certificate's chosen size                   *)
vars == <<request, phase, rosters, answer>>

Unanswered == [passed |-> FALSE]

-------------------------------------------------------------------------------
(* What responds                                                           *)

(* P[X >= threshold] for X responsive identities among draws of the        *)
(* population, in parts of Draws(population).                              *)
Draws(population) == factorial[population]
UpperTail(population, responsive, draws, threshold) ==
  LET hits == {x \in threshold..Min({responsive, draws}) : draws - x <= population - responsive}
  IN  IF threshold <= 0 THEN Draws(population)
      ELSE factorial[draws] * factorial[population - draws]
             * SumOver(hits, LAMBDA x : choose(responsive, x)
                                          * choose(population - responsive, draws - x))

Ascending(bag) == SortSeq(bag, <)

Population == Cardinality(Eligible(request.offers))
Responsive == Population - request.lazy - request.dropout
UnitCost == request.sentinel + request.adjudication
Fee == request.offers[CHOOSE v \in Eligible(request.offers) : TRUE].fee
Primary == PrimaryMembers(request.committees)

-------------------------------------------------------------------------------
(* One job: the prefix witness                                             *)

NoWitness == [prefix |-> 0, survivors |-> 0, reliability |-> 0, probability |-> 0]

\* Mutant: the best survivors are counted on, not the worst.
PrefixWitnessesOfTheBest(reputations, target) ==
  {w \in {[prefix |-> p, survivors |-> q,
           reliability |-> Success(Take(reputations, q)),
           probability |-> UpperTail(Population, Responsive, p, q)] :
            p \in 1..Len(reputations), q \in OddPrefixes(reputations)} :
     w.survivors <= w.prefix /\ w.reliability >= target}

PrefixWitnesses(reputations, target) ==
  {w \in {[prefix |-> p, survivors |-> q,
           reliability |-> Success(Take(Ascending(SubSeq(reputations, 1, p)), q)),
           probability |-> UpperTail(Population, Responsive, p, q)] :
            p \in 1..Len(reputations), q \in OddPrefixes(reputations)} :
     w.survivors <= w.prefix /\ w.reliability >= target}

PeakExposure(w, cap) ==
  (cap - w.prefix) * request.retainer + w.prefix * UnitCost + w.survivors * Fee

BudgetWitnesses(reputations, target, cap) ==
  {w \in PrefixWitnesses(reputations, target) :
     PeakExposure(w, cap) <= request.multiplier * (Fee + UnitCost)}

WitnessKey(w) == <<-w.probability, -w.reliability, w.prefix, w.survivors>>
Strongest(witnesses) ==
  IF witnesses = {} THEN NoWitness
  ELSE CHOOSE w \in witnesses :
         \A other \in witnesses \ {w} : LexLess(WitnessKey(w), WitnessKey(other))

RosterRefusedAt(cap) ==
  IF request.robust
  THEN RosterRefused(request.offers, Primary, cap, request.batch, request.removal)
  ELSE PrefixRosterRefused(request.offers, Primary, cap, request.batch)

RosterAt(cap) ==
  IF request.robust
  THEN RobustRoster(request.offers, Primary, cap, request.removal, request.retainer)
  ELSE PrefixRoster(request.offers, cap)

ResolveRefused ==
  \/ Eligible(request.offers) = {}
  \/ \E u, v \in Eligible(request.offers) : request.offers[u].fee # request.offers[v].fee
  \/ Responsive < 0
  \/ request.committees = <<>> \/ \E j \in DOMAIN request.committees : request.committees[j] = <<>>
  \/ \E k \in DOMAIN request.caps : RosterRefusedAt(request.caps[k])

Evaluated(cap) ==
  LET order == rosters[cap]
      reputations == Reputations(request.offers, order)
      target == request.target + request.margin
      witness == Strongest(IF request.budgetFeasible
                           THEN BudgetWitnesses(reputations, target, cap)
                           ELSE PrefixWitnesses(reputations, target))
  IN  [cap |-> cap, order |-> order, witness |-> witness,
       passed |-> /\ Len(order) = Min({Population, cap})
                  /\ witness.probability * 1000 >= request.confidence * Draws(Population)]

(* The smallest certified cap, the last cap when none is certified.        *)
ResolveRegistered ==
  LET rows == [k \in DOMAIN request.caps |-> Evaluated(request.caps[k])]
      passing == {k \in DOMAIN rows : rows[k].passed}
  IN  rows[IF passing = {} THEN Len(rows) ELSE Min(passing)]

-------------------------------------------------------------------------------
(* Several jobs: capacity                                                  *)

JobIds == DOMAIN request.committees
Unavailable == request.lazy + request.dropout + request.removal
ResponsivePopulation == IF Unavailable >= Population THEN 0 ELSE Population - Unavailable

(* The largest number of responders the roster has with the confidence.    *)
ResponsiveBound(size) ==
  Max({value \in 0..size :
         UpperTail(Population, ResponsivePopulation, size, value) * 1000
           >= request.confidence * Draws(Population)})

(* The survivors a job needs whoever they are: one more than there are     *)
(* when no number suffices.                                                *)
SurvivorsNeeded(order, target) ==
  LET ascending == Ascending(Reputations(request.offers, order))
      enough == {n \in OddPrefixes(order) : Success(Take(ascending, n)) >= target}
  IN  IF enough = {} THEN Len(order) + 1 ELSE Min(enough)

Useful(v, jobs) ==
  Min({request.offers[v].capacity, Cardinality(jobs \ request.offers[v].conflicts)})
Demand(needed, jobs) == SumOver(jobs, LAMBDA j : needed[j])

(* One responding set, chosen as the least useful for all jobs at once.    *)
ConservativeKey(v) ==
  <<request.offers[v].capacity * Cardinality(JobIds \ request.offers[v].conflicts),
    request.offers[v].capacity, request.offers[v].reputation, v>>
ConservativeResponders(members, bound) ==
  ToSet(Take(SetToSortSeq(members, LAMBDA a, b : LexLess(ConservativeKey(a), ConservativeKey(b))),
             bound))

HallPasses(needed, responders) ==
  \A jobs \in SUBSET JobIds \ {{}} :
    SumOver(responders, LAMBDA v : Useful(v, jobs)) >= Demand(needed, jobs)

(* The least useful responders of each subset of the jobs by itself.       *)
LeastUseful(members, jobs, bound) ==
  ToSet(Take(SetToSortSeq(members, LAMBDA a, b :
                            LexLess(<<Useful(a, jobs), a>>, <<Useful(b, jobs), b>>)), bound))
AllResponsePasses(needed, members, bound) ==
  \A jobs \in SUBSET JobIds \ {{}} :
    SumOver(LeastUseful(members, jobs, bound), LAMBDA v : Useful(v, jobs)) >= Demand(needed, jobs)

LeastCapacity(order, bound) ==
  FoldLeft(+, 0, Take(Ascending([k \in DOMAIN order |-> request.offers[order[k]].capacity]), bound))

CapacityPeak(size, most) ==
  Max({0, size - most}) * request.retainer + most * (Fee + UnitCost)
CostPasses(size, most) ==
  /\ CapacityPeak(size, most)
       <= request.multiplier * Min({Len(request.committees[j]) : j \in JobIds}) * (Fee + UnitCost)
  /\ 2 * size - 3 <= 90    (* 1 + (size - 1.5) / 180 at most 1.25           *)

EvaluatedCapacity(cap) ==
  LET order == rosters[cap]
      members == ToSet(order)
      bound == ResponsiveBound(Len(order))
      needed == [j \in JobIds |-> SurvivorsNeeded(order, request.targets[j] + request.margin)]
      most == Max({needed[j] : j \in JobIds})
      responders == ConservativeResponders(members, bound)
      supply == IF request.allResponse THEN LeastCapacity(order, bound)
                ELSE SumOver(responders, LAMBDA v : request.offers[v].capacity)
  IN  [cap |-> cap, order |-> order, bound |-> bound, needed |-> needed,
       passed |-> /\ Len(order) = cap /\ most <= Len(order) /\ bound >= most
                  /\ supply >= Demand(needed, JobIds) + 1
                  /\ IF request.allResponse THEN AllResponsePasses(needed, members, bound)
                     ELSE HallPasses(needed, responders)
                  /\ CostPasses(Len(order), most)]

CapacityCandidates ==
  {Min({Population, request.caps[k]}) : k \in DOMAIN request.caps}
    \cap 1..Min({Population, request.ceiling})
CapacityRefused ==
  \/ Eligible(request.offers) = {} \/ JobIds = {}
  \/ Min({Population, request.ceiling}) \notin CapacityCandidates
  \/ \E u, v \in Eligible(request.offers) : request.offers[u].fee # request.offers[v].fee
  \/ \E cap \in CapacityCandidates : RosterRefusedAt(cap)

CertifyCapacityOf ==
  LET rows == {EvaluatedCapacity(cap) : cap \in CapacityCandidates}
      passing == {row \in rows : row.passed}
      choice == IF passing = {} THEN Max({row.cap : row \in rows})
                ELSE Min({row.cap : row \in passing})
  IN  CHOOSE row \in rows : row.cap = choice

-------------------------------------------------------------------------------
Refused == IF request.multiJob THEN CapacityRefused ELSE ResolveRefused
Sizes == IF request.multiJob THEN CapacityCandidates ELSE Range(request.caps)

Init == /\ request \in Requests /\ phase = "asked"
        /\ rosters = <<>> /\ answer = Unanswered

Refuse ==
  /\ phase = "asked" /\ Refused
  /\ phase' = "refused"
  /\ UNCHANGED <<request, rosters, answer>>

BuildRosters ==
  /\ phase = "asked" /\ ~Refused
  /\ phase' = "built"
  /\ rosters' = [cap \in Sizes |-> RosterAt(cap)]
  /\ UNCHANGED <<request, answer>>

Resolve ==
  /\ phase = "built" /\ ~request.multiJob
  /\ phase' = "answered"
  /\ answer' = ResolveRegistered
  /\ UNCHANGED <<request, rosters>>

CertifyCapacity ==
  /\ phase = "built" /\ request.multiJob
  /\ phase' = "answered"
  /\ answer' = CertifyCapacityOf
  /\ UNCHANGED <<request, rosters>>

Next == Refuse \/ BuildRosters \/ Resolve \/ CertifyCapacity
Spec == Init /\ [][Next]_vars

Answered == phase = "answered"

-------------------------------------------------------------------------------
(* What a certificate promises                                             *)

(* The shortcuts compute what the enumerations they stand for compute: the *)
(* removal of the strongest members is the worst of all removals, the      *)
(* public order is the greedy order, and the reported size of the search   *)
(* is the number of sets and prefixes the exhaustive search would visit.   *)
Enumerated(order, budget) ==
  [removals |-> Cardinality(Removals(order, budget)),
   prefixes |-> SumOver(Removals(order, budget),
                        LAMBDA gone : Cardinality(OddPrefixes(Without(order, gone))))]
FastIsExhaustive ==
  (phase = "built" /\ ~request.multiJob) =>
    \A cap \in DOMAIN rosters :
      LET order == rosters[cap]
      IN  /\ RobustCertificate(request.offers, order, request.removal)
               = LegacyCertificate(request.offers, order, request.removal)
          /\ request.robust => order = LegacyGreedyRoster(request.offers, Primary,
                                                          cap, request.removal)
          /\ SearchSpace(Len(order), request.removal) = Enumerated(order, request.removal)

(* The prefix witness understates: of the responding sets the frozen       *)
(* threat leaves possible, at least the certified share reconstitutes a    *)
(* committee that meets the target, whoever responds.                      *)
Reconstitutes(order, responders) ==
  Reconstitution(request.offers, order, ToSet(order), responders, request.target).status
    = "RECONSTITUTED"
ReliableShare ==
  (Answered /\ ~request.multiJob) =>
    LET responding == kSubset(Responsive, Eligible(request.offers))
        reliable == {responders \in responding : Reconstitutes(answer.order, responders)}
    IN  /\ Cardinality(reliable) * Draws(Population)
             >= answer.witness.probability * Cardinality(responding)
        /\ answer.passed => Cardinality(reliable) * 1000
                              >= request.confidence * Cardinality(responding)

(* The capacity test is exact: the least useful responders of every subset *)
(* of the jobs pass exactly when every responding set of the certified     *)
(* size can be divided among the jobs, within capacities and conflicts;    *)
(* and whichever survivors a job is given, as many as it needs reach its   *)
(* target.                                                                 *)
Assignable(needed, responders) ==
  \E given \in [JobIds -> SUBSET responders] :
    /\ \A j \in JobIds : Cardinality(given[j]) = needed[j]
    /\ \A v \in responders :
         /\ Cardinality({j \in JobIds : v \in given[j]}) <= request.offers[v].capacity
         /\ \A j \in request.offers[v].conflicts : v \notin given[j]
CapacityExact ==
  (Answered /\ request.multiJob) =>
    LET members == ToSet(answer.order)
        responding == kSubset(answer.bound, members)
        conservative == ConservativeResponders(members, answer.bound)
    IN  /\ AllResponsePasses(answer.needed, members, answer.bound)
             <=> \A responders \in responding : Assignable(answer.needed, responders)
        /\ HallPasses(answer.needed, conservative) <=> Assignable(answer.needed, conservative)
        /\ \A j \in JobIds : \A survivors \in kSubset(answer.needed[j], members) :
             Success(Reputations(request.offers, SetToSeq(survivors))) >= request.targets[j]

(* Every certificate states the truth about the responders it is for.      *)
CertificatesExact == ReliableShare /\ CapacityExact
===============================================================================
