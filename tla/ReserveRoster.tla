----------------------------- MODULE ReserveRoster -----------------------------
(***************************************************************************)
(* The paid roster of verifier_reserve_recovery.py and what is computed    *)
(* from it: the order of the identities, the certificate that the roster   *)
(* survives any bounded removal, the waves it is activated in, and the     *)
(* committee its PASS reports reconstitute.                                *)
(*                                                                         *)
(* A reputation is a whole number of parts of Scale, so a committee of n   *)
(* members succeeds with a whole number of parts of Scale^n: every         *)
(* probability is exact and is given in parts of One.  An identity is a    *)
(* number, its place in the order of names.  An offer is indexed by its    *)
(* identity, which makes the identities unique.                            *)
(***************************************************************************)
EXTENDS Integers, FiniteSets, FiniteSetsExt, SequencesExt, Combinatorics

CONSTANTS
  Scale,       (* parts of a reputation of 1                               *)
  MaxRoster,   (* members of the longest roster considered                 *)
  TieBreak     (* the digest that orders offers alike in the rest          *)

RosterConstants == Scale \in Nat \ {0} /\ MaxRoster \in Nat

One == Scale^MaxRoster

LexLess(a, b) ==
  \E k \in 1..Len(b) : /\ \A m \in 1..(k - 1) : m \in DOMAIN a /\ a[m] = b[m]
                       /\ (k \notin DOMAIN a \/ a[k] < b[k])

Take(s, n) == SubSeq(s, 1, Min({n, Len(s)}))
SumOver(S, Value(_)) == MapThenSumSet(Value, S)
Total(f, S) == MapThenSumSet(LAMBDA x : f[x], S)

-------------------------------------------------------------------------------
(* Majorities                                                              *)

(* correct[k]: k of the members are correct, in parts of Scale^n.          *)
CorrectMembers(reputations) ==
  FoldLeft(LAMBDA correct, r :
             [k \in 0..Len(reputations) |->
                correct[k] * (Scale - r) + (IF k = 0 THEN 0 ELSE correct[k - 1] * r)],
           [k \in 0..Len(reputations) |-> IF k = 0 THEN 1 ELSE 0], reputations)

Success(reputations) ==
  LET n == Len(reputations)
  IN  Scale^(MaxRoster - n)
        * SumOver((n \div 2 + 1)..n, LAMBDA k : CorrectMembers(reputations)[k])

OddPrefixes(s) == {size \in 1..Len(s) : size % 2 = 1}

-------------------------------------------------------------------------------
(* The certificate of a roster under removals                              *)

Reputations(offers, order) == [k \in DOMAIN order |-> offers[order[k]].reputation]

(* The strongest odd prefix, and the shortest of them.                     *)
BestPrefix(offers, order) ==
  LET reliability == [n \in OddPrefixes(order) |->
                        Success(Reputations(offers, SubSeq(order, 1, n)))]
      best == Max({0} \cup {reliability[n] : n \in DOMAIN reliability})
  IN  [reliability |-> best,
       prefix |-> SubSeq(order, 1, Min({n \in DOMAIN reliability : reliability[n] = best}
                                         \cup (IF DOMAIN reliability = {} THEN {0} ELSE {})))]

Without(order, removed) == SelectSeq(order, LAMBDA v : v \notin ToSet(removed))

Removals(order, budget) ==
  {SelectSeq(order, LAMBDA v : v \in gone) :
     gone \in {S \in SUBSET ToSet(order) : Cardinality(S) <= budget}}

Certificate(offers, order, removed) ==
  LET best == BestPrefix(offers, Without(order, removed))
  IN  [reliability |-> best.reliability, removed |-> removed, prefix |-> best.prefix,
       bestReliability |-> best.reliability]

(* (reliability, removed, prefix) decide which removal is the worst.       *)
Worse(a, b) ==
  \/ a.reliability < b.reliability
  \/ a.reliability = b.reliability /\ LexLess(a.removed, b.removed)
  \/ /\ a.reliability = b.reliability /\ a.removed = b.removed
     /\ LexLess(a.prefix, b.prefix)

NoRemoval == [reliability |-> One, removed |-> <<>>, prefix |-> <<>>, bestReliability |-> 0]

LegacyCertificate(offers, order, budget) ==
  LET all == {NoRemoval} \cup {Certificate(offers, order, removed) :
                                 removed \in Removals(order, budget)}
  IN  CHOOSE worst \in all : \A other \in all : ~Worse(other, worst)

\* Mutant: the weakest members are removed.
MonotoneFromTheEnd(offers, order, budget) ==
  Certificate(offers, order, Take(Reverse(order), budget))

MonotoneCertificate(offers, order, budget) ==
  Certificate(offers, order, Take(order, budget))

MonotoneApplicable(offers, order) ==
  /\ order # <<>>
  /\ \A k \in DOMAIN order : offers[order[k]].reputation \in 1..(Scale - 1)
  /\ \A k \in 1..(Len(order) - 1) :
       offers[order[k]].reputation > offers[order[k + 1]].reputation

RobustCertificate(offers, order, budget) ==
  IF MonotoneApplicable(offers, order) THEN MonotoneCertificate(offers, order, budget)
  ELSE LegacyCertificate(offers, order, budget)

(* What both report of the size of the exhaustive search.                  *)
SearchSpace(n, budget) ==
  LET sizes == 0..Min({budget, n})
  IN  [removals |-> SumOver(sizes, LAMBDA k : choose(n, k)),
       prefixes |-> SumOver(sizes, LAMBDA k : choose(n, k) * ((n - k + 1) \div 2))]

-------------------------------------------------------------------------------
(* The order of the roster                                                 *)

Eligible(offers) == {v \in DOMAIN offers : offers[v].accepts /\ offers[v].capacity > 0}

PublicKey(offers, v) == <<-offers[v].reputation, offers[v].fee, TieBreak[v], v>>
PublicOrder(offers, S) ==
  SetToSortSeq(S, LAMBDA a, b : LexLess(PublicKey(offers, a), PublicKey(offers, b)))

(* committees: the primary committee of each job, as a sequence.           *)
PrimaryMembers(committees) == UNION {ToSet(committees[j]) : j \in DOMAIN committees}

PrefixRoster(offers, cap) == Take(PublicOrder(offers, Eligible(offers)), cap)

(* The next reserve of the greedy roster: the one that leaves the highest  *)
(* certified reliability, the first of the public order among those.       *)
BestReserve(offers, selected, budget) ==
  LET Certified(v) ==
        [id |-> v, reliability |->
                     LegacyCertificate(offers, Append(selected, v), budget).reliability]
      candidates == {Certified(v) : v \in Eligible(offers) \ ToSet(selected)}
      best == CHOOSE c \in candidates :
                \A d \in candidates \ {c} :
                  \/ c.reliability > d.reliability
                  \/ /\ c.reliability = d.reliability
                     /\ LexLess(PublicKey(offers, c.id), PublicKey(offers, d.id))
  IN  best.id

LegacyGreedyRoster(offers, primary, cap, budget) ==
  FoldLeft(LAMBDA selected, step :
             IF Eligible(offers) \subseteq ToSet(selected) THEN selected
             ELSE Append(selected, BestReserve(offers, selected, budget)),
           PublicOrder(offers, primary), [step \in 1..(cap - Cardinality(primary)) |-> step])

GreedyFastApplicable(offers, primary, retainer) ==
  LET order == PublicOrder(offers, Eligible(offers))
  IN  /\ retainer > 0
      /\ primary = ToSet(Take(order, Cardinality(primary)))
      /\ MonotoneApplicable(offers, order)

RobustRoster(offers, primary, cap, budget, retainer) ==
  IF GreedyFastApplicable(offers, primary, retainer) THEN PrefixRoster(offers, cap)
  ELSE LegacyGreedyRoster(offers, primary, cap, budget)

RosterRefused(offers, primary, cap, batch, budget) ==
  \/ ~(primary \subseteq Eligible(offers))
  \/ Cardinality(primary) > cap
  \/ batch \notin {1, 2}
  \/ budget < 0

PrefixRosterRefused(offers, primary, cap, batch) ==
  \/ cap <= 0 \/ batch <= 0
  \/ ~(primary \subseteq ToSet(PrefixRoster(offers, cap)))

-------------------------------------------------------------------------------
(* The waves and the committee                                             *)

(* The n-th of some positions.                                             *)
Nth(positions, n) == CHOOSE k \in positions : Cardinality({h \in positions : h < k}) = n - 1

(* The next locked batch of reserves: <<>> when there is none.             *)
NextReserveBatch(order, primary, batch, activated, unavailable) ==
  LET free == {k \in DOMAIN order : order[k] \notin primary \cup activated \cup unavailable}
  IN  [n \in 1..Min({batch, Cardinality(free)}) |-> order[Nth(free, n)]]

(* survivors: who passed, in the order the policy ranks them.              *)
SurvivorsInOrder(ranked, passed) == SelectSeq(ranked, LAMBDA v : v \in passed)

ReputationOrder(offers, S) ==
  SetToSortSeq(S, LAMBDA a, b :
    LexLess(<<-offers[a].reputation, a>>, <<-offers[b].reputation, b>>))

Reconstitution(offers, ranked, activated, passed, target) ==
  LET survivors == SurvivorsInOrder(ranked, passed \cap activated)
      reliability == [n \in OddPrefixes(survivors) |->
                        Success(Reputations(offers, SubSeq(survivors, 1, n)))]
      enough == {n \in DOMAIN reliability : reliability[n] >= target}
      most == Max({0} \cup {reliability[n] : n \in DOMAIN reliability})
  IN  [status |-> IF enough # {} THEN "RECONSTITUTED"
                  ELSE IF Cardinality(activated) >= Len(ranked)
                  THEN "ABSTAIN_RESERVE_EXHAUSTED" ELSE "NEEDS_RESERVE",
       members |-> IF enough = {} THEN <<>> ELSE SubSeq(survivors, 1, Min(enough)),
       reliability |-> IF enough = {} THEN 0 ELSE reliability[Min(enough)],
       gap |-> Max({0, target - most}),
       activated |-> Cardinality(activated)]
===============================================================================
