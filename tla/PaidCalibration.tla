----------------------------- MODULE PaidCalibration -----------------------------
(***************************************************************************)
(* PaidCalibrationLedger of reputation/calibration.py.  Before a verifier  *)
(* is admitted to production the owner pays it for calibration             *)
(* assignments: each is reserved against the budget, observed once, and    *)
(* counted; the verifier is admissible when exact lower confidence bounds  *)
(* (statistical_bounds.py) of its correctness and of its availability      *)
(* reach the required levels.                                              *)
(*                                                                         *)
(* Amounts are whole numbers of the tolerance the ledger compares with, a  *)
(* probability a whole number of parts of Unit.  The bound is a quantile   *)
(* of a beta distribution: it is at least p exactly when k or more of n    *)
(* successes of probability p have probability at most alpha.  A call the  *)
(* ledger refuses raises and changes nothing, so it is no step.            *)
(***************************************************************************)
EXTENDS Integers, FiniteSets, FiniteSetsExt, Combinatorics

CONSTANTS
  CalibrationAssignments, Blocks, (* identities of assignments and sources *)
  Budget, FeePosted, OwnerReserve,
  CalibrationSettlements,         (* what an assignment can be settled as  *)
  OwnerCosts,                     (* what replaying its reference can cost *)
  Unit, Alpha, MinimumCorrectness, MinimumAvailability,
  StationaryBlocks,               (* whether the caller declares them      *)
  MostTrials                      (* the longest calibration the error
                                     probability is computed for           *)

Tolerance == 1
Attributable == {"PASS", "FAIL_CONFIRMED", "DROPOUT"}
Answers == {"correct", "wrong", "unaudited"}

ASSUME CalibrationAssumption ==
  /\ Budget \in Nat /\ FeePosted \in Nat /\ OwnerReserve \in Nat
  /\ CalibrationSettlements \subseteq
       [status: Attributable \cup {"TECHNICAL_FAILURE"}, accepted: BOOLEAN, fee: Nat]
  /\ OwnerCosts \subseteq Nat
  /\ IsFiniteSet(CalibrationAssignments)
  /\ Unit \in Nat \ {0} /\ Alpha \in Nat /\ MostTrials \in Nat
  /\ MinimumCorrectness \in 0..Unit /\ MinimumAvailability \in 0..Unit

VARIABLES
  reservations,   (* the block each reserved assignment replays            *)
  observations    (* what was observed of each completed one               *)
ledger == <<reservations, observations>>

Each == FeePosted + OwnerReserve
Reserved(n) == n * Each
Opportunities == Cardinality(DOMAIN reservations)
Completed == Cardinality(DOMAIN observations)

-------------------------------------------------------------------------------
(* Operations                                                              *)

LedgerInit == reservations = [a \in {} |-> 0] /\ observations = [a \in {} |-> 0]

Extend(f, a, value) == [x \in DOMAIN f \cup {a} |-> IF x = a THEN value ELSE f[x]]

\* Mutant: the assignment at hand is left out of what is reserved.
MayReserveOneMore(a, block) ==
  /\ a \notin DOMAIN reservations
  /\ \A other \in DOMAIN reservations : reservations[other] # block
  /\ Reserved(Opportunities) <= Budget + Tolerance

MayReserve(a, block) ==
  /\ a \notin DOMAIN reservations
  /\ \A other \in DOMAIN reservations : reservations[other] # block
  /\ Reserved(Opportunities + 1) <= Budget + Tolerance

Reserve(a, block) ==
  /\ MayReserve(a, block)
  /\ reservations' = Extend(reservations, a, block)
  /\ UNCHANGED observations

Admits(settlement) == settlement.status = "PASS" /\ settlement.accepted

MayRecord(a, settlement, answer, ownerCost) ==
  /\ a \in DOMAIN reservations /\ a \notin DOMAIN observations
  /\ ownerCost <= OwnerReserve
  /\ settlement.fee <= FeePosted + Tolerance
  /\ answer # "unaudited" => Admits(settlement)

Observation(settlement, timely, answer, ownerCost) ==
  [status |-> settlement.status, admitted |-> Admits(settlement),
   timely |-> timely /\ Admits(settlement), answer |-> answer,
   fee |-> settlement.fee, cost |-> ownerCost]

Record(a, settlement, timely, answer, ownerCost) ==
  /\ MayRecord(a, settlement, answer, ownerCost)
  /\ observations' = Extend(observations, a,
                            Observation(settlement, timely, answer, ownerCost))
  /\ UNCHANGED reservations

LedgerNext ==
  \/ \E a \in CalibrationAssignments, block \in Blocks : Reserve(a, block)
  \/ \E a \in CalibrationAssignments, settlement \in CalibrationSettlements,
        timely \in BOOLEAN, answer \in Answers, ownerCost \in OwnerCosts :
       Record(a, settlement, timely, answer, ownerCost)

LedgerSpec == LedgerInit /\ [][LedgerNext]_ledger

-------------------------------------------------------------------------------
(* Admission                                                               *)

Power(b, n) == LET power[k \in Nat] == IF k = 0 THEN 1 ELSE b * power[k - 1] IN power[n]

(* The chances of x, and of k or more, successes among n of probability p, *)
(* in parts of Power(Unit, n).                                             *)
Chances(p, n) == [x \in 0..n |-> choose(n, x) * (Power(p, x) * Power(Unit - p, n - x))]
TailAt(p, k, n) == MapThenSumSet(LAMBDA x : Chances(p, n)[x], k..n)

\* Mutant: the bound of one success more.
LowerReachesEarly(k, n, p) ==
  /\ StationaryBlocks /\ n > 0 /\ k > 0
  /\ TailAt(p, k + 1, n) * Unit <= Alpha * Power(Unit, n)

(* The lower bound of k successes among n reaches p.                       *)
LowerReaches(k, n, p) ==
  /\ StationaryBlocks /\ n > 0 /\ k > 0
  /\ TailAt(p, k, n) * Unit <= Alpha * Power(Unit, n)

(* What the summary counts of the observations o.                          *)
TimelyAdmitted(o) == Cardinality({a \in DOMAIN o : o[a].timely})
Audited(o) == Cardinality({a \in DOMAIN o : o[a].admitted /\ o[a].answer # "unaudited"})
CorrectAudited(o) == Cardinality({a \in DOMAIN o : o[a].admitted /\ o[a].answer = "correct"})
AllAdmittedAudited(o) ==
  \A a \in DOMAIN o : o[a].admitted => o[a].answer # "unaudited"

ProductionAdmissible(o) ==
  /\ Cardinality(DOMAIN o) = Opportunities
  /\ Audited(o) > 0 /\ AllAdmittedAudited(o)
  /\ LowerReaches(CorrectAudited(o), Audited(o), MinimumCorrectness)
  /\ LowerReaches(TimelyAdmitted(o), Cardinality(DOMAIN o), MinimumAvailability)

-------------------------------------------------------------------------------
(* Properties                                                              *)

(* The ledger never promises more than it has: what is reserved fits the   *)
(* budget, no observation is without a reservation or costs more than one, *)
(* and no source block is counted twice, each within the tolerance.        *)
CalibrationFunded ==
  /\ Reserved(Opportunities) <= Budget + Tolerance
  /\ DOMAIN observations \subseteq DOMAIN reservations
  /\ \A a \in DOMAIN observations : observations[a].fee + observations[a].cost <= Each + Tolerance
  /\ \A a, b \in DOMAIN reservations : reservations[a] = reservations[b] => a = b

(* A verifier whose correctness (or availability) is below what is         *)
(* required is admitted with probability at most alpha by a calibration    *)
(* whose length was fixed beforehand.                                      *)
Admitting(n, p) == {k \in 0..n : LowerReaches(k, n, p)}
AdmissionIsRare ==
  \A n \in 1..MostTrials, required \in {MinimumCorrectness, MinimumAvailability} :
    \A p \in 0..(required - 1) :
      MapThenSumSet(LAMBDA k : Chances(p, n)[k], Admitting(n, required))
        * Unit <= Alpha * Power(Unit, n)

(* r is at least as good an observation as s.                              *)
AsGood(r, s) ==
  /\ s.timely => r.timely
  /\ s.admitted => r.admitted
  /\ s.answer = "correct" => r.answer = "correct"
  /\ s.answer = "wrong" => r.answer # "unaudited"
  /\ r.admitted => r.answer # "unaudited"
  /\ ~s.admitted => ~r.admitted \/ r.answer = "correct"
Observable == {Observation(s, timely, answer, 0) :
                 s \in {t \in CalibrationSettlements : Admits(t)},
                 timely \in BOOLEAN, answer \in Answers}

(* Admission is earned: it takes every reserved opportunity completed and  *)
(* every admitted report audited, never turns against a verifier that had  *)
(* done better on one of them, and is rare for one that is not good        *)
(* enough.                                                                 *)
AdmissionEarned ==
  /\ AdmissionIsRare
  /\ ProductionAdmissible(observations) =>
       /\ DOMAIN observations = DOMAIN reservations
       /\ \A a \in DOMAIN observations :
            observations[a].admitted <=> observations[a].answer \in {"correct", "wrong"}
       /\ \A a \in DOMAIN observations : \A r \in Observable :
            AsGood(r, observations[a])
              => ProductionAdmissible([observations EXCEPT ![a] = r])
===============================================================================
